---------------------------- MODULE MCDirectedQueue ----------------------------
(***************************************************************************)
(* Sinks are numbers, in the order of the keys the code breaks ties by.    *)
(***************************************************************************)
EXTENDS DirectedQueue

CONSTANTS loop, s1

=============================================================================
