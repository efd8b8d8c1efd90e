----------------------------- MODULE MCWantedJobs -----------------------------
(***************************************************************************)
(* Two sinks in two functions, or both in one function; three rungs of the *)
(* ladder, so that each answer of NextRung can be the next.                *)
(***************************************************************************)
EXTENDS WantedJobs

MCSinks == <<[method |-> "m1", place |-> 1], [method |-> "m2", place |-> 2]>>

TwinSinks == <<[method |-> "m1", place |-> 1], [method |-> "m1", place |-> 2]>>

MCLadder == <<"dictionary", "frontier", "symcc-long">>

=============================================================================
