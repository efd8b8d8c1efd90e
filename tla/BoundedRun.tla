------------------------------- MODULE BoundedRun -------------------------------
(***************************************************************************)
(* One external command under a time limit (bounded_run in                 *)
(* process_safety.py): the command leads a process group of its own, may   *)
(* start descendants there, and every way out of the call ends the group.  *)
(***************************************************************************)
EXTENDS FiniteSets

CONSTANTS
  Leader, Kids,   \* the command, and what it may start
  Deaf,           \* processes that ignore SIGTERM
  Escapes         \* descendants that make a session of their own

VARIABLES
  alive,     \* the processes that are running
  group,     \* those of them that are in the group of the command
  waiter,    \* what the caller is doing
  outcome    \* of the result: whether it timed out, and who ended the command

boundedVars == <<alive, group, waiter, outcome>>

Unfinished == [timed |-> FALSE, ended |-> "running"]

Signalled(deaf) == alive' = alive \ (group \ deaf)

\* Popen fails, and there is nothing to end.
SpawnFails ==
  /\ waiter = "idle" /\ waiter' = "returned"
  /\ outcome' = [timed |-> FALSE, ended |-> "never ran"]
  /\ UNCHANGED <<alive, group>>

Spawn ==
  /\ waiter = "idle" /\ waiter' = "waiting"
  /\ alive' = {Leader} /\ group' = {Leader}
  /\ UNCHANGED outcome

\* Any process of the group may start another.
Fork(k) ==
  /\ alive \cap group # {} /\ k \notin group /\ k \notin alive
  /\ waiter # "returned"
  /\ alive' = alive \cup {k} /\ group' = group \cup {k}
  /\ UNCHANGED <<waiter, outcome>>

Leave(k) ==
  /\ k \in alive \cap group \cap Escapes
  /\ group' = group \ {k}
  /\ UNCHANGED <<alive, waiter, outcome>>

Exits(p) ==
  /\ p \in alive /\ alive' = alive \ {p}
  /\ outcome' = IF p = Leader /\ outcome.ended = "running"
                THEN [outcome EXCEPT !.ended = "itself"] ELSE outcome
  /\ UNCHANGED <<group, waiter>>

WaitReturns ==
  /\ waiter = "waiting" /\ Leader \notin alive /\ waiter' = "end group"
  /\ UNCHANGED <<alive, group, outcome>>

\* _terminate_process_tree: SIGTERM to the group, then a grace period.
WaitExpires ==
  /\ waiter = "waiting" /\ waiter' = "grace"
  /\ Signalled(Deaf)
  /\ outcome' = [timed |-> TRUE,
                 ended |-> IF Leader \in alive \ Deaf THEN "signal" ELSE outcome.ended]
  /\ UNCHANGED group

GraceReturns ==
  /\ waiter = "grace" /\ Leader \notin alive /\ waiter' = "end group"
  /\ UNCHANGED <<alive, group, outcome>>

GraceExpires ==
  /\ waiter = "grace" /\ Leader \in alive /\ waiter' = "end group"
  /\ Signalled({})
  /\ outcome' = [outcome EXCEPT !.ended = "signal"]
  /\ UNCHANGED group

\* Mutant: the group is ended only when the command timed out.
EndGroupIfTimed ==
  /\ waiter = "end group" /\ waiter' = IF outcome.timed THEN "killed" ELSE "returned"
  /\ IF outcome.timed THEN Signalled(Deaf) ELSE UNCHANGED alive
  /\ UNCHANGED <<group, outcome>>

\* _terminate_process_group: two signals, for what has outlived the command.
EndGroup ==
  /\ waiter = "end group" /\ waiter' = "killed"
  /\ Signalled(Deaf)
  /\ UNCHANGED <<group, outcome>>

\* Nothing of the group was there to take the first signal, so there is none.
NobodyLeft ==
  /\ waiter = "end group" /\ waiter' = "returned"
  /\ alive \cap group = {}
  /\ UNCHANGED <<alive, group, outcome>>

KillGroup ==
  /\ waiter = "killed" /\ waiter' = "returned"
  /\ Signalled({})
  /\ UNCHANGED <<group, outcome>>

BoundedInit ==
  /\ alive = {} /\ group = {} /\ waiter = "idle" /\ outcome = Unfinished

BoundedNext ==
  \/ SpawnFails \/ Spawn \/ WaitReturns \/ WaitExpires
  \/ GraceReturns \/ GraceExpires \/ EndGroup \/ NobodyLeft \/ KillGroup
  \/ \E k \in Kids : Fork(k) \/ Leave(k)
  \/ \E p \in Kids \cup {Leader} : Exits(p)

BoundedSpec == BoundedInit /\ [][BoundedNext]_boundedVars

-----------------------------------------------------------------------------
(* Properties *)

\* When the call returns, nothing of the command's group runs, whether it
\* finished, timed out or left descendants behind ("so descendants cannot outlive
\* a successful leader"), and a result that is not a time-out has the exit code
\* the command gave itself.
NothingOutlivesTheCall ==
  waiter = "returned" =>
    /\ alive \cap group = {}
    /\ ~outcome.timed => outcome.ended \in {"itself", "never ran"}

=============================================================================
