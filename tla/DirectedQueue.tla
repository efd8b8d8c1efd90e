----------------------------- MODULE DirectedQueue -----------------------------
(***************************************************************************)
(* The directed-fuzzing queue of one target (directed.py): tasks that aim  *)
(* at one uncovered sink each, with a priority and a budget of rounds.     *)
(*                                                                         *)
(* Every command loads data/directed-queue.json, changes its copy and      *)
(* writes the whole file back; nothing keeps two commands apart.  The      *)
(* rounds of a campaign burn the budget of the active task and, when the   *)
(* target plateaus, reconcile the queue with the sinks still unreached     *)
(* (campaign_rounds.py, sink_status.py); sessions flag, complete, build    *)
(* and reconcile tasks meanwhile.                                          *)
(***************************************************************************)
EXTENDS Naturals, FiniteSets

CONSTANTS
  Sinks,        \* sinks of policy primitives, numbered in the order of their keys
  Sessions,     \* other processes that use the queue
  Loop,         \* the process of the campaign
  Floor, Frontier, Agent, Decay,  \* priorities and their decay
  Budget,       \* policy budget_rounds
  Cap,          \* policy max_tasks_per_target
  Rounds        \* bound: rounds of a campaign, numbered from 1 in each

ASSUME DirectedAssumption ==
  /\ Sinks \subseteq Nat /\ IsFiniteSet(Sinks)
  /\ Loop \notin Sessions
  /\ {Floor, Frontier, Agent, Decay, Cap} \subseteq Nat
  /\ {Budget, Rounds} \subseteq Nat \ {0}
  /\ Floor <= Frontier /\ Frontier <= Agent

VARIABLES
  task,     \* the queue file: the open task of each sink, or None
  sink,     \* "covered": reached or exploited in sink-status.json; else "gone":
            \* not in the inventory, or its candidate ruled dead; else "wanted"
  copy,     \* the copy of the queue each process is about to write, if any
  stale,    \* history: processes whose copy was loaded before another write
  round,    \* round of the campaign
  pc        \* where the campaign is in its round

directedVars == <<task, sink, copy, stale, round, pc>>

Procs == Sessions \cup {Loop}

-----------------------------------------------------------------------------
(* What a command does with the queue it loaded *)

None == [state |-> "none", prio |-> 0, used |-> 0, added |-> 0, source |-> "none"]

New(source, prio, r) ==
  [state |-> "queued", prio |-> prio, used |-> 0, added |-> r, source |-> source]

Open(q) == {s \in Sinks : q[s].state \in {"queued", "active"}}

\* Mutant: a task out of budget is queued again as it was.
RequeuedAsItWas(t, r) == [t EXCEPT !.state = "queued", !.used = 0]

\* Out of budget, a task is queued again, cheaper, as added in this round.
Requeued(t, r) ==
  [t EXCEPT !.state = "queued", !.used = 0, !.added = r,
            !.prio = IF @ >= Floor + Decay THEN @ - Decay ELSE Floor]

\* Mutant: what is not queued burns budget, closed tasks too.
BurnedUnlessQueued(q, r) ==
  [s \in Sinks |->
    IF q[s].state = "queued" THEN q[s]
    ELSE IF q[s].used + 1 < Budget THEN [q[s] EXCEPT !.used = @ + 1]
    ELSE Requeued(q[s], r)]

\* tick_budget, first half: the active task burns a round.
Burned(q, r) ==
  [s \in Sinks |->
    IF q[s].state # "active" THEN q[s]
    ELSE IF q[s].used + 1 < Budget THEN [q[s] EXCEPT !.used = @ + 1]
    ELSE Requeued(q[s], r)]

Precedes(q, s, t) ==
  \/ q[s].prio > q[t].prio
  \/ q[s].prio = q[t].prio /\ q[s].added < q[t].added
  \/ q[s].prio = q[t].prio /\ q[s].added = q[t].added /\ s < t

IsNext(q, s) ==
  /\ q[s].state = "queued"
  /\ \A t \in Sinks \ {s} : q[t].state = "queued" => Precedes(q, s, t)

Activated(q) ==
  [s \in Sinks |-> IF IsNext(q, s) THEN [q[s] EXCEPT !.state = "active"] ELSE q[s]]

\* Mutant: promotes without asking whether a task is active.
PromotedAnyhow(q) == Activated(q)

\* tick_budget, second half: with no task active the first queued one becomes so.
Promoted(q) ==
  IF \E s \in Sinks : q[s].state = "active" THEN q ELSE Activated(q)

Ticked(q, r) == Promoted(Burned(q, r))

\* sync_queue, first half: tasks are closed whose sink was reached or has
\* vanished, or whose candidate is dead.
Retired(q) ==
  [s \in Sinks |-> IF sink[s] = "wanted" THEN q[s] ELSE None]

\* Mutant: room for one more than the cap.
EnqueuedOneMore(q, r) ==
  LET wanted == {s \in Sinks \ Open(q) : sink[s] = "wanted"} IN
  [s \in Sinks |->
    IF s \in wanted /\ Cardinality(Open(q) \cup {t \in wanted : t < s}) <= Cap
    THEN New("frontier", Frontier, r) ELSE q[s]]

\* sync_queue, second half: uncovered sinks are queued while there is room.
Enqueued(q, r) ==
  LET wanted == {s \in Sinks \ Open(q) : sink[s] = "wanted"} IN
  [s \in Sinks |->
    IF s \in wanted /\ Cardinality(Open(q) \cup {t \in wanted : t < s}) < Cap
    THEN New("frontier", Frontier, r) ELSE q[s]]

Synced(q, r) == Enqueued(Retired(q), r)

Raised(t) == [t EXCEPT !.source = "agent", !.prio = IF @ > Agent THEN @ ELSE Agent]

\* flag_task: an open task is raised, else there is a new one.
Flagged(q, s) ==
  [q EXCEPT ![s] = IF s \in Open(q) THEN Raised(q[s]) ELSE New("agent", Agent, 0)]

Completed(q, s) == [q EXCEPT ![s] = None]

-----------------------------------------------------------------------------
(* Loading and writing the file *)

Load(p, q, writes) ==
  /\ copy[p] = <<>>
  /\ copy' = IF writes THEN [copy EXCEPT ![p] = <<q>>] ELSE copy
  /\ stale' = stale \ {p}

LoadIfChanged(p, q) == Load(p, q, q # task)

Commit(p) ==
  /\ copy[p] # <<>>
  /\ task' = copy[p][1]
  /\ copy' = [copy EXCEPT ![p] = <<>>]
  /\ stale' = (stale \ {p}) \cup {o \in Procs \ {p} : copy[o] # <<>>}
  /\ UNCHANGED <<sink, round, pc>>

\* The process dies, or another one has renamed the temporary file they share.
Fails(p) ==
  /\ copy[p] # <<>>
  /\ copy' = [copy EXCEPT ![p] = <<>>]
  /\ stale' = stale \ {p}
  /\ UNCHANGED <<task, sink, round, pc>>

-----------------------------------------------------------------------------
(* Rounds *)

\* On a plateau the coverage of the corpus and the recorded crashes move sinks
\* up, never down; sinks beyond MAX_TRACKED_SINKS, or in a pass that fails, stay.
Measure ==
  /\ pc = "fuzz" /\ pc' = "sync"
  /\ \E more \in SUBSET Sinks :
       sink' = [s \in Sinks |-> IF s \in more THEN "covered" ELSE sink[s]]
  /\ UNCHANGED <<task, copy, stale, round>>

RoundSyncs ==
  /\ pc = "sync" /\ pc' = "tick"
  /\ LoadIfChanged(Loop, Synced(task, round))
  /\ UNCHANGED <<task, sink, round>>

\* A round without a plateau comes here straight from fuzzing.
RoundTicks ==
  /\ pc \in {"fuzz", "tick"} /\ pc' = "end"
  /\ LoadIfChanged(Loop, Ticked(task, round))
  /\ UNCHANGED <<task, sink, round>>

RoundEnds ==
  /\ pc = "end" /\ copy[Loop] = <<>>
  /\ round < Rounds
  /\ round' = round + 1 /\ pc' = "fuzz"
  /\ UNCHANGED <<task, sink, copy, stale>>

\* The campaign is over, or was killed, and the next one counts from 1 again.
NextCampaign ==
  /\ copy[Loop] = <<>>
  /\ round' = 1 /\ pc' = "fuzz"
  /\ UNCHANGED <<task, sink, copy, stale>>

-----------------------------------------------------------------------------
(* Sessions, and the rest of the workspace *)

\* directed_build adds its binary to the open task and writes; nothing here
\* depends on the binary.
SessionLoads(p) ==
  /\ \/ LoadIfChanged(p, Synced(task, 0))
     \/ \E s \in Sinks : \/ Load(p, Flagged(task, s), TRUE)
                         \/ LoadIfChanged(p, Completed(task, s))
                         \/ Load(p, task, s \in Open(task))
  /\ UNCHANGED <<task, sink, round, pc>>

\* A new scan of the sources, or a candidate ruled dead.
Rescan(s) ==
  /\ sink[s] # "covered"
  /\ sink' = [sink EXCEPT ![s] = IF @ = "gone" THEN "wanted" ELSE "gone"]
  /\ UNCHANGED <<task, copy, stale, round, pc>>

DirectedInit ==
  /\ task = [s \in Sinks |-> None]
  /\ sink = [s \in Sinks |-> "wanted"]
  /\ copy = [p \in Procs |-> <<>>] /\ stale = {}
  /\ round = 1 /\ pc = "fuzz"

DirectedNext ==
  \/ Measure \/ RoundSyncs \/ RoundTicks \/ RoundEnds \/ NextCampaign
  \/ \E p \in Procs : Commit(p) \/ Fails(p)
  \/ \E p \in Sessions : SessionLoads(p)
  \/ \E s \in Sinks : Rescan(s)

DirectedSpec == DirectedInit /\ [][DirectedNext]_directedVars

-----------------------------------------------------------------------------
(* Properties *)

\* Types of the variables; a task never has used its whole budget.
DirectedTypeOK ==
  /\ \A s \in Sinks :
       /\ task[s].state \in {"none", "queued", "active"}
       /\ task[s].prio \in 0..Agent
       /\ task[s].used \in 0..Budget - 1
       /\ task[s].added \in 0..Rounds
  /\ sink \in [Sinks -> {"wanted", "gone", "covered"}]
  /\ stale \subseteq Procs /\ round \in 1..Rounds

\* However whole-file writes overwrite each other, the target has one task to
\* aim at, not two (tick_budget promotes "if nothing is active").
OneActive ==
  \A s, t \in Sinks : task[s].state = "active" /\ task[t].state = "active" => s = t

\* The tasks the frontier opened stay within max_tasks_per_target, however
\* syncs, flags and completions overwrite each other.
FrontierWithinCap ==
  Cardinality({s \in Open(task) : task[s].source = "frontier"}) <= Cap

Writes(p) == copy[p] # <<>> /\ copy'[p] = <<>> /\ task' = copy[p][1]

\* s was active and has used up its budget, as q has it.
Exhausted(q, s) ==
  task[s].state = "active" /\ task[s].used + 1 >= Budget /\ q[s].used = 0

\* A tick leaves the target aimed at something as long as a task is open, and a
\* task that has used up its budget gives way ("rotating to the queue tail"): it
\* goes on at once only if what waits is cheaper even than its decayed priority,
\* or was queued in this round or in a later one of an earlier campaign.
RotatesAfterTick ==
  [][pc = "end" /\ Writes(Loop) /\ task' # task /\ Loop \notin stale
     => /\ Open(task') = {} \/ \E s \in Sinks : task'[s].state = "active"
        /\ \A s, t \in Sinks :
             Exhausted(task', s) /\ task'[s].state = "active" /\ task'[t].state = "queued"
             => task[t].prio < task'[s].prio \/ task[t].added >= round]_directedVars

\* A task that was closed comes back only as a new one of a flag or a sync, with
\* a budget and a priority of its own, unless a process writes a copy it loaded
\* before another one's write.
ClosedUnlessOverlapped ==
  [][\A s \in Sinks \ Open(task) :
       s \in Open(task')
       => \/ task'[s] = New("agent", Agent, 0)
          \/ \E r \in 0..Rounds : task'[s] = New("frontier", Frontier, r)
          \/ \E p \in stale : Writes(p)]_directedVars

=============================================================================
