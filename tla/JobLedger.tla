------------------------------ MODULE JobLedger ------------------------------
(***************************************************************************)
(* The fleet job ledger, data/jobs.jsonl (jobs.py).                        *)
(*                                                                         *)
(* The file is an append-only event log and a job's current state is the   *)
(* fold of its events, the last event winning field by field.  The log has *)
(* no lock: every command reads the whole log, folds it, decides, and then *)
(* appends, so what a command decided on may be out of date by the time    *)
(* its events land.  One event is one buffered line, appended in one step. *)
(*                                                                         *)
(* Two kinds of process use the ledger.  A worker runner (run_job of the   *)
(* dispatcher, or a session that drains the queue by hand with the same    *)
(* commands) claims one queued job, works, and reports how it ended.  A    *)
(* syncer (jobs sync) derives the wanted jobs from the workspace and       *)
(* opens those the ledger does not already hold.                           *)
(***************************************************************************)
EXTENDS Integers, FiniteSets, Functions

CONSTANTS
  Job,             \* deterministic ids <type>:<target>[:<qualifier>]
  NoJob,           \* the job of a runner that has none
  TypeOf,          \* the type of each job
  Rank,            \* launch-priority order of the jobs, smaller first
  PlanDay,         \* the day a fleet_plan id is for; 0 for every other job
  Gen,             \* evidence hashes
  NoGen,           \* the workspace does not call for the job
  PlanGen,         \* the hash of a plan's evidence, fixed by its date
  Worker,
  Syncer,
  MaxAttempts,     \* policy fleet.max_attempts
  MaxOpenPerType,  \* policy fleet.max_open_per_type
  MaxNewPerSync,   \* policy fleet.max_new_per_sync
  LastDay,         \* bound: days modelled
  MaxCharges       \* bound: failures charged in all

ASSUME JobLedgerAssumption ==
  /\ NoJob \notin Job
  /\ DOMAIN TypeOf = Job
  /\ Rank \in [Job -> Nat]
  /\ PlanDay \in [Job -> Nat]
  /\ NoGen \notin Gen
  /\ PlanGen \in Gen
  /\ MaxAttempts \in Nat \ {0}
  /\ MaxOpenPerType \in Nat
  /\ MaxNewPerSync \in Nat
  /\ LastDay \in Nat \ {0}
  /\ MaxCharges \in Nat

VARIABLES
  ledger,    \* the fold of data/jobs.jsonl
  evidence,  \* the evidence the workspace holds for each job now
  today,     \* the UTC date
  worker,    \* each worker runner's place in run_job
  sync,      \* the events each syncer has decided on and not yet appended
  lost,      \* history: jobs whose last state event was written by a process
             \* that died, or lost a command, before it wrote the next one
  charged    \* history: failures of each job that were meant to count

ledgerVars == <<ledger, evidence, today, worker, sync, lost, charged>>

-----------------------------------------------------------------------------
(* Events and the fold *)

Open == {"queued", "running"}

\* Mutant: a parked job counts as neither open nor settled.
SettledButParked == {"done", "dropped"}

\* What a sync leaves alone while the evidence is the same.
Settled == {"done", "parked", "dropped"}

State == {"absent", "queued", "running", "done", "failed", "parked", "dropped"}

Hash == Gen \cup {NoGen}

Entry == [state : State, attempt : Nat, gen : Hash]

Absent == [state |-> "absent", attempt |-> 0, gen |-> NoGen]

\* The event a sync writes for a job it opens.
Queued(g) == [state |-> "queued", attempt |-> 1, gen |-> g]

\* Append one event about job j: the fields e carries win over the folded
\* ones, and the ledger's last word on j is no longer a dead process's.
Append(j, e) ==
  /\ ledger' = [ledger EXCEPT ![j] = e]
  /\ lost' = lost \ {j}

\* A transition event: only the state field.
To(j, s) == Append(j, [ledger[j] EXCEPT !.state = s])

-----------------------------------------------------------------------------
(* Worker runner: run_job, _classify_and_update, jobs_update *)

Outcome == {"done", "parked", "failed", "infra"}

Idle == [pc |-> "idle", job |-> NoJob, attempt |-> 0, outcome |-> "none"]

\* get_job, and the early return when the job is not queued.
Check(w, j) ==
  /\ worker[w].pc = "idle"
  /\ ledger[j].state = "queued"
  /\ worker' = [worker EXCEPT ![w] =
                  [Idle EXCEPT !.pc = "checked", !.job = j]]
  /\ UNCHANGED <<ledger, evidence, today, sync, lost, charged>>

\* The job's playbook is missing: return, the job stays queued.
Refuse(w) ==
  /\ worker[w].pc = "checked"
  /\ worker' = [worker EXCEPT ![w] = Idle]
  /\ UNCHANGED <<ledger, evidence, today, sync, lost, charged>>

\* jobs update --state running.  Nothing compares the state again, and the
\* answer is ignored: the worker starts even when the command had no effect.
Claim(w) ==
  /\ worker[w].pc = "checked"
  /\ \/ To(worker[w].job, "running")
     \/ UNCHANGED <<ledger, lost>>
  /\ worker' = [worker EXCEPT ![w].pc = "claimed"]
  /\ UNCHANGED <<evidence, today, sync, charged>>

\* The worker process ended and was classified; jobs_update folds the ledger
\* and keeps the attempt it read.
Judge(w, o) ==
  /\ worker[w].pc = "claimed"
  /\ o = "failed" => FoldFunction(+, 0, charged) < MaxCharges
  /\ worker' = [worker EXCEPT ![w] =
                  [@ EXCEPT !.pc = "judged",
                            !.outcome = o,
                            !.attempt = ledger[worker[w].job].attempt]]
  /\ UNCHANGED <<ledger, evidence, today, sync, lost, charged>>

\* First append of jobs_update.  done and parked end the call there.
Report(w) ==
  LET o == worker[w].outcome
      j == worker[w].job
  IN /\ worker[w].pc = "judged"
     /\ \/ /\ o \in {"done", "parked"}
           /\ To(j, o)
           /\ worker' = [worker EXCEPT ![w] = Idle]
        \/ /\ o \in {"failed", "infra"}
           /\ To(j, "failed")
           /\ worker' = [worker EXCEPT ![w].pc = "followup"]
     /\ charged' = IF o = "failed" THEN [charged EXCEPT ![j] = @ + 1]
                                   ELSE charged
     /\ UNCHANGED <<evidence, today, sync>>

\* Mutant: an infra failure consumes an attempt.
InfraConsumes(e, o, read) ==
  IF read < MaxAttempts THEN [e EXCEPT !.state = "queued", !.attempt = read + 1]
                        ELSE [e EXCEPT !.state = "parked"]

\* Mutant: a job out of attempts stays failed.
NeverParks(e, o, read) ==
  IF o = "infra" THEN [e EXCEPT !.state = "queued", !.attempt = read]
  ELSE IF read < MaxAttempts
  THEN [e EXCEPT !.state = "queued", !.attempt = read + 1]
  ELSE e

\* The entry after the second append of a failed update: an infra failure
\* keeps the attempt, any other takes the next one or parks the job.
AfterFailure(e, o, read) ==
  IF o = "infra"            THEN [e EXCEPT !.state = "queued", !.attempt = read]
  ELSE IF read < MaxAttempts
                            THEN [e EXCEPT !.state = "queued", !.attempt = read + 1]
                            ELSE [e EXCEPT !.state = "parked"]

FollowUp(w) ==
  LET j == worker[w].job
  IN /\ worker[w].pc = "followup"
     /\ Append(j, AfterFailure(ledger[j], worker[w].outcome, worker[w].attempt))
     /\ worker' = [worker EXCEPT ![w] = Idle]
     /\ UNCHANGED <<evidence, today, sync, charged>>

\* The runner dies or raises, or a reporting command times out or has no
\* effect.  A worker that claimed its job leaves it as it is.
Abandon(w) ==
  /\ worker[w].pc # "idle"
  /\ lost' = IF worker[w].pc = "checked" THEN lost ELSE lost \cup {worker[w].job}
  /\ worker' = [worker EXCEPT ![w] = Idle]
  /\ UNCHANGED <<ledger, evidence, today, sync, charged>>

-----------------------------------------------------------------------------
(* jobs sync *)

\* A syncer's events still to be appended; Absent where there is none.
NoSync == [j \in Job |-> Absent]

Before(S, j) == {k \in S : Rank[k] < Rank[j]}

OfType(S, j) == {k \in S : TypeOf[k] = TypeOf[j]}

\* Open plans of another day.
Stale == {j \in Job : PlanDay[j] \notin {0, today} /\ ledger[j].state \in Open}

\* The wanted jobs the ledger neither holds open nor has settled for this
\* very evidence.
Reopenable ==
  {j \in Job : /\ evidence[j] # NoGen
               /\ ledger[j].state \notin Open
               /\ ~(ledger[j].state \in Settled /\ ledger[j].gen = evidence[j])}

\* What one sync opens: in priority order, as many of a type as its open
\* jobs leave room for, and no more than MaxNewPerSync in all.
Admitted ==
  LET open == {j \in Job : ledger[j].state \in Open} \ Stale
      fits == {j \in Reopenable :
                 Cardinality(OfType(open, j))
                 + Cardinality(OfType(Before(Reopenable, j), j)) < MaxOpenPerType}
  IN {j \in fits : Cardinality(Before(fits, j)) < MaxNewPerSync}

\* The events of one sync, all decided on one reading of the ledger and of
\* the workspace: stale plans are dropped, admitted jobs queued.  (The scan of
\* the workspace comes after the ledger is read; as nothing in between depends
\* on what the scan finds, the two are one step here.)
Decision ==
  [j \in Job |-> IF j \in Stale         THEN [ledger[j] EXCEPT !.state = "dropped"]
                 ELSE IF j \in Admitted THEN Queued(evidence[j])
                                        ELSE Absent]

SyncRead(s) ==
  /\ sync[s] = NoSync
  /\ sync' = [sync EXCEPT ![s] = Decision]
  /\ UNCHANGED <<ledger, evidence, today, worker, lost, charged>>

\* Append the events one by one, in priority order.
SyncAppend(s, j) ==
  /\ sync[s][j] # Absent
  /\ Before({k \in Job : sync[s][k] # Absent}, j) = {}
  /\ Append(j, sync[s][j])
  /\ sync' = [sync EXCEPT ![s][j] = Absent]
  /\ UNCHANGED <<evidence, today, worker, charged>>

\* The command is interrupted: what it has not appended is not appended.
SyncCut(s) ==
  /\ sync[s] # NoSync
  /\ sync' = [sync EXCEPT ![s] = NoSync]
  /\ UNCHANGED <<ledger, evidence, today, worker, lost, charged>>

-----------------------------------------------------------------------------
(* The workspace and the calendar *)

\* Campaigns, builds and workers change what a scan of the workspace finds.
EvidenceChanges(j) ==
  /\ PlanDay[j] = 0
  /\ \E g \in Hash \ {evidence[j]} : evidence' = [evidence EXCEPT ![j] = g]
  /\ UNCHANGED <<ledger, today, worker, sync, lost, charged>>

\* A day calls for its own plan and for no other.
PlanEvidence(day, other) ==
  [j \in Job |-> IF PlanDay[j] = 0 THEN other[j]
                 ELSE IF PlanDay[j] = day THEN PlanGen ELSE NoGen]

Midnight ==
  /\ today < LastDay
  /\ today' = today + 1
  /\ evidence' = PlanEvidence(today + 1, evidence)
  /\ UNCHANGED <<ledger, worker, sync, lost, charged>>

-----------------------------------------------------------------------------
LedgerInit ==
  /\ ledger = [j \in Job |-> Absent]
  /\ evidence \in {PlanEvidence(1, e) : e \in [Job -> Hash]}
  /\ today = 1
  /\ worker = [w \in Worker |-> Idle]
  /\ sync = [s \in Syncer |-> NoSync]
  /\ lost = {}
  /\ charged = [j \in Job |-> 0]

WorkerNext(w) ==
  \/ \E j \in Job : Check(w, j)
  \/ Refuse(w)
  \/ Claim(w)
  \/ \E o \in Outcome : Judge(w, o)
  \/ Report(w)
  \/ FollowUp(w)
  \/ Abandon(w)

SyncNext(s) ==
  \/ SyncRead(s)
  \/ \E j \in Job : SyncAppend(s, j)
  \/ SyncCut(s)

LedgerNext ==
  \/ \E w \in Worker : WorkerNext(w)
  \/ \E s \in Syncer : SyncNext(s)
  \/ \E j \in Job : EvidenceChanges(j)
  \/ Midnight

LedgerSpec == LedgerInit /\ [][LedgerNext]_ledgerVars

-----------------------------------------------------------------------------
(* Properties *)

RunnerPc == {"idle", "checked", "claimed", "judged", "followup"}

RunnerState ==
  [pc : RunnerPc, job : Job \cup {NoJob}, attempt : Nat, outcome : Outcome \cup {"none"}]

\* Types; a busy runner has a job.
LedgerTypeOK ==
  /\ ledger \in [Job -> Entry]
  /\ evidence \in [Job -> Hash]
  /\ today \in 1..LastDay
  /\ worker \in [Worker -> RunnerState]
  /\ \A w \in Worker : worker[w].pc # "idle" => worker[w].job \in Job
  /\ sync \in [Syncer -> [Job -> Entry]]
  /\ lost \subseteq Job
  /\ charged \in [Job -> Nat]

\* A job never sticks in a transient state unless a process died over it.
\* The ledger says "running" only while a runner that claimed the job has yet
\* to report, and "failed" only between the two appends of a failed update;
\* otherwise the process that wrote it died or lost its command.  This holds
\* with any number of runners racing for one job and any number of syncs.
StuckMeansAbandoned ==
  \A j \in Job \ lost :
    /\ ledger[j].state = "running" =>
         \E w \in Worker : worker[w].job = j /\ worker[w].pc \in {"claimed", "judged"}
    /\ ledger[j].state = "failed" =>
         \E w \in Worker : worker[w].job = j /\ worker[w].pc = "followup"

\* "infra failures never consume the attempt": the attempt recorded for a
\* job is never more than one past the failures that were meant to count,
\* whatever order stale reads and late appends of racing runners come in.
OnlyFailuresConsumeAttempts ==
  \A j \in Job : ledger[j].attempt <= charged[j] + 1

\* The attempt of a job stays within the policy, in the ledger and in every
\* update still to be written, so a failure always finds it parked or due
\* for one of its MaxAttempts runs.
AttemptsWithinPolicy ==
  /\ \A j \in Job : ledger[j].attempt <= MaxAttempts
  /\ \A w \in Worker : worker[w].attempt <= MaxAttempts

\* "a done or parked id reopens only when the underlying evidence actually
\* changes" (jobs.py, module docstring).
ReopensOnlyOnNewEvidence ==
  [][\A j \in Job :
       /\ ledger[j].state \in {"done", "parked"}
       /\ ledger'[j].state \in Open
       => ledger'[j].gen # ledger[j].gen]_ledgerVars

=============================================================================
