----------------------------- MODULE PovPredicate -----------------------------
(***************************************************************************)
(* How pov_produce jobs of one target are judged (job_predicates.py).      *)
(*                                                                         *)
(* A worker that claimed such a job tries to turn its hypothesis into a    *)
(* finding the engine verifies, or to refute it.  It is told to run the    *)
(* predicate itself before it finishes; when it has exited, the dispatcher *)
(* runs the same predicate once more and that verdict decides the job.     *)
(* Every run of the predicate is an event of the job, and an event without *)
(* a time of its own is stamped with the current one, so the "ts" of the   *)
(* folded job is the time of the last event of any kind.                   *)
(***************************************************************************)
EXTENDS Naturals

CONSTANTS
  Hyp,           \* hypotheses of the target; each has its pov_produce job
  Campaign,      \* a finding no job was after
  MaxAttempts,   \* policy fleet.max_attempts
  LastTime       \* bound: clock readings

ASSUME PovAssumption ==
  /\ Campaign \notin Hyp
  /\ MaxAttempts \in Nat \ {0}
  /\ LastTime \in Nat

VARIABLES
  now,       \* the clock
  job,       \* the folded ledger entry of each job
  found,     \* when a verified finding was last recorded for each hypothesis of
             \* the target, and for none of them; 0 if never
  refuted,   \* hypotheses marked refuted with evidence
  exited,    \* jobs whose worker process has ended
  claimedAt  \* history: when the current or last attempt was claimed

povVars == <<now, job, found, refuted, exited, claimedAt>>

-----------------------------------------------------------------------------
(* Events and the predicate *)

\* What a finding can be about.
Origin == Hyp \cup {Campaign}

\* Time never runs back, and may stand still between two events.
Passing == now' \in {now, now + 1} /\ now' <= LastTime

\* An event that sets the fields of e and is stamped with the current time.
Event(h, e) == Passing /\ job' = [job EXCEPT ![h] = [e EXCEPT !.ts = now']]

\* Mutant: a finding counts whenever it was recorded.
PassesAnyFinding(h) == (\E what \in Origin : found[what] # 0) \/ h \in refuted

\* _pov_produce: any verified finding of the target not older than the job's
\* last event, or the hypothesis refuted.
Passes(h) == (\E what \in Origin : found[what] >= job[h].ts) \/ h \in refuted

-----------------------------------------------------------------------------
(* The job *)

Enqueue(h) ==
  /\ job[h].state = "none"
  /\ Event(h, [job[h] EXCEPT !.state = "queued"])
  /\ UNCHANGED <<found, refuted, exited, claimedAt>>

Claim(h) ==
  /\ job[h].state = "queued"
  /\ Event(h, [job[h] EXCEPT !.state = "running"])
  /\ exited' = exited \ {h}
  /\ claimedAt' = [claimedAt EXCEPT ![h] = now']
  /\ UNCHANGED <<found, refuted>>

\* The dispatcher's verdict once the worker has exited.  A failed job goes
\* back to the queue for its next attempt, or is parked after the last.
Judge(h) ==
  /\ job[h].state = "running"
  /\ h \in exited
  /\ \/ /\ Passes(h)
        /\ Event(h, [job[h] EXCEPT !.state = "done"])
     \/ /\ ~Passes(h)
        /\ job[h].attempt < MaxAttempts
        /\ Event(h, [job[h] EXCEPT !.state = "queued", !.attempt = @ + 1])
     \/ /\ ~Passes(h)
        /\ job[h].attempt = MaxAttempts
        /\ Event(h, [job[h] EXCEPT !.state = "parked"])
  /\ UNCHANGED <<found, refuted, exited, claimedAt>>

\* The worker never ran, or said it is blocked: no predicate is evaluated.
Unjudged(h) ==
  /\ job[h].state = "running"
  /\ h \in exited
  /\ \E s \in {"queued", "parked"} : Event(h, [job[h] EXCEPT !.state = s])
  /\ UNCHANGED <<found, refuted, exited, claimedAt>>

-----------------------------------------------------------------------------
(* The worker, and the campaign beside it *)

AtWork(h) == job[h].state = "running" /\ h \notin exited

\* finding-grade --record-finding by a worker, or a crash the campaign takes in.
Record(what) ==
  /\ what \in {Campaign} \cup {h \in Hyp : AtWork(h)}
  /\ Passing
  /\ found' = [found EXCEPT ![what] = now']
  /\ UNCHANGED <<job, refuted, exited, claimedAt>>

Refute(h) ==
  /\ AtWork(h)
  /\ refuted' = refuted \cup {h}
  /\ UNCHANGED <<now, job, found, exited, claimedAt>>

\* The worker runs the predicate itself.  It may go on after a failure; after
\* a pass it is done.
SelfCheck(h) ==
  /\ AtWork(h)
  /\ Event(h, job[h])
  /\ exited' = IF Passes(h) THEN exited \cup {h} ELSE exited
  /\ UNCHANGED <<found, refuted, claimedAt>>

\* The worker ends, or is ended, without checking.
Exit(h) ==
  /\ AtWork(h)
  /\ exited' = exited \cup {h}
  /\ UNCHANGED <<now, job, found, refuted, claimedAt>>

-----------------------------------------------------------------------------
PovInit ==
  /\ now = 1
  /\ job = [h \in Hyp |-> [state |-> "none", attempt |-> 1, ts |-> 0]]
  /\ found = [what \in Origin |-> 0]
  /\ refuted = {}
  /\ exited = {}
  /\ claimedAt = [h \in Hyp |-> 0]

PovNext ==
  \/ \E h \in Hyp :
       \/ Enqueue(h) \/ Claim(h) \/ Judge(h) \/ Unjudged(h)
       \/ Refute(h) \/ SelfCheck(h) \/ Exit(h)
  \/ \E what \in Origin : Record(what)

PovSpec == PovInit /\ [][PovNext]_povVars

-----------------------------------------------------------------------------
(* Properties *)

\* A job done without a refutation is credited with a finding recorded since
\* the attempt that ended it was claimed, never with one that was there
\* before, however often jobs of the target are retried and whoever records.
CreditIsFresh ==
  \A h \in Hyp :
    job[h].state = "done" => h \in refuted \/ \E what \in Origin : found[what] >= claimedAt[h]

\* "PASS = an engine-verified finding recorded for this target after the job
\* was queued": an attempt in which the worker got its own finding verified is
\* not judged a failure, and the job is not run again or parked for it.
OwnFindingIsCredited ==
  [][\A h \in Hyp :
       Judge(h) /\ found[h] > claimedAt[h]
       => job'[h].state = "done"]_povVars

=============================================================================
