--------------------------- MODULE FleetDispatcher ---------------------------
(***************************************************************************)
(* The fleet dispatcher (tools/dispatcher): one process that drains the    *)
(* job ledger in waves.                                                    *)
(*                                                                         *)
(* Each wave it reads the queue and the spend ledger, picks the jobs that  *)
(* fit the worker, build and budget limits, runs one thread per job and    *)
(* waits for all of them, then syncs the ledger.  A thread is a worker     *)
(* runner of JobLedger and a spender of SpendLedger at once; the dispatch  *)
(* loop is the syncer.  Threads are named by the job they run.             *)
(***************************************************************************)
EXTENDS JobLedger, SpendLedger

CONSTANTS
  BuildHeavy,    \* the jobs of a build-heavy type
  MaxUsd,        \* budget.max_usd of each job
  DailyCap,      \* policy fleet.daily_usd_cap
  MaxWorkers,    \* min(--workers, policy fleet.max_workers)
  MaxBuild,      \* policy fleet.max_build_workers
  MaxWaves,      \* max_waves of dispatch
  MaxFaults,     \* bound: crashes, command timeouts, results without a cost
  Main           \* the dispatch loop, as a syncer

ASSUME FleetAssumption ==
  /\ Worker = Job
  /\ Spender = Job
  /\ Syncer = {Main}
  /\ IsFiniteSet(Job)
  /\ \A j, k \in Job : Rank[j] = Rank[k] => j = k
  /\ BuildHeavy \subseteq Job
  /\ MaxUsd \in [Job -> Nat]
  /\ DailyCap \in Nat
  /\ MaxWorkers \in Nat \ {0}
  /\ MaxBuild \in Nat \ {0}
  /\ MaxWaves \in Nat \ {0}
  /\ MaxFaults \in Nat
  /\ Bill \subseteq [day : 1..LastDay, job : Job, run : Nat]

VARIABLES
  phase,   \* place of the dispatch loop: "off", "select", "wave", "sync"
  wave,    \* jobs submitted to the pool
  begun,   \* jobs of the wave whose thread has started
  left,    \* waves this dispatch may still run
  exited,  \* how the worker process of each job ended, until it is judged
  faults   \* bound: faults so far

loopVars == <<phase, wave, begun, left, faults>>

fleetVars == <<ledgerVars, spendVars, loopVars, exited>>

-----------------------------------------------------------------------------
(* Choosing a wave: governor.select_wave *)

\* The sum of the costs of the elements of S, counted dollar by dollar.
Dollars(S, cost) == UNION {{x} \X (1..cost[x]) : x \in S}

Total(S, cost) == Cardinality(Dollars(S, cost))

Usd(bills) == Total(bills, [b \in Bill |-> MaxUsd[b.job]])

OnDay(bills, day) == {b \in bills : b.day = day}

\* spend_today: an unreadable ledger shows nothing spent.
SpentToday == Usd(OnDay(Readable(spendFile), today))

QueuedJobs == {j \in Job : ledger[j].state = "queued"}

IsPlan(j) == PlanDay[j] # 0

First(S) == {j \in S : Before(S, j) = {}}

\* One row of the queue: taken if the rows taken before it leave a worker, the
\* budget and, for a build, a build slot; otherwise passed over.
Fits(j, taken, budget) ==
  /\ Cardinality(taken) < MaxWorkers
  /\ Total(taken, MaxUsd) + MaxUsd[j] <= budget
  /\ j \in BuildHeavy => Cardinality(taken \cap BuildHeavy) < MaxBuild

\* The rows of the queue in priority order: the one set that takes a row just
\* if it fits after those before it.
Picked(queue, budget) ==
  {jobs \in SUBSET queue : \A j \in queue : j \in jobs <=> Fits(j, Before(jobs, j), budget)}

\* Mutant: a day that has used up its cap gets another wave.
SelectionAtCap ==
  LET plans == {j \in QueuedJobs : IsPlan(j)}
  IN IF SpentToday > DailyCap THEN {}
     ELSE IF plans # {}       THEN {{j} : j \in First(plans)}
     ELSE Picked(QueuedJobs, DailyCap - SpentToday)

\* The wave, as a set of one set.  A plan runs alone, and its own budget is not
\* held against the cap.
Selection ==
  LET plans == {j \in QueuedJobs : IsPlan(j)}
  IN IF SpentToday >= DailyCap THEN {}
     ELSE IF plans # {}        THEN {{j} : j \in First(plans)}
     ELSE Picked(QueuedJobs, DailyCap - SpentToday)

\* dispatch --once runs a single wave.
Start ==
  /\ phase = "off"
  /\ sync[Main] = NoSync
  /\ phase' = "select"
  /\ left' \in {1, MaxWaves}
  /\ UNCHANGED <<ledgerVars, spendVars, exited, wave, begun, faults>>

\* Mutant: the number of waves is not bounded.
SelectWaveForever ==
  /\ phase = "select"
  /\ left > 0
  /\ phase' = "wave"
  /\ wave' \in Selection \ {{}}
  /\ begun' = {}
  /\ UNCHANGED <<ledgerVars, spendVars, exited, faults, left>>

SelectWave ==
  /\ phase = "select"
  /\ left > 0
  /\ phase' = "wave"
  /\ wave' \in Selection \ {{}}
  /\ begun' = {}
  /\ left' = left - 1
  /\ UNCHANGED <<ledgerVars, spendVars, exited, faults>>

\* No job fits, fleet.enabled was switched off, or the waves are used up.
Stop ==
  /\ phase = "select"
  /\ phase' = "off"
  /\ left' = 0
  /\ UNCHANGED <<ledgerVars, spendVars, exited, wave, begun, faults>>

-----------------------------------------------------------------------------
(* A thread: runner.run_job *)

Thread(j) == phase = "wave" /\ j \in begun

ThreadChecks(j) ==
  /\ phase = "wave"
  /\ j \in wave \ begun
  /\ begun' = begun \cup {j}
  /\ \/ Check(j, j)
     \/ ledger[j].state # "queued" /\ UNCHANGED ledgerVars
  /\ UNCHANGED <<spendVars, exited, phase, wave, left, faults>>

ThreadRefuses(j) == Thread(j) /\ Refuse(j) /\ UNCHANGED <<spendVars, loopVars, exited>>

ThreadClaims(j) == Thread(j) /\ Claim(j) /\ UNCHANGED <<spendVars, loopVars, exited>>

\* The worker process ends, at the latest when it is killed after its wall
\* time.  Without a result event, or without a cost in it (counted among the
\* faults to bound it), nothing is recorded.
WorkerExits(j) ==
  /\ Thread(j)
  /\ worker[j].pc = "claimed"
  /\ exited[j] = "no"
  /\ \/ /\ exited' = [exited EXCEPT ![j] = "noresult"]
        /\ UNCHANGED <<spendVars, faults>>
     \/ /\ exited' = [exited EXCEPT ![j] = "result"]
        /\ \E b \in Bill : b.job = j /\ b.day = today /\ RecordRead(j, b)
        /\ UNCHANGED faults
     \/ /\ exited' = [exited EXCEPT ![j] = "result"]
        /\ faults < MaxFaults
        /\ faults' = faults + 1
        /\ UNCHANGED spendVars
  /\ UNCHANGED <<ledgerVars, phase, wave, begun, left>>

ThreadRecords(j) ==
  /\ Thread(j)
  /\ RecordOpen(j) \/ RecordWrite(j) \/ RecordReplace(j)
  /\ UNCHANGED <<ledgerVars, loopVars, exited>>

\* _record_spend raises: run_job ends there, and the job is never reported.
RecordingFails(j) ==
  /\ Thread(j)
  /\ RecordRaises(j)
  /\ Abandon(j)
  /\ exited' = [exited EXCEPT ![j] = "no"]
  /\ UNCHANGED loopVars

\* _classify_and_update, after the cost is recorded.  A worker that left no
\* result is an infra failure; one that did may be any outcome.
ThreadJudges(j, o) ==
  /\ Thread(j)
  /\ ~Recording(j)
  /\ \/ exited[j] = "noresult" /\ o = "infra"
     \/ exited[j] = "result"
  /\ Judge(j, o)
  /\ exited' = [exited EXCEPT ![j] = "no"]
  /\ UNCHANGED <<spendVars, loopVars>>

ThreadReports(j) ==
  /\ Thread(j)
  /\ Report(j) \/ FollowUp(j)
  /\ UNCHANGED <<spendVars, loopVars, exited>>

\* A ledger command of the thread times out and run_job raises.
ThreadRaises(j) ==
  /\ faults < MaxFaults
  /\ faults' = faults + 1
  /\ Thread(j)
  /\ ~Recording(j)
  /\ Abandon(j)
  /\ exited' = [exited EXCEPT ![j] = "no"]
  /\ UNCHANGED <<spendVars, phase, wave, begun, left>>

-----------------------------------------------------------------------------
(* The dispatch loop: governor.dispatch *)

\* Every thread has returned or raised: sync the ledger.
JoinWave ==
  /\ phase = "wave"
  /\ begun = wave
  /\ \A j \in Job : worker[j] = Idle
  /\ SyncRead(Main)
  /\ phase' = "sync"
  /\ wave' = {}
  /\ begun' = {}
  /\ UNCHANGED <<spendVars, exited, left, faults>>

LoopSyncs ==
  /\ phase = "sync"
  /\ \E j \in Job : SyncAppend(Main, j)
  /\ UNCHANGED <<spendVars, loopVars, exited>>

NextWave ==
  /\ phase = "sync"
  /\ sync[Main] = NoSync
  /\ phase' = "select"
  /\ UNCHANGED <<ledgerVars, spendVars, exited, wave, begun, left, faults>>

\* The dispatcher is killed with all its threads.
Crash ==
  /\ faults < MaxFaults
  /\ faults' = faults + 1
  /\ phase # "off"
  /\ phase' = "off"
  /\ left' = 0
  /\ lost' = lost \cup {j \in Job : worker[j].pc \in {"claimed", "judged", "followup"}}
  /\ worker' = [j \in Job |-> Idle]
  /\ sync' = [s \in Syncer |-> NoSync]
  /\ spender' = [j \in Job |-> AtRest]
  /\ overlapped' = (overlapped \/ \E j \in Job : Recording(j))
  /\ wave' = {}
  /\ begun' = {}
  /\ exited' = [j \in Job |-> "no"]
  /\ UNCHANGED <<ledger, evidence, today, charged, spendFile, tmpFile, issued>>

\* jobs sync run by the session while no dispatcher runs.
SessionSyncs ==
  /\ phase = "off"
  /\ SyncRead(Main) \/ \E j \in Job : SyncAppend(Main, j)
  /\ UNCHANGED <<spendVars, loopVars, exited>>

World ==
  /\ Midnight \/ \E j \in Job : EvidenceChanges(j)
  /\ UNCHANGED <<spendVars, loopVars, exited>>

-----------------------------------------------------------------------------
Init ==
  /\ LedgerInit
  /\ SpendInit
  /\ phase = "off"
  /\ wave = {}
  /\ begun = {}
  /\ left = 0
  /\ exited = [j \in Job |-> "no"]
  /\ faults = 0

ThreadNext(j) ==
  \/ ThreadChecks(j)
  \/ ThreadRefuses(j)
  \/ ThreadClaims(j)
  \/ WorkerExits(j)
  \/ ThreadRecords(j)
  \/ RecordingFails(j)
  \/ \E o \in Outcome : ThreadJudges(j, o)
  \/ ThreadReports(j)

LoopNext == SelectWave \/ Stop \/ JoinWave \/ LoopSyncs \/ NextWave

Next ==
  \/ Start
  \/ LoopNext
  \/ \E j \in Job : ThreadNext(j) \/ ThreadRaises(j)
  \/ Crash
  \/ SessionSyncs
  \/ World

\* Threads of the pool are scheduled by the operating system, a worker is
\* killed after its wall time, and commands time out; nobody has to start a
\* dispatch.
Fairness ==
  /\ WF_fleetVars(LoopNext)
  /\ \A j \in Job : WF_fleetVars(ThreadNext(j))

Spec == Init /\ [][Next]_fleetVars /\ Fairness

-----------------------------------------------------------------------------
(* Properties *)

\* The daily brake: while recordings do not overlap, the costs of a day stay
\* within the cap, except that a plan, launched whenever anything is left of
\* the cap, may go over it by less than its own budget.
BrakeHolds ==
  ~overlapped =>
    \A day \in 1..LastDay :
      LET spent == Usd(OnDay(issued, day))
      IN spent <= DailyCap \/ \E j \in Job : IsPlan(j) /\ spent < DailyCap + MaxUsd[j]

\* "honoring every brake" (select_wave) read without the proviso above: what
\* a day's jobs other than plans cost stays within the cap.
DailyCapHonoured ==
  \A day \in 1..LastDay :
    Usd({b \in OnDay(issued, day) : ~IsPlan(b.job)}) <= DailyCap

\* One dispatcher, with no session beside it, keeps the promise JobLifecycle
\* states for every job, across waves, faults, crashes and restarts.
LifePhase ==
  [j \in Job |-> CASE ledger[j].state = "absent" -> "none"
                   [] ledger[j].state \in Open  -> "open"
                   [] OTHER                     -> ledger[j].state]

Life == INSTANCE JobLifecycle
          WITH phase <- LifePhase,
               tries <- [j \in Job |-> ledger[j].attempt],
               cause <- [j \in Job |-> ledger[j].gen]

KeepsLifecycle == Life!LifeSpec

\* Every dispatch comes to an end, whatever its workers do.
DispatchTerminates == phase # "off" ~> phase = "off"

=============================================================================
