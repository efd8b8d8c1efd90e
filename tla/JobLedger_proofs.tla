--------------------------- MODULE JobLedger_proofs ---------------------------
(***************************************************************************)
(* Proofs about JobLedger, for any jobs, runners, syncers and policy.      *)
(***************************************************************************)
EXTENDS JobLedger, TLAPS

-----------------------------------------------------------------------------
(* Types *)

\* An entry with another state is an entry.
LEMMA EntryState ==
  ASSUME NEW e \in Entry, NEW s \in State
  PROVE  [e EXCEPT !.state = s] \in Entry
  BY DEF Entry

LEMMA AbsentIsEntry == Absent \in Entry
  BY DEF Absent, Entry, State, Hash

\* What follows a failure is an entry that is no longer failed or running.
LEMMA AfterFailureEntry ==
  ASSUME NEW e \in Entry, NEW o, NEW read \in Nat
  PROVE  /\ AfterFailure(e, o, read) \in Entry
         /\ AfterFailure(e, o, read).state \in {"queued", "parked"}
<1>1. CASE o = "infra"
  <2>1. AfterFailure(e, o, read) = [e EXCEPT !.state = "queued", !.attempt = read]
    BY <1>1 DEF AfterFailure
  <2> QED BY <2>1 DEF Entry, State
<1>2. CASE o # "infra" /\ read < MaxAttempts
  <2>1. AfterFailure(e, o, read) = [e EXCEPT !.state = "queued", !.attempt = read + 1]
    BY <1>2 DEF AfterFailure
  <2>2. read + 1 \in Nat
    OBVIOUS
  <2> QED BY <2>1, <2>2 DEF Entry, State
<1>3. CASE o # "infra" /\ ~(read < MaxAttempts)
  <2>1. AfterFailure(e, o, read) = [e EXCEPT !.state = "parked"]
    BY <1>3 DEF AfterFailure
  <2> QED BY <2>1 DEF Entry, State
<1> QED BY <1>1, <1>2, <1>3

LEMMA RunnerMoves ==
  ASSUME NEW r \in RunnerState, NEW p \in RunnerPc
  PROVE  [r EXCEPT !.pc = p] \in RunnerState
  BY DEF RunnerState

LEMMA IdleIsRunner == Idle \in RunnerState
  BY DEF Idle, RunnerState, RunnerPc, Outcome

\* Every event of a sync is an entry.
LEMMA DecisionType ==
  ASSUME LedgerTypeOK
  PROVE  Decision \in [Job -> Entry]
<1> SUFFICES ASSUME NEW j \in Job
             PROVE  (IF j \in Stale         THEN [ledger[j] EXCEPT !.state = "dropped"]
                     ELSE IF j \in Admitted THEN Queued(evidence[j])
                                            ELSE Absent) \in Entry
  BY DEF Decision
<1>1. [ledger[j] EXCEPT !.state = "dropped"] \in Entry
  BY EntryState DEF LedgerTypeOK, State
<1>2. Queued(evidence[j]) \in Entry
  BY DEF LedgerTypeOK, Queued, Entry, State
<1> QED BY <1>1, <1>2, AbsentIsEntry

\* An appended entry keeps the types of the ledger and of the history.
LEMMA AppendType ==
  ASSUME LedgerTypeOK, NEW j \in Job, NEW e \in Entry, Append(j, e)
  PROVE  ledger' \in [Job -> Entry] /\ lost' \subseteq Job
  BY DEF LedgerTypeOK, Append

LEMMA ToType ==
  ASSUME LedgerTypeOK, NEW j \in Job, NEW s \in State, To(j, s)
  PROVE  ledger' \in [Job -> Entry] /\ lost' \subseteq Job
  BY AppendType, EntryState DEF To, LedgerTypeOK

LEMMA TypeInit == LedgerInit => LedgerTypeOK
<1> SUFFICES ASSUME LedgerInit PROVE LedgerTypeOK
  OBVIOUS
<1>1. evidence \in [Job -> Hash]
  BY JobLedgerAssumption DEF LedgerInit, PlanEvidence, Hash
<1>2. today \in 1..LastDay
  BY JobLedgerAssumption DEF LedgerInit
<1> QED
  BY <1>1, <1>2, AbsentIsEntry, IdleIsRunner DEF LedgerInit, LedgerTypeOK, NoSync, Idle

LEMMA TypeStep == LedgerTypeOK /\ [LedgerNext]_ledgerVars => LedgerTypeOK'
<1> SUFFICES ASSUME LedgerTypeOK, [LedgerNext]_ledgerVars
             PROVE  LedgerTypeOK'
  OBVIOUS
<1>1. ASSUME NEW w \in Worker, NEW j \in Job, Check(w, j)
      PROVE  LedgerTypeOK'
  BY <1>1, IdleIsRunner DEF Check, LedgerTypeOK, RunnerState, RunnerPc, Idle
<1>2. ASSUME NEW w \in Worker, Refuse(w)
      PROVE  LedgerTypeOK'
  BY <1>2, IdleIsRunner DEF Refuse, LedgerTypeOK, Idle
<1>3. ASSUME NEW w \in Worker, Claim(w)
      PROVE  LedgerTypeOK'
  <2>1. worker[w].job \in Job
    BY <1>3 DEF Claim, LedgerTypeOK
  <2>2. ledger' \in [Job -> Entry] /\ lost' \subseteq Job
    BY <1>3, <2>1, ToType DEF Claim, State, LedgerTypeOK
  <2>3. worker' \in [Worker -> RunnerState]
    BY <1>3, RunnerMoves DEF Claim, LedgerTypeOK, RunnerPc
  <2>4. \A v \in Worker : worker'[v].pc # "idle" => worker'[v].job \in Job
    BY <1>3, <2>1 DEF Claim, LedgerTypeOK, RunnerState
  <2> QED BY <1>3, <2>2, <2>3, <2>4 DEF Claim, LedgerTypeOK
<1>4. ASSUME NEW w \in Worker, NEW o \in Outcome, Judge(w, o)
      PROVE  LedgerTypeOK'
  <2>1. worker[w].job \in Job /\ ledger[worker[w].job].attempt \in Nat
    BY <1>4 DEF Judge, LedgerTypeOK, Entry
  <2> DEFINE r == [worker[w] EXCEPT !.pc = "judged",
                                    !.outcome = o,
                                    !.attempt = ledger[worker[w].job].attempt]
  <2>2. r \in RunnerState /\ r.job \in Job
    BY <2>1 DEF LedgerTypeOK, RunnerState, RunnerPc
  <2>3. worker' = [worker EXCEPT ![w] = r]
    BY <1>4 DEF Judge
  <2> HIDE DEF r
  <2>4. \A v \in Worker : worker'[v].pc # "idle" => worker'[v].job \in Job
    BY <2>2, <2>3 DEF LedgerTypeOK
  <2> QED BY <1>4, <2>2, <2>3, <2>4 DEF Judge, LedgerTypeOK
<1>5. ASSUME NEW w \in Worker, Report(w)
      PROVE  LedgerTypeOK'
  <2>1. worker[w].job \in Job
    BY <1>5 DEF Report, LedgerTypeOK
  <2>2. ledger' \in [Job -> Entry] /\ lost' \subseteq Job
    BY <1>5, <2>1, ToType DEF Report, State
  <2>3. worker' \in [Worker -> RunnerState]
    <3>1. [worker[w] EXCEPT !.pc = "followup"] \in RunnerState
      BY RunnerMoves DEF LedgerTypeOK, RunnerPc
    <3>2. \/ worker' = [worker EXCEPT ![w] = Idle]
          \/ worker' = [worker EXCEPT ![w].pc = "followup"]
      BY <1>5 DEF Report
    <3> QED BY <3>1, <3>2, IdleIsRunner DEF LedgerTypeOK
  <2>4. \A v \in Worker : worker'[v].pc # "idle" => worker'[v].job \in Job
    BY <1>5, <2>1 DEF Report, LedgerTypeOK, RunnerState, Idle
  <2>5. charged' \in [Job -> Nat]
    BY <1>5, <2>1 DEF Report, LedgerTypeOK
  <2> QED BY <1>5, <2>2, <2>3, <2>4, <2>5 DEF Report, LedgerTypeOK
<1>6. ASSUME NEW w \in Worker, FollowUp(w)
      PROVE  LedgerTypeOK'
  <2>1. worker[w].job \in Job /\ worker[w].attempt \in Nat
    BY <1>6 DEF FollowUp, LedgerTypeOK, RunnerState
  <2>2. ledger' \in [Job -> Entry] /\ lost' \subseteq Job
    <3>1. AfterFailure(ledger[worker[w].job], worker[w].outcome, worker[w].attempt) \in Entry
      BY <2>1, AfterFailureEntry DEF LedgerTypeOK
    <3> QED BY <1>6, <2>1, <3>1, AppendType DEF FollowUp
  <2> QED BY <1>6, <2>2, IdleIsRunner DEF FollowUp, LedgerTypeOK, Idle
<1>7. ASSUME NEW w \in Worker, Abandon(w)
      PROVE  LedgerTypeOK'
  BY <1>7, IdleIsRunner DEF Abandon, LedgerTypeOK, Idle
<1>8. ASSUME NEW s \in Syncer, SyncRead(s)
      PROVE  LedgerTypeOK'
  BY <1>8, DecisionType DEF SyncRead, LedgerTypeOK
<1>9. ASSUME NEW s \in Syncer, NEW j \in Job, SyncAppend(s, j)
      PROVE  LedgerTypeOK'
  <2>1. ledger' \in [Job -> Entry] /\ lost' \subseteq Job
    BY <1>9, AppendType DEF SyncAppend, LedgerTypeOK
  <2> QED BY <1>9, <2>1, AbsentIsEntry DEF SyncAppend, LedgerTypeOK
<1>10. ASSUME NEW s \in Syncer, SyncCut(s)
       PROVE  LedgerTypeOK'
  BY <1>10, AbsentIsEntry DEF SyncCut, LedgerTypeOK, NoSync
<1>11. ASSUME NEW j \in Job, EvidenceChanges(j)
       PROVE  LedgerTypeOK'
  BY <1>11 DEF EvidenceChanges, LedgerTypeOK
<1>12. CASE Midnight
  BY <1>12, JobLedgerAssumption DEF Midnight, PlanEvidence, Hash, LedgerTypeOK
<1>13. CASE UNCHANGED ledgerVars
  BY <1>13 DEF ledgerVars, LedgerTypeOK
<1> QED
  BY <1>1, <1>2, <1>3, <1>4, <1>5, <1>6, <1>7, <1>8, <1>9, <1>10, <1>11, <1>12, <1>13
     DEF LedgerNext, WorkerNext, SyncNext

\* The ledger, the runners, the pending events of syncs and the histories keep
\* their types, and a busy runner always has a job.
THEOREM TypeCorrect == LedgerSpec => []LedgerTypeOK
  BY TypeInit, TypeStep, PTL DEF LedgerSpec

-----------------------------------------------------------------------------
(* Attempts *)

\* The events a sync has yet to append obey the bounds of the ledger: it read
\* them there, or they start afresh.
PendingAttempts ==
  \A s \in Syncer, j \in Job :
    /\ sync[s][j].attempt <= MaxAttempts
    /\ sync[s][j].attempt <= charged[j] + 1

\* The attempt a runner read in its update is at most one past the failures
\* charged; once its own failure is charged, it is no more than those.
RunnerAttempts ==
  \A w \in Worker :
    /\ worker[w].pc = "judged" => worker[w].attempt <= charged[worker[w].job] + 1
    /\ worker[w].pc = "followup" =>
         /\ worker[w].outcome \in {"failed", "infra"}
         /\ worker[w].outcome = "infra" => worker[w].attempt <= charged[worker[w].job] + 1
         /\ worker[w].outcome = "failed" => worker[w].attempt <= charged[worker[w].job]

AttemptInv ==
  /\ OnlyFailuresConsumeAttempts
  /\ AttemptsWithinPolicy
  /\ PendingAttempts
  /\ RunnerAttempts

\* Attempts in the ledger after one event.
LEMMA AppendAttempts ==
  ASSUME LedgerTypeOK, AttemptInv,
         NEW j \in Job, NEW e \in Entry, Append(j, e),
         charged' \in [Job -> Nat], \A k \in Job : charged[k] <= charged'[k],
         e.attempt <= MaxAttempts, e.attempt <= charged'[j] + 1
  PROVE  /\ OnlyFailuresConsumeAttempts'
         /\ \A k \in Job : ledger'[k].attempt <= MaxAttempts
<1>1. \A k \in Job : ledger'[k] = IF k = j THEN e ELSE ledger[k]
  BY DEF LedgerTypeOK, Append
<1>2. \A k \in Job : ledger[k].attempt \in Nat
  BY DEF LedgerTypeOK, Entry
<1>3. \A k \in Job : ledger[k].attempt <= charged'[k] + 1
  BY <1>2 DEF AttemptInv, OnlyFailuresConsumeAttempts, LedgerTypeOK
<1> QED
  BY <1>1, <1>3 DEF AttemptInv, OnlyFailuresConsumeAttempts, AttemptsWithinPolicy

LEMMA ToAttempts ==
  ASSUME LedgerTypeOK, AttemptInv,
         NEW j \in Job, NEW s \in State, To(j, s),
         charged' \in [Job -> Nat], \A k \in Job : charged[k] <= charged'[k]
  PROVE  /\ OnlyFailuresConsumeAttempts'
         /\ \A k \in Job : ledger'[k].attempt <= MaxAttempts
<1> DEFINE e == [ledger[j] EXCEPT !.state = s]
<1>1. e \in Entry /\ e.attempt = ledger[j].attempt
  BY EntryState DEF LedgerTypeOK, Entry
<1>2. ledger[j].attempt <= MaxAttempts /\ ledger[j].attempt <= charged'[j] + 1
  BY DEF AttemptInv, AttemptsWithinPolicy, OnlyFailuresConsumeAttempts, LedgerTypeOK, Entry
<1>3. Append(j, e)
  BY DEF To
<1> HIDE DEF e
<1> QED BY <1>1, <1>2, <1>3, AppendAttempts

\* An attempt after a failure is the one it read, or the next if that is
\* still within the policy.
LEMMA AfterFailureAttempt ==
  ASSUME NEW e \in Entry, NEW o, NEW read \in Nat, NEW c \in Nat,
         e.attempt <= MaxAttempts, e.attempt <= c + 1, read <= MaxAttempts,
         o \in {"failed", "infra"},
         o = "infra" => read <= c + 1, o = "failed" => read <= c
  PROVE  /\ AfterFailure(e, o, read).attempt <= MaxAttempts
         /\ AfterFailure(e, o, read).attempt <= c + 1
<1>1. CASE o = "infra"
  <2>1. AfterFailure(e, o, read) = [e EXCEPT !.state = "queued", !.attempt = read]
    BY <1>1 DEF AfterFailure
  <2>2. AfterFailure(e, o, read).attempt = read
    BY <2>1 DEF Entry
  <2> QED BY <1>1, <2>2
<1>2. CASE o = "failed" /\ read < MaxAttempts
  <2>1. AfterFailure(e, o, read) = [e EXCEPT !.state = "queued", !.attempt = read + 1]
    BY <1>2 DEF AfterFailure
  <2>2. AfterFailure(e, o, read).attempt = read + 1
    BY <2>1 DEF Entry
  <2> QED BY <1>2, <2>2, JobLedgerAssumption
<1>3. CASE o = "failed" /\ ~(read < MaxAttempts)
  <2>1. AfterFailure(e, o, read) = [e EXCEPT !.state = "parked"]
    BY <1>3 DEF AfterFailure
  <2>2. AfterFailure(e, o, read).attempt = e.attempt
    BY <2>1 DEF Entry
  <2> QED BY <2>2
<1> QED BY <1>1, <1>2, <1>3

\* The events of a sync carry an attempt of the ledger, the first, or none.
LEMMA DecisionAttempts ==
  ASSUME LedgerTypeOK, AttemptInv, NEW j \in Job
  PROVE  Decision[j].attempt <= MaxAttempts /\ Decision[j].attempt <= charged[j] + 1
<1>1. Decision[j].attempt \in {ledger[j].attempt, 1, 0}
  <2>1. [ledger[j] EXCEPT !.state = "dropped"].attempt = ledger[j].attempt
    BY DEF LedgerTypeOK, Entry
  <2> QED BY <2>1 DEF Decision, Queued, Absent
<1>2. ledger[j].attempt \in Nat /\ charged[j] \in Nat
  BY DEF LedgerTypeOK, Entry
<1> QED
  BY <1>1, <1>2, JobLedgerAssumption
     DEF AttemptInv, OnlyFailuresConsumeAttempts, AttemptsWithinPolicy

LEMMA AttemptInit == LedgerInit => AttemptInv
  BY JobLedgerAssumption
     DEF LedgerInit, AttemptInv, OnlyFailuresConsumeAttempts, AttemptsWithinPolicy,
         PendingAttempts, RunnerAttempts, Absent, NoSync, Idle

\* Steps that leave the ledger, the runners' updates, the pending events and
\* the charges alone.
LEMMA AttemptFrame ==
  ASSUME AttemptInv, UNCHANGED <<ledger, sync, charged>>, UNCHANGED worker
  PROVE  AttemptInv'
  BY DEF AttemptInv, OnlyFailuresConsumeAttempts, AttemptsWithinPolicy,
         PendingAttempts, RunnerAttempts

\* A runner that goes idle, or picks a job up, has no attempt yet.
LEMMA AttemptRunnerFresh ==
  ASSUME LedgerTypeOK, AttemptInv, NEW w \in Worker, NEW r \in RunnerState,
         worker' = [worker EXCEPT ![w] = r], r.attempt = 0, r.pc \in {"idle", "checked"},
         UNCHANGED <<ledger, sync, charged>>
  PROVE  AttemptInv'
<1>1. \A v \in Worker : worker'[v] = IF v = w THEN r ELSE worker[v]
  BY DEF LedgerTypeOK
<1>2. OnlyFailuresConsumeAttempts' /\ PendingAttempts'
  BY DEF AttemptInv, OnlyFailuresConsumeAttempts, PendingAttempts
<1>3. AttemptsWithinPolicy' /\ RunnerAttempts'
  BY <1>1, JobLedgerAssumption DEF AttemptInv, AttemptsWithinPolicy, RunnerAttempts
<1> QED BY <1>2, <1>3 DEF AttemptInv

LEMMA AttemptStep ==
  LedgerTypeOK /\ LedgerTypeOK' /\ AttemptInv /\ [LedgerNext]_ledgerVars => AttemptInv'
<1> SUFFICES ASSUME LedgerTypeOK, LedgerTypeOK', AttemptInv, [LedgerNext]_ledgerVars
             PROVE  AttemptInv'
  OBVIOUS
<1> USE DEF AttemptInv
<1>0. Idle \in RunnerState /\ Idle.attempt = 0 /\ Idle.pc = "idle"
  BY IdleIsRunner DEF Idle
<1>a. Absent.attempt = 0 /\ \A k \in Job : 0 <= charged[k] + 1
  BY DEF Absent, LedgerTypeOK
<1>1. ASSUME NEW w \in Worker, NEW j \in Job, Check(w, j)
      PROVE  AttemptInv'
  <2> DEFINE r == [Idle EXCEPT !.pc = "checked", !.job = j]
  <2>1. r \in RunnerState /\ r.attempt = 0 /\ r.pc = "checked"
    BY IdleIsRunner DEF Idle, RunnerState, RunnerPc
  <2>2. worker' = [worker EXCEPT ![w] = r] /\ UNCHANGED <<ledger, sync, charged>>
    BY <1>1 DEF Check
  <2> HIDE DEF r
  <2> QED BY <2>1, <2>2, AttemptRunnerFresh
<1>2. ASSUME NEW w \in Worker, Refuse(w)
      PROVE  AttemptInv'
  BY <1>0, <1>2, AttemptRunnerFresh DEF Refuse
<1>3. ASSUME NEW w \in Worker, Claim(w)
      PROVE  AttemptInv'
  <2>1. OnlyFailuresConsumeAttempts' /\ \A k \in Job : ledger'[k].attempt <= MaxAttempts
    <3>1. CASE To(worker[w].job, "running")
      BY <1>3, <3>1, ToAttempts DEF Claim, State, LedgerTypeOK
    <3>2. CASE UNCHANGED ledger
      BY <1>3, <3>2 DEF Claim, OnlyFailuresConsumeAttempts, AttemptsWithinPolicy
    <3> QED BY <1>3, <3>1, <3>2 DEF Claim
  <2>2. \A v \in Worker : /\ worker'[v].attempt = worker[v].attempt
                          /\ worker'[v].pc \in {"judged", "followup"} => worker'[v] = worker[v]
    BY <1>3 DEF Claim, LedgerTypeOK, RunnerState
  <2>3. AttemptsWithinPolicy' /\ RunnerAttempts' /\ PendingAttempts'
    BY <1>3, <2>1, <2>2 DEF Claim, AttemptsWithinPolicy, RunnerAttempts, PendingAttempts
  <2> QED BY <2>1, <2>3
<1>4. ASSUME NEW w \in Worker, NEW o \in Outcome, Judge(w, o)
      PROVE  AttemptInv'
  <2> DEFINE j == worker[w].job
             r == [worker[w] EXCEPT !.pc = "judged",
                                    !.outcome = o,
                                    !.attempt = ledger[j].attempt]
  <2>1. j \in Job /\ worker[w] \in RunnerState
    BY <1>4 DEF Judge, LedgerTypeOK
  <2>2. r.pc = "judged" /\ r.job = j /\ r.attempt = ledger[j].attempt
    BY <2>1 DEF RunnerState
  <2>3. \A v \in Worker : worker'[v] = IF v = w THEN r ELSE worker[v]
    BY <1>4 DEF Judge, LedgerTypeOK
  <2> HIDE DEF r
  <2>4. UNCHANGED <<ledger, sync, charged>>
    BY <1>4 DEF Judge
  <2>5. r.attempt <= MaxAttempts /\ r.attempt <= charged[r.job] + 1
    BY <2>1, <2>2 DEF AttemptsWithinPolicy, OnlyFailuresConsumeAttempts
  <2>6. AttemptsWithinPolicy'
    BY <2>3, <2>4, <2>5 DEF AttemptsWithinPolicy
  <2>7. RunnerAttempts'
    BY <2>2, <2>3, <2>4, <2>5 DEF RunnerAttempts
  <2> QED BY <2>4, <2>6, <2>7 DEF OnlyFailuresConsumeAttempts, PendingAttempts
<1>5. ASSUME NEW w \in Worker, Report(w)
      PROVE  AttemptInv'
  <2> DEFINE j == worker[w].job
  <2>1. j \in Job /\ worker[w] \in RunnerState
    BY <1>5 DEF Report, LedgerTypeOK
  <2>2. \A k \in Job : charged[k] \in Nat /\ charged'[k] \in Nat
    BY DEF LedgerTypeOK
  <2>3. /\ \A k \in Job : charged[k] <= charged'[k]
        /\ worker[w].outcome = "failed" => charged'[j] = charged[j] + 1
    BY <1>5, <2>1, <2>2 DEF Report, LedgerTypeOK
  <2>4. OnlyFailuresConsumeAttempts' /\ \A k \in Job : ledger'[k].attempt <= MaxAttempts
    BY <1>5, <2>1, <2>3, ToAttempts DEF Report, State, LedgerTypeOK
  <2>5. PendingAttempts'
    <3>1. \A s \in Syncer, k \in Job : sync[s][k].attempt \in Nat
      BY DEF LedgerTypeOK, Entry
    <3> QED BY <1>5, <2>2, <2>3, <3>1 DEF Report, PendingAttempts
  <2>6. \/ worker' = [worker EXCEPT ![w] = Idle]
        \/ /\ worker[w].outcome \in {"failed", "infra"}
           /\ worker' = [worker EXCEPT ![w] = [worker[w] EXCEPT !.pc = "followup"]]
    BY <1>5 DEF Report
  <2>7. \A v \in Worker : worker[v].attempt \in Nat /\ worker'[v].attempt <= MaxAttempts
    <3>1. \A v \in Worker : worker[v].attempt \in Nat
      BY DEF LedgerTypeOK, RunnerState
    <3>2. [worker[w] EXCEPT !.pc = "followup"].attempt = worker[w].attempt
      BY <2>1 DEF RunnerState
    <3>3. \A v \in Worker : worker'[v].attempt \in {worker[v].attempt, Idle.attempt}
      BY <2>6, <3>2 DEF LedgerTypeOK
    <3> QED BY <1>0, <3>1, <3>3, JobLedgerAssumption DEF AttemptsWithinPolicy
  <2>8. RunnerAttempts'
    <3> SUFFICES ASSUME NEW v \in Worker
                 PROVE  /\ worker'[v].pc = "judged" => worker'[v].attempt <= charged'[worker'[v].job] + 1
                        /\ worker'[v].pc = "followup" =>
                             /\ worker'[v].outcome \in {"failed", "infra"}
                             /\ worker'[v].outcome = "infra" => worker'[v].attempt <= charged'[worker'[v].job] + 1
                             /\ worker'[v].outcome = "failed" => worker'[v].attempt <= charged'[worker'[v].job]
      BY DEF RunnerAttempts
    <3>1. CASE v # w
      <4>1. worker'[v] = worker[v]
        BY <2>6, <3>1 DEF LedgerTypeOK
      <4>2. CASE worker[v].pc \in {"judged", "followup"}
        <5>1. worker[v].job \in Job
          BY <4>2 DEF LedgerTypeOK
        <5> QED BY <4>1, <5>1, <2>2, <2>3, <2>7 DEF RunnerAttempts
      <4> QED BY <4>1, <4>2
    <3>2. CASE v = w /\ worker' = [worker EXCEPT ![w] = Idle]
      BY <3>2, <1>0 DEF LedgerTypeOK
    <3>3. CASE v = w /\ worker' = [worker EXCEPT ![w] = [worker[w] EXCEPT !.pc = "followup"]]
                     /\ worker[w].outcome \in {"failed", "infra"}
      <4> DEFINE r == [worker[w] EXCEPT !.pc = "followup"]
      <4>1. /\ r.pc = "followup" /\ r.job = j
            /\ r.outcome = worker[w].outcome /\ r.attempt = worker[w].attempt
        BY <2>1 DEF RunnerState
      <4>2. worker'[v] = r
        BY <3>3 DEF LedgerTypeOK
      <4>3. worker[w].attempt <= charged[j] + 1
        BY <1>5 DEF Report, RunnerAttempts
      <4> HIDE DEF r
      <4> QED BY <3>3, <4>1, <4>2, <4>3, <2>1, <2>2, <2>3, <2>7
    <3> QED BY <2>6, <3>1, <3>2, <3>3
  <2> QED BY <2>4, <2>5, <2>7, <2>8 DEF AttemptsWithinPolicy
<1>6. ASSUME NEW w \in Worker, FollowUp(w)
      PROVE  AttemptInv'
  <2> DEFINE j == worker[w].job
             e == AfterFailure(ledger[j], worker[w].outcome, worker[w].attempt)
  <2>1. j \in Job /\ worker[w] \in RunnerState /\ ledger[j] \in Entry /\ charged[j] \in Nat
    BY <1>6 DEF FollowUp, LedgerTypeOK
  <2>2. worker[w].attempt \in Nat
    BY <2>1 DEF RunnerState
  <2>3. e \in Entry
    BY <2>1, <2>2, AfterFailureEntry
  <2>4. e.attempt <= MaxAttempts /\ e.attempt <= charged[j] + 1
    BY <1>6, <2>1, <2>2, AfterFailureAttempt
       DEF FollowUp, RunnerAttempts, AttemptsWithinPolicy, OnlyFailuresConsumeAttempts
  <2>5. Append(j, e) /\ charged' = charged
    BY <1>6 DEF FollowUp
  <2> HIDE DEF e
  <2>6. OnlyFailuresConsumeAttempts' /\ \A k \in Job : ledger'[k].attempt <= MaxAttempts
    <3>1. charged' \in [Job -> Nat] /\ \A k \in Job : charged[k] <= charged'[k]
      BY <2>5 DEF LedgerTypeOK
    <3> QED BY <2>1, <2>3, <2>4, <2>5, <3>1, AppendAttempts
  <2>7. \A v \in Worker : worker'[v] = IF v = w THEN Idle ELSE worker[v]
    BY <1>6 DEF FollowUp, LedgerTypeOK
  <2>8. RunnerAttempts' /\ \A v \in Worker : worker'[v].attempt <= MaxAttempts
    BY <1>0, <2>5, <2>7, JobLedgerAssumption DEF RunnerAttempts, AttemptsWithinPolicy
  <2>9. PendingAttempts'
    BY <1>6 DEF FollowUp, PendingAttempts
  <2> QED BY <2>6, <2>8, <2>9 DEF AttemptsWithinPolicy
<1>7. ASSUME NEW w \in Worker, Abandon(w)
      PROVE  AttemptInv'
  BY <1>0, <1>7, AttemptRunnerFresh DEF Abandon
<1>8. ASSUME NEW s \in Syncer, SyncRead(s)
      PROVE  AttemptInv'
  <2>1. \A t \in Syncer, k \in Job : sync'[t][k] = IF t = s THEN Decision[k] ELSE sync[t][k]
    BY <1>8 DEF SyncRead, LedgerTypeOK
  <2>2. PendingAttempts'
    BY <1>8, <2>1, DecisionAttempts DEF SyncRead, PendingAttempts
  <2> QED
    BY <1>8, <2>2
       DEF SyncRead, OnlyFailuresConsumeAttempts, AttemptsWithinPolicy, RunnerAttempts
<1>9. ASSUME NEW s \in Syncer, NEW j \in Job, SyncAppend(s, j)
      PROVE  AttemptInv'
  <2>1. Append(j, sync[s][j]) /\ charged' = charged /\ worker' = worker
    BY <1>9 DEF SyncAppend
  <2>2. OnlyFailuresConsumeAttempts' /\ \A k \in Job : ledger'[k].attempt <= MaxAttempts
    <3>1. sync[s][j] \in Entry
      BY DEF LedgerTypeOK
    <3>2. charged' \in [Job -> Nat] /\ \A k \in Job : charged[k] <= charged'[k]
      BY <2>1 DEF LedgerTypeOK
    <3> QED BY <2>1, <3>1, <3>2, AppendAttempts DEF PendingAttempts
  <2>3. \A t \in Syncer, k \in Job : sync'[t][k] \in {sync[t][k], Absent}
    BY <1>9 DEF SyncAppend, LedgerTypeOK
  <2>4. PendingAttempts'
    BY <1>a, <2>1, <2>3, JobLedgerAssumption DEF PendingAttempts
  <2> QED BY <2>1, <2>2, <2>4 DEF AttemptsWithinPolicy, RunnerAttempts
<1>10. ASSUME NEW s \in Syncer, SyncCut(s)
       PROVE  AttemptInv'
  <2>1. \A t \in Syncer, k \in Job : sync'[t][k] \in {sync[t][k], Absent}
    BY <1>10 DEF SyncCut, NoSync, LedgerTypeOK
  <2>2. PendingAttempts'
    BY <1>a, <1>10, <2>1, JobLedgerAssumption DEF SyncCut, PendingAttempts
  <2> QED
    BY <1>10, <2>2
       DEF SyncCut, OnlyFailuresConsumeAttempts, AttemptsWithinPolicy, RunnerAttempts
<1>11. ASSUME NEW j \in Job, EvidenceChanges(j)
       PROVE  AttemptInv'
  BY <1>11, AttemptFrame DEF EvidenceChanges
<1>12. CASE Midnight
  BY <1>12, AttemptFrame DEF Midnight
<1>13. CASE UNCHANGED ledgerVars
  BY <1>13, AttemptFrame DEF ledgerVars
<1> QED
  BY <1>1, <1>2, <1>3, <1>4, <1>5, <1>6, <1>7, <1>8, <1>9, <1>10, <1>11, <1>12, <1>13
     DEF LedgerNext, WorkerNext, SyncNext

\* An attempt is consumed by a failure that was meant to count and by nothing
\* else, however stale what racing runners and syncs read.
THEOREM AttemptsAreCharged == LedgerSpec => []OnlyFailuresConsumeAttempts
<1>1. LedgerInit => LedgerTypeOK /\ AttemptInv
  BY TypeInit, AttemptInit
<1>2. LedgerTypeOK /\ AttemptInv /\ [LedgerNext]_ledgerVars => LedgerTypeOK' /\ AttemptInv'
  BY TypeStep, AttemptStep
<1>3. AttemptInv => OnlyFailuresConsumeAttempts
  BY DEF AttemptInv
<1> QED BY <1>1, <1>2, <1>3, PTL DEF LedgerSpec

\* No job is ever on an attempt beyond the policy, in the ledger or in an
\* update still to be written.
THEOREM AttemptsBounded == LedgerSpec => []AttemptsWithinPolicy
<1>1. LedgerInit => LedgerTypeOK /\ AttemptInv
  BY TypeInit, AttemptInit
<1>2. LedgerTypeOK /\ AttemptInv /\ [LedgerNext]_ledgerVars => LedgerTypeOK' /\ AttemptInv'
  BY TypeStep, AttemptStep
<1>3. AttemptInv => AttemptsWithinPolicy
  BY DEF AttemptInv
<1> QED BY <1>1, <1>2, <1>3, PTL DEF LedgerSpec

-----------------------------------------------------------------------------
(* Transient states *)

\* A sync only ever queues or drops.
PendingStates ==
  \A s \in Syncer, j \in Job :
    sync[s][j] # Absent => sync[s][j].state \in {"queued", "dropped"}

StuckInv == StuckMeansAbandoned /\ PendingStates

\* The runner that keeps j running, or is about to follow up its failure.
Keeps(w, j) ==
  /\ worker[w].job = j
  /\ \/ ledger[j].state = "running" /\ worker[w].pc \in {"claimed", "judged"}
     \/ ledger[j].state = "failed" /\ worker[w].pc = "followup"

Transient(j) == ledger[j].state \in {"running", "failed"}

LEMMA StuckIsKept ==
  StuckMeansAbandoned <=>
    \A j \in Job \ lost : Transient(j) => \E w \in Worker : Keeps(w, j)
<1>1. ASSUME StuckMeansAbandoned, NEW j \in Job \ lost, Transient(j)
      PROVE  \E w \in Worker : Keeps(w, j)
  BY <1>1 DEF StuckMeansAbandoned, Transient, Keeps
<1>2. ASSUME \A j \in Job \ lost : Transient(j) => \E w \in Worker : Keeps(w, j),
             NEW j \in Job \ lost
      PROVE  /\ ledger[j].state = "running" =>
                  \E w \in Worker : worker[w].job = j /\ worker[w].pc \in {"claimed", "judged"}
             /\ ledger[j].state = "failed" =>
                  \E w \in Worker : worker[w].job = j /\ worker[w].pc = "followup"
  BY <1>2 DEF Transient, Keeps
<1> QED BY <1>1, <1>2 DEF StuckMeansAbandoned

\* An event for job j of a state that is not transient: only runners on other
\* jobs have to stay as they were.
LEMMA SettlingKeeps ==
  ASSUME LedgerTypeOK, StuckMeansAbandoned,
         NEW j \in Job, NEW e \in Entry, Append(j, e),
         e.state \notin {"running", "failed"},
         \A w \in Worker : worker'[w] = worker[w] \/ worker[w].job = j
  PROVE  StuckMeansAbandoned'
<1> SUFFICES ASSUME NEW k \in Job \ lost', Transient(k)'
             PROVE  \E w \in Worker : Keeps(w, k)'
  BY DEF StuckMeansAbandoned, Transient, Keeps
<1>1. \A i \in Job : ledger'[i] = IF i = j THEN e ELSE ledger[i]
  BY DEF LedgerTypeOK, Append
<1>2. k # j /\ ledger'[k] = ledger[k] /\ k \notin lost
  BY <1>1 DEF Transient, Append
<1>3. PICK w \in Worker : Keeps(w, k)
  BY <1>2, StuckIsKept DEF Transient
<1>4. worker'[w] = worker[w]
  BY <1>2, <1>3 DEF Keeps
<1> QED BY <1>2, <1>3, <1>4 DEF Keeps

\* Runner w brings j into a transient state and stands for it.
LEMMA ClaimingKeeps ==
  ASSUME LedgerTypeOK, StuckMeansAbandoned,
         NEW w \in Worker, NEW s \in State, To(worker[w].job, s),
         worker[w].job \in Job,
         \A v \in Worker : v # w => worker'[v] = worker[v],
         worker'[w].job = worker[w].job,
         \/ s = "running" /\ worker'[w].pc = "claimed"
         \/ s = "failed" /\ worker'[w].pc = "followup"
  PROVE  StuckMeansAbandoned'
<1> DEFINE j == worker[w].job
<1> SUFFICES ASSUME NEW k \in Job \ lost', Transient(k)'
             PROVE  \E v \in Worker : Keeps(v, k)'
  BY DEF StuckMeansAbandoned, Transient, Keeps
<1>1. \A i \in Job : ledger'[i] = IF i = j THEN [ledger[j] EXCEPT !.state = s] ELSE ledger[i]
  BY DEF LedgerTypeOK, Append, To
<1>2. CASE k = j
  <2>1. ledger'[j].state = s
    BY <1>1 DEF LedgerTypeOK, Entry
  <2>2. Keeps(w, k)'
    BY <1>2, <2>1 DEF Keeps
  <2> QED BY <2>2
<1>3. CASE k # j
  <2>1. ledger'[k] = ledger[k] /\ k \notin lost
    BY <1>1, <1>3 DEF Append, To
  <2>2. PICK v \in Worker : Keeps(v, k)
    BY <2>1, StuckIsKept DEF Transient
  <2>3. worker'[v] = worker[v]
    BY <1>3, <2>2 DEF Keeps
  <2> QED BY <2>1, <2>2, <2>3 DEF Keeps
<1> QED BY <1>2, <1>3

\* The ledger stands; whoever keeps a job still does, unless it is lost.
LEMMA StandingKeeps ==
  ASSUME StuckMeansAbandoned, UNCHANGED ledger,
         \A j \in Job \ lost' : j \notin lost,
         \A w \in Worker, j \in Job \ lost' : Keeps(w, j) => Keeps(w, j)'
  PROVE  StuckMeansAbandoned'
<1> SUFFICES ASSUME NEW k \in Job \ lost', Transient(k)'
             PROVE  \E w \in Worker : Keeps(w, k)'
  BY DEF StuckMeansAbandoned, Transient, Keeps
<1>1. PICK w \in Worker : Keeps(w, k)
  BY StuckIsKept DEF Transient
<1> QED BY <1>1

LEMMA StuckInit == LedgerInit => StuckInv
  BY DEF LedgerInit, StuckInv, StuckMeansAbandoned, PendingStates, NoSync, Absent

LEMMA PendingStep ==
  LedgerTypeOK /\ PendingStates /\ [LedgerNext]_ledgerVars => PendingStates'
<1> SUFFICES ASSUME LedgerTypeOK, PendingStates, [LedgerNext]_ledgerVars,
                    NEW t \in Syncer, NEW k \in Job, sync'[t][k] # Absent
             PROVE  sync'[t][k].state \in {"queued", "dropped"}
  BY DEF PendingStates
<1>1. CASE sync'[t][k] = sync[t][k]
  BY <1>1 DEF PendingStates
<1>2. ASSUME NEW s \in Syncer, SyncRead(s)
      PROVE  sync'[t][k].state \in {"queued", "dropped"}
  <2>1. sync'[t][k] = IF t = s THEN Decision[k] ELSE sync[t][k]
    BY <1>2 DEF SyncRead, LedgerTypeOK
  <2>2. [ledger[k] EXCEPT !.state = "dropped"].state = "dropped"
    BY DEF LedgerTypeOK, Entry
  <2>3. Decision[k] = Absent \/ Decision[k].state \in {"queued", "dropped"}
    BY <2>2 DEF Decision, Queued
  <2> QED BY <2>1, <2>3 DEF PendingStates
<1>3. ASSUME NEW s \in Syncer, NEW j \in Job, SyncAppend(s, j)
      PROVE  sync'[t][k] \in {sync[t][k], Absent}
  BY <1>3 DEF SyncAppend, LedgerTypeOK
<1>4. ASSUME NEW s \in Syncer, SyncCut(s)
      PROVE  sync'[t][k] \in {sync[t][k], Absent}
  BY <1>4 DEF SyncCut, NoSync, LedgerTypeOK
<1>5. ASSUME NEW w \in Worker, WorkerNext(w)
      PROVE  UNCHANGED sync
  BY <1>5 DEF WorkerNext, Check, Refuse, Claim, Judge, Report, FollowUp, Abandon
<1>6. ASSUME NEW j \in Job, EvidenceChanges(j)
      PROVE  UNCHANGED sync
  BY <1>6 DEF EvidenceChanges
<1>7. Midnight \/ UNCHANGED ledgerVars => UNCHANGED sync
  BY DEF Midnight, ledgerVars
<1> QED BY <1>1, <1>2, <1>3, <1>4, <1>5, <1>6, <1>7 DEF LedgerNext, SyncNext

LEMMA StuckStep ==
  LedgerTypeOK /\ StuckInv /\ [LedgerNext]_ledgerVars => StuckMeansAbandoned'
<1> SUFFICES ASSUME LedgerTypeOK, StuckMeansAbandoned, PendingStates, [LedgerNext]_ledgerVars
             PROVE  StuckMeansAbandoned'
  BY DEF StuckInv
<1>1. ASSUME NEW w \in Worker, NEW j \in Job, Check(w, j)
      PROVE  StuckMeansAbandoned'
  <2>1. \A v \in Worker : worker'[v] = worker[v] \/ worker[v].pc = "idle"
    BY <1>1 DEF Check, LedgerTypeOK
  <2> QED BY <1>1, <2>1, StandingKeeps DEF Check, Keeps
<1>2. ASSUME NEW w \in Worker, Refuse(w)
      PROVE  StuckMeansAbandoned'
  <2>1. \A v \in Worker : worker'[v] = worker[v] \/ worker[v].pc = "checked"
    BY <1>2 DEF Refuse, LedgerTypeOK
  <2> QED BY <1>2, <2>1, StandingKeeps DEF Refuse, Keeps
<1>3. ASSUME NEW w \in Worker, Claim(w)
      PROVE  StuckMeansAbandoned'
  <2>1. /\ \A v \in Worker : v # w => worker'[v] = worker[v]
        /\ worker'[w].job = worker[w].job /\ worker'[w].pc = "claimed"
        /\ worker[w].pc = "checked" /\ worker[w].job \in Job
    BY <1>3 DEF Claim, LedgerTypeOK, RunnerState
  <2>2. CASE To(worker[w].job, "running")
    BY <2>1, <2>2, ClaimingKeeps DEF State
  <2>3. CASE UNCHANGED <<ledger, lost>>
    BY <2>1, <2>3, StandingKeeps DEF Keeps
  <2> QED BY <1>3, <2>2, <2>3 DEF Claim
<1>4. ASSUME NEW w \in Worker, NEW o \in Outcome, Judge(w, o)
      PROVE  StuckMeansAbandoned'
  <2>1. \A v \in Worker : v # w => worker'[v] = worker[v]
    BY <1>4 DEF Judge, LedgerTypeOK
  <2>2. /\ worker'[w].job = worker[w].job
        /\ worker[w].pc = "claimed" /\ worker'[w].pc = "judged"
    BY <1>4 DEF Judge, LedgerTypeOK, RunnerState
  <2> QED BY <1>4, <2>1, <2>2, StandingKeeps DEF Judge, Keeps
<1>5. ASSUME NEW w \in Worker, Report(w)
      PROVE  StuckMeansAbandoned'
  <2>1. /\ \A v \in Worker : v # w => worker'[v] = worker[v]
        /\ worker[w].job \in Job
    BY <1>5 DEF Report, LedgerTypeOK
  <2>2. CASE /\ worker[w].outcome \in {"done", "parked"}
             /\ To(worker[w].job, worker[w].outcome)
    <3> DEFINE e == [ledger[worker[w].job] EXCEPT !.state = worker[w].outcome]
    <3>1. e \in Entry /\ e.state \notin {"running", "failed"}
      <4>1. worker[w].outcome \in State /\ worker[w].outcome \notin {"running", "failed"}
        BY <2>2 DEF State
      <4>2. e \in Entry /\ e.state = worker[w].outcome
        BY <2>1, <4>1, EntryState DEF LedgerTypeOK, Entry
      <4> QED BY <4>1, <4>2
    <3>2. Append(worker[w].job, e)
      BY <2>2 DEF To
    <3> HIDE DEF e
    <3> QED BY <2>1, <3>1, <3>2, SettlingKeeps
  <2>3. CASE /\ To(worker[w].job, "failed")
             /\ worker' = [worker EXCEPT ![w].pc = "followup"]
    <3>1. worker'[w].job = worker[w].job /\ worker'[w].pc = "followup"
      BY <2>3 DEF LedgerTypeOK, RunnerState
    <3> QED BY <2>1, <2>3, <3>1, ClaimingKeeps DEF State
  <2> QED BY <1>5, <2>2, <2>3 DEF Report
<1>6. ASSUME NEW w \in Worker, FollowUp(w)
      PROVE  StuckMeansAbandoned'
  <2> DEFINE j == worker[w].job
             e == AfterFailure(ledger[j], worker[w].outcome, worker[w].attempt)
  <2>1. j \in Job /\ worker[w].attempt \in Nat
    BY <1>6 DEF FollowUp, LedgerTypeOK, RunnerState
  <2>2. e \in Entry /\ e.state \notin {"running", "failed"}
    BY <2>1, AfterFailureEntry DEF LedgerTypeOK
  <2>3. Append(j, e)
    BY <1>6 DEF FollowUp
  <2>4. \A v \in Worker : worker'[v] = worker[v] \/ worker[v].job = j
    BY <1>6 DEF FollowUp, LedgerTypeOK
  <2> HIDE DEF e
  <2> QED BY <2>1, <2>2, <2>3, <2>4, SettlingKeeps
<1>7. ASSUME NEW w \in Worker, Abandon(w)
      PROVE  StuckMeansAbandoned'
  <2>1. \A v \in Worker : v # w => worker'[v] = worker[v]
    BY <1>7 DEF Abandon, LedgerTypeOK
  <2>2. /\ lost \subseteq lost' /\ UNCHANGED ledger
        /\ worker[w].pc = "checked" \/ worker[w].job \in lost'
    BY <1>7 DEF Abandon
  <2>3. ASSUME NEW v \in Worker, NEW j \in Job \ lost', Keeps(v, j)
        PROVE  Keeps(v, j)'
    BY <2>1, <2>2, <2>3 DEF Keeps
  <2> QED BY <2>2, <2>3, StandingKeeps
<1>8. ASSUME NEW s \in Syncer, NEW j \in Job, SyncAppend(s, j)
      PROVE  StuckMeansAbandoned'
  <2>1. sync[s][j] \in Entry /\ sync[s][j].state \notin {"running", "failed"}
    BY <1>8 DEF SyncAppend, LedgerTypeOK, PendingStates
  <2> QED BY <1>8, <2>1, SettlingKeeps DEF SyncAppend
<1>9. ASSUME UNCHANGED <<ledger, worker, lost>>
      PROVE  StuckMeansAbandoned'
  BY <1>9 DEF StuckMeansAbandoned
<1>10. ASSUME NEW s \in Syncer, SyncRead(s) \/ SyncCut(s)
       PROVE  UNCHANGED <<ledger, worker, lost>>
  BY <1>10 DEF SyncRead, SyncCut
<1>11. ASSUME NEW j \in Job, EvidenceChanges(j)
       PROVE  UNCHANGED <<ledger, worker, lost>>
  BY <1>11 DEF EvidenceChanges
<1>12. Midnight \/ UNCHANGED ledgerVars => UNCHANGED <<ledger, worker, lost>>
  BY DEF Midnight, ledgerVars
<1> QED
  BY <1>1, <1>2, <1>3, <1>4, <1>5, <1>6, <1>7, <1>8, <1>9, <1>10, <1>11, <1>12
     DEF LedgerNext, WorkerNext, SyncNext

\* A job is running only while a runner that claimed it has yet to report, and
\* failed only between the two appends of one update, unless the process that
\* wrote that state died or lost its command.
THEOREM NoJobSticks == LedgerSpec => []StuckMeansAbandoned
<1>1. LedgerInit => LedgerTypeOK /\ StuckInv
  BY TypeInit, StuckInit
<1>2. LedgerTypeOK /\ StuckInv /\ [LedgerNext]_ledgerVars => LedgerTypeOK' /\ StuckInv'
  BY TypeStep, StuckStep, PendingStep DEF StuckInv
<1>3. StuckInv => StuckMeansAbandoned
  BY DEF StuckInv
<1> QED BY <1>1, <1>2, <1>3, PTL DEF LedgerSpec

=============================================================================
