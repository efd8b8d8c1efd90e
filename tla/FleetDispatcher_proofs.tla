------------------------ MODULE FleetDispatcher_proofs ------------------------
(***************************************************************************)
(* Proofs about SpendLedger, for any bills and any threads, and about      *)
(* FleetDispatcher, for any jobs, limits and faults.                       *)
(***************************************************************************)
EXTENDS FleetDispatcher, JobLedger_proofs, FiniteSetTheorems, WellFoundedInduction, TLAPS

-----------------------------------------------------------------------------
(* The spend ledger: types *)

LEMMA ReadableBills ==
  ASSUME NEW content \in Content
  PROVE  Readable(content) \in SUBSET Bill
  BY DEF Content, Readable

\* The text of a list of bills reads back as those bills.
LEMMA ReadableText ==
  ASSUME NEW bills \in SUBSET Bill
  PROVE  Readable(bills) = bills /\ bills # Missing
  BY SpendAssumption DEF Readable

LEMMA OverwriteContent ==
  ASSUME NEW old, NEW bills \in SUBSET Bill
  PROVE  Overwrite(old, bills) \subseteq Content
  BY DEF Overwrite, Content

LEMMA AtRestType == AtRest \in SpenderState
  BY DEF AtRest, SpenderState

LEMMA SpendTypeInit == SpendInit => SpendTypeOK
<1> SUFFICES ASSUME SpendInit PROVE SpendTypeOK
  OBVIOUS
<1>1. spendFile \in Content /\ tmpFile \in Content
  BY DEF SpendInit, Content
<1>2. spender \in [Spender -> SpenderState] /\ \A w \in Spender : ~Recording(w)
  BY AtRestType DEF SpendInit, Recording, AtRest
<1>3. issued \subseteq Bill /\ overlapped \in BOOLEAN
  BY DEF SpendInit
<1> QED BY <1>1, <1>2, <1>3 DEF SpendTypeOK

LEMMA SpendTypeStep == SpendTypeOK /\ [SpendNext]_spendVars => SpendTypeOK'
<1> SUFFICES ASSUME SpendTypeOK, [SpendNext]_spendVars
             PROVE  SpendTypeOK'
  OBVIOUS
<1>1. ASSUME NEW w \in Spender, NEW b \in Bill, RecordRead(w, b)
      PROVE  SpendTypeOK'
  <2> DEFINE r == [AtRest EXCEPT !.pc = "read", !.bill = b, !.read = Readable(spendFile)]
  <2>1. r \in SpenderState
    <3>1. Readable(spendFile) \in SUBSET Bill
      BY ReadableBills DEF SpendTypeOK
    <3> QED BY <3>1 DEF AtRest, SpenderState
  <2>2. spender' = [spender EXCEPT ![w] = r]
    BY <1>1 DEF RecordRead
  <2>4. r.bill = b
    BY DEF AtRest
  <2> HIDE DEF r
  <2>3. overlapped' \in BOOLEAN
    BY <1>1 DEF RecordRead, SpendTypeOK
  <2> QED BY <1>1, <2>1, <2>2, <2>3, <2>4 DEF RecordRead, SpendTypeOK, Recording
<1>2. ASSUME NEW w \in Spender, RecordOpen(w)
      PROVE  SpendTypeOK'
  <2> DEFINE r == [spender[w] EXCEPT !.pc = "open", !.fd = "tmp"]
  <2>1. r \in SpenderState /\ r.bill = spender[w].bill
    BY DEF SpendTypeOK, SpenderState
  <2>2. spender' = [spender EXCEPT ![w] = r]
    BY <1>2 DEF RecordOpen
  <2> HIDE DEF r
  <2>3. spender[w].bill \in Bill
    BY <1>2 DEF RecordOpen, Recording, SpendTypeOK
  <2> QED BY <1>2, <2>1, <2>2, <2>3 DEF RecordOpen, SpendTypeOK, Recording, Content
<1>3. ASSUME NEW w \in Spender, RecordWrite(w)
      PROVE  SpendTypeOK'
  <2> DEFINE content == spender[w].read \cup {spender[w].bill}
             r == [spender[w] EXCEPT !.pc = "written"]
  <2>1. content \in SUBSET Bill /\ spender[w].bill \in Bill
    BY <1>3 DEF RecordWrite, Recording, SpendTypeOK, SpenderState
  <2>2. r \in SpenderState /\ r.bill = spender[w].bill
    BY DEF SpendTypeOK, SpenderState
  <2>3. spender' = [spender EXCEPT ![w] = r]
    BY <1>3 DEF RecordWrite
  <2>4. /\ tmpFile' \in Overwrite(tmpFile, content) \/ tmpFile' = tmpFile
        /\ spendFile' \in Overwrite(spendFile, content) \/ spendFile' = spendFile
        /\ UNCHANGED <<issued, overlapped>>
    BY <1>3 DEF RecordWrite
  <2> HIDE DEF content, r
  <2>5. tmpFile' \in Content /\ spendFile' \in Content
    BY <2>1, <2>4, OverwriteContent DEF SpendTypeOK
  <2> QED BY <2>1, <2>2, <2>3, <2>4, <2>5 DEF SpendTypeOK, Recording
<1>4. ASSUME NEW w \in Spender, RecordReplace(w)
      PROVE  SpendTypeOK'
  <2>1. ASSUME NEW v \in Spender
        PROVE  LET r == [spender[v] EXCEPT !.fd = Renamed(@)]
               IN r \in SpenderState /\ r.pc = spender[v].pc /\ r.bill = spender[v].bill
    <3>1. Renamed(spender[v].fd) \in {"none", "tmp", "ledger", "gone"}
      BY DEF Renamed, SpendTypeOK, SpenderState
    <3> QED BY <3>1 DEF SpendTypeOK, SpenderState
  <2>2. /\ spender' = [v \in Spender |-> IF v = w THEN AtRest
                                         ELSE [spender[v] EXCEPT !.fd = Renamed(@)]]
        /\ spendFile' = tmpFile /\ tmpFile' = Missing
        /\ UNCHANGED <<issued, overlapped>>
    BY <1>4 DEF RecordReplace
  <2>3. spender' \in [Spender -> SpenderState]
    BY <2>1, <2>2, AtRestType
  <2>4. \A v \in Spender : Recording(v)' => spender'[v].bill \in Bill
    BY <2>1, <2>2 DEF Recording, SpendTypeOK, AtRest
  <2> QED BY <2>2, <2>3, <2>4 DEF SpendTypeOK, Content
<1>5. ASSUME NEW w \in Spender, RecordRaises(w) \/ RecordCut(w)
      PROVE  SpendTypeOK'
  <2>1. /\ spender' = [spender EXCEPT ![w] = AtRest]
        /\ UNCHANGED <<spendFile, tmpFile, issued>>
    BY <1>5 DEF RecordRaises, RecordCut
  <2>2. overlapped' \in BOOLEAN
    BY <1>5 DEF RecordRaises, RecordCut, SpendTypeOK
  <2>3. \A v \in Spender : Recording(v)' => spender'[v].bill \in Bill
    BY <2>1 DEF SpendTypeOK, Recording, AtRest
  <2> QED BY <2>1, <2>2, <2>3, AtRestType DEF SpendTypeOK
<1>6. CASE UNCHANGED spendVars
  BY <1>6 DEF spendVars, SpendTypeOK, Recording
<1> QED
  BY <1>1, <1>2, <1>3, <1>4, <1>5, <1>6 DEF SpendNext, RecordNext

\* The two files hold a list of bills or what is left of one, and a thread
\* that records has a bill.
THEOREM SpendTypeCorrect == SpendSpec => []SpendTypeOK
  BY SpendTypeInit, SpendTypeStep, PTL DEF SpendSpec

-----------------------------------------------------------------------------
(* The spend ledger: one recording at a time *)

\* While recordings have never overlapped, there is at most one; with the bill
\* it adds, what it read is all that was spent, and from the moment it opens
\* the temporary file that file is its own.
SoloInv ==
  ~overlapped =>
    /\ \A v, w \in Spender : Recording(v) /\ Recording(w) => v = w
    /\ (\A w \in Spender : ~Recording(w)) => Readable(spendFile) = issued
    /\ \A w \in Spender :
         /\ Recording(w) => spender[w].read \cup {spender[w].bill} = issued
         /\ spender[w].pc = "open" => tmpFile = Empty /\ spender[w].fd = "tmp"
         /\ spender[w].pc = "written" => tmpFile = issued

LEMMA SoloInit == SpendInit => SoloInv
<1> SUFFICES ASSUME SpendInit PROVE SoloInv
  OBVIOUS
<1>1. \A w \in Spender : spender[w].pc = "rest"
  BY DEF SpendInit, AtRest
<1>2. Readable(spendFile) = issued
  BY DEF SpendInit, Readable
<1> QED BY <1>1, <1>2 DEF SoloInv, Recording

LEMMA SoloStep == SpendTypeOK /\ SoloInv /\ [SpendNext]_spendVars => SoloInv'
<1> SUFFICES ASSUME SpendTypeOK, SoloInv, [SpendNext]_spendVars, ~overlapped'
             PROVE  SoloInv'
  BY DEF SoloInv
<1>1. ASSUME NEW w \in Spender, NEW b \in Bill, RecordRead(w, b)
      PROVE  SoloInv'
  <2>1. ~overlapped /\ \A v \in Spender : ~Recording(v)
    BY <1>1 DEF RecordRead
  <2>2. Readable(spendFile) = issued
    BY <2>1 DEF SoloInv
  <2> DEFINE r == [AtRest EXCEPT !.pc = "read", !.bill = b, !.read = Readable(spendFile)]
  <2>3. r.pc = "read" /\ r.read \cup {r.bill} = issued'
    BY <1>1, <2>2 DEF RecordRead, AtRest
  <2>4. \A v \in Spender : spender'[v] = IF v = w THEN r ELSE spender[v]
    BY <1>1 DEF RecordRead, SpendTypeOK
  <2> HIDE DEF r
  <2> QED BY <2>1, <2>3, <2>4 DEF SoloInv, Recording
<1>2. ASSUME NEW w \in Spender, RecordOpen(w)
      PROVE  SoloInv'
  <2>1. ~overlapped /\ Recording(w) /\ \A v \in Spender : Recording(v) => v = w
    BY <1>2 DEF RecordOpen, SoloInv, Recording
  <2> DEFINE r == [spender[w] EXCEPT !.pc = "open", !.fd = "tmp"]
  <2>2. /\ r.pc = "open" /\ r.fd = "tmp"
        /\ r.read = spender[w].read /\ r.bill = spender[w].bill
    BY DEF SpendTypeOK, SpenderState
  <2>3. \A v \in Spender : spender'[v] = IF v = w THEN r ELSE spender[v]
    BY <1>2 DEF RecordOpen, SpendTypeOK
  <2>4. tmpFile' = Empty /\ issued' = issued
    BY <1>2 DEF RecordOpen
  <2> HIDE DEF r
  <2> QED BY <2>1, <2>2, <2>3, <2>4 DEF SoloInv, Recording
<1>3. ASSUME NEW w \in Spender, RecordWrite(w)
      PROVE  SoloInv'
  <2>1. ~overlapped /\ Recording(w) /\ \A v \in Spender : Recording(v) => v = w
    BY <1>3 DEF RecordWrite, SoloInv, Recording
  <2> DEFINE r == [spender[w] EXCEPT !.pc = "written"]
  <2>2. r.pc = "written" /\ r.read = spender[w].read /\ r.bill = spender[w].bill
    BY DEF SpendTypeOK, SpenderState
  <2>3. \A v \in Spender : spender'[v] = IF v = w THEN r ELSE spender[v]
    BY <1>3 DEF RecordWrite, SpendTypeOK
  <2>4. tmpFile = Empty /\ spender[w].fd = "tmp"
    BY <1>3, <2>1 DEF RecordWrite, SoloInv
  <2>5. tmpFile' = spender[w].read \cup {spender[w].bill} /\ issued' = issued
    BY <1>3, <2>4 DEF RecordWrite, Overwrite
  <2> HIDE DEF r
  <2> QED BY <2>1, <2>2, <2>3, <2>5 DEF SoloInv, Recording
<1>4. ASSUME NEW w \in Spender, RecordReplace(w)
      PROVE  SoloInv'
  <2>1. ~overlapped /\ Recording(w) /\ \A v \in Spender : Recording(v) => v = w
    BY <1>4 DEF RecordReplace, SoloInv, Recording
  <2>2. spendFile' = issued /\ issued' = issued /\ issued \in SUBSET Bill
    BY <1>4, <2>1 DEF RecordReplace, SoloInv, SpendTypeOK
  <2>3. Readable(spendFile)' = issued'
    BY <2>2, ReadableText
  <2>4. \A v \in Spender : spender'[v].pc = "rest"
    <3>1. \A v \in Spender : v # w => spender[v].pc = "rest"
      BY <2>1 DEF Recording
    <3>2. \A v \in Spender : [spender[v] EXCEPT !.fd = Renamed(@)].pc = spender[v].pc
      BY DEF SpendTypeOK, SpenderState
    <3> QED BY <1>4, <3>1, <3>2 DEF RecordReplace, AtRest
  <2> QED BY <2>3, <2>4 DEF SoloInv, Recording
<1>5. ASSUME NEW w \in Spender, RecordRaises(w)
      PROVE  FALSE
  <2>1. tmpFile = issued /\ issued \in SUBSET Bill /\ tmpFile = Missing
    BY <1>5 DEF RecordRaises, SoloInv, SpendTypeOK
  <2> QED BY <2>1, ReadableText
<1>6. ASSUME NEW w \in Spender, RecordCut(w)
      PROVE  FALSE
  BY <1>6 DEF RecordCut
<1>7. CASE UNCHANGED spendVars
  BY <1>7 DEF spendVars, SoloInv, Recording
<1> QED
  BY <1>1, <1>2, <1>3, <1>4, <1>5, <1>6, <1>7 DEF SpendNext, RecordNext

LEMMA SoloExact == SpendTypeOK /\ SoloInv => ExactUnlessOverlapped
<1> SUFFICES ASSUME SpendTypeOK, SoloInv, ~overlapped,
                    NEW w \in Spender, spender[w].pc = "written"
             PROVE  tmpFile # Missing
  BY DEF ExactUnlessOverlapped, SoloInv
<1>1. tmpFile = issued /\ issued \in SUBSET Bill
  BY DEF SoloInv, SpendTypeOK
<1> QED BY <1>1, ReadableText

\* As long as no two recordings ever overlapped and none was cut short, the
\* spend ledger accounts for every cost and no recording raises.
THEOREM SpendIsExact == SpendSpec => []ExactUnlessOverlapped
<1>1. SpendInit => SpendTypeOK /\ SoloInv
  BY SpendTypeInit, SoloInit
<1>2. SpendTypeOK /\ SoloInv /\ [SpendNext]_spendVars => SpendTypeOK' /\ SoloInv'
  BY SpendTypeStep, SoloStep
<1> QED BY <1>1, <1>2, SoloExact, PTL DEF SpendSpec

-----------------------------------------------------------------------------
(* The fleet: its steps in terms of the two ledgers *)

\* A step of the fleet is a step of the job ledger or leaves it alone, unless
\* the dispatcher is killed.
LEMMA FleetOnJobs ==
  ASSUME [Next]_fleetVars
  PROVE  [LedgerNext]_ledgerVars \/ Crash
<1> USE FleetAssumption
<1>1. CASE Start
  BY <1>1 DEF Start
<1>2. CASE LoopNext
  BY <1>2 DEF LoopNext, SelectWave, Stop, JoinWave, LoopSyncs, NextWave, LedgerNext, SyncNext
<1>3. ASSUME NEW j \in Job, ThreadNext(j) \/ ThreadRaises(j)
      PROVE  [LedgerNext]_ledgerVars
  BY <1>3 DEF ThreadNext, ThreadChecks, ThreadRefuses, ThreadClaims, WorkerExits, ThreadRecords,
              RecordingFails, ThreadJudges, ThreadReports, ThreadRaises, LedgerNext, WorkerNext
<1>4. CASE SessionSyncs
  BY <1>4 DEF SessionSyncs, LedgerNext, SyncNext
<1>5. CASE World
  BY <1>5 DEF World, LedgerNext
<1>6. CASE UNCHANGED fleetVars
  BY <1>6 DEF fleetVars
<1> QED BY <1>1, <1>2, <1>3, <1>4, <1>5, <1>6 DEF Next

\* The same of the spend ledger.
LEMMA FleetOnSpend ==
  ASSUME [Next]_fleetVars
  PROVE  [SpendNext]_spendVars \/ Crash
<1> USE FleetAssumption
<1>1. CASE Start
  BY <1>1 DEF Start
<1>2. CASE LoopNext
  BY <1>2 DEF LoopNext, SelectWave, Stop, JoinWave, LoopSyncs, NextWave
<1>3. ASSUME NEW j \in Job, ThreadNext(j) \/ ThreadRaises(j)
      PROVE  [SpendNext]_spendVars
  BY <1>3 DEF ThreadNext, ThreadChecks, ThreadRefuses, ThreadClaims, WorkerExits, ThreadRecords,
              RecordingFails, ThreadJudges, ThreadReports, ThreadRaises, SpendNext, RecordNext
<1>4. CASE SessionSyncs
  BY <1>4 DEF SessionSyncs
<1>5. CASE World
  BY <1>5 DEF World
<1>6. CASE UNCHANGED fleetVars
  BY <1>6 DEF fleetVars
<1> QED BY <1>1, <1>2, <1>3, <1>4, <1>5, <1>6 DEF Next

-----------------------------------------------------------------------------
(* The fleet: what the ledgers keep *)

LEMMA NoSyncType == NoSync \in [Job -> Entry]
  BY AbsentIsEntry DEF NoSync

\* A killed dispatcher leaves no thread, no pending event and no recording.
LEMMA CrashLedger ==
  ASSUME LedgerTypeOK, Crash
  PROVE  LedgerTypeOK'
<1> USE FleetAssumption
<1>1. worker' = [j \in Job |-> Idle] /\ sync' = [s \in Syncer |-> NoSync] /\ lost' \subseteq Job
  BY DEF Crash, LedgerTypeOK
<1>2. UNCHANGED <<ledger, evidence, today, charged>>
  BY DEF Crash
<1> QED BY <1>1, <1>2, IdleIsRunner, NoSyncType DEF LedgerTypeOK, Idle

LEMMA CrashSpend ==
  ASSUME SpendTypeOK, Crash
  PROVE  SpendTypeOK'
<1> USE FleetAssumption
<1>1. spender' = [j \in Job |-> AtRest] /\ UNCHANGED <<spendFile, tmpFile, issued>>
  BY DEF Crash
<1>2. overlapped' \in BOOLEAN
  BY DEF Crash, SpendTypeOK
<1> QED BY <1>1, <1>2, AtRestType DEF SpendTypeOK, Recording, AtRest

LEMMA CrashAttempts ==
  ASSUME LedgerTypeOK, AttemptInv, Crash
  PROVE  AttemptInv'
<1> USE FleetAssumption
<1>1. worker' = [j \in Job |-> Idle] /\ sync' = [s \in Syncer |-> NoSync]
  BY DEF Crash
<1>2. UNCHANGED <<ledger, charged>>
  BY DEF Crash
<1>3. \A s \in Syncer, j \in Job : sync'[s][j].attempt = 0
  BY <1>1 DEF NoSync, Absent
<1>4. \A j \in Job : worker'[j].attempt = 0 /\ worker'[j].pc = "idle"
  BY <1>1 DEF Idle
<1>5. \A j \in Job : 0 <= charged[j] + 1
  BY DEF LedgerTypeOK
<1> QED
  BY <1>2, <1>3, <1>4, <1>5, JobLedgerAssumption
     DEF AttemptInv, OnlyFailuresConsumeAttempts, AttemptsWithinPolicy, PendingAttempts,
         RunnerAttempts

\* While no recordings overlapped, there was none to cut short.
LEMMA CrashSolo ==
  ASSUME SpendTypeOK, SoloInv, Crash
  PROVE  SoloInv'
<1> USE FleetAssumption
<1> SUFFICES ASSUME ~overlapped' PROVE SoloInv'
  BY DEF SoloInv
<1>1. ~overlapped /\ \A j \in Job : ~Recording(j)
  BY DEF Crash
<1>2. Readable(spendFile)' = issued'
  BY <1>1 DEF SoloInv, Crash
<1>3. \A j \in Job : spender'[j].pc = "rest"
  BY DEF Crash, AtRest
<1> QED BY <1>2, <1>3 DEF SoloInv, Recording

-----------------------------------------------------------------------------
(* The fleet: threads and the loop *)

\* Thread j works on job j, during a wave, and finds it as it left it: open
\* until it is reported, and failed until the follow-up, on the attempt the
\* update read.
ThreadInv ==
  \A j \in Job :
    /\ worker[j].pc # "idle" => worker[j].job = j /\ phase = "wave"
    /\ worker[j].pc \in {"checked", "claimed", "judged"} => ledger[j].state \in Open
    /\ worker[j].pc \in {"judged", "followup"} => worker[j].attempt = ledger[j].attempt
    /\ worker[j].pc = "followup" => ledger[j].state = "failed"

\* An event of a sync drops the job as the ledger has it, or opens one that is
\* not open for evidence it was not settled for.
Due(e, event) ==
  \/ e.state \in Open /\ event = [e EXCEPT !.state = "dropped"]
  \/ /\ e.state \notin Open
     /\ \E g \in Gen : event = Queued(g) /\ (e.state \in Settled => e.gen # g)

\* A wave meets no pending sync, and nobody else writes while one is pending.
LoopInv ==
  /\ phase \in {"select", "wave"} => sync[Main] = NoSync
  /\ \A j \in Job : sync[Main][j] # Absent => Due(ledger[j], sync[Main][j])

FleetInv == LedgerTypeOK /\ AttemptInv /\ ThreadInv /\ LoopInv

LEMMA FleetInvInit == Init => FleetInv
<1> SUFFICES ASSUME Init PROVE FleetInv
  OBVIOUS
<1>1. LedgerTypeOK /\ AttemptInv
  BY TypeInit, AttemptInit DEF Init
<1>2. ThreadInv
  BY FleetAssumption DEF Init, LedgerInit, ThreadInv, Idle
<1>3. LoopInv
  BY FleetAssumption DEF Init, LedgerInit, LoopInv, NoSync
<1> QED BY <1>1, <1>2, <1>3 DEF FleetInv

\* What a sync decides is due when it decides it.
LEMMA DecisionIsDue ==
  ASSUME LedgerTypeOK, NEW j \in Job, Decision[j] # Absent
  PROVE  Due(ledger[j], Decision[j])
<1>1. CASE j \in Stale
  BY <1>1 DEF Decision, Stale, Due
<1>2. CASE j \notin Stale
  <2>1. j \in Admitted /\ Decision[j] = Queued(evidence[j])
    BY <1>2 DEF Decision
  <2>2. j \in Reopenable
    BY <2>1 DEF Admitted
  <2>3. evidence[j] \in Gen
    BY <2>2 DEF Reopenable, LedgerTypeOK, Hash
  <2> QED BY <2>1, <2>2, <2>3 DEF Reopenable, Due
<1> QED BY <1>1, <1>2

LEMMA ReadingKeepsLoop ==
  ASSUME FleetInv, SyncRead(Main), phase' \notin {"select", "wave"}
  PROVE  LoopInv'
<1>1. sync'[Main] = Decision /\ ledger' = ledger
  BY FleetAssumption DEF SyncRead, FleetInv, LedgerTypeOK
<1>2. \A j \in Job : Decision[j] # Absent => Due(ledger[j], Decision[j])
  BY DecisionIsDue DEF FleetInv
<1> QED BY <1>1, <1>2 DEF LoopInv

\* An event of a sync touches its job only, and is then no longer pending.
LEMMA AppendingKeepsLoop ==
  ASSUME FleetInv, NEW j \in Job, SyncAppend(Main, j), phase' \notin {"select", "wave"}
  PROVE  LoopInv'
<1>1. \A k \in Job : k # j => ledger'[k] = ledger[k] /\ sync'[Main][k] = sync[Main][k]
  BY FleetAssumption DEF SyncAppend, Append, FleetInv, LedgerTypeOK
<1>2. sync'[Main][j] = Absent
  BY FleetAssumption DEF SyncAppend, FleetInv, LedgerTypeOK
<1> QED BY <1>1, <1>2 DEF FleetInv, LoopInv

\* No thread is at work outside a wave.
LEMMA OutsideWave ==
  ASSUME FleetInv, phase # "wave", worker' = worker
  PROVE  ThreadInv'
  BY DEF FleetInv, ThreadInv

\* What the invariant says of one thread, and that a step of one is its own.
LEMMA OneThread ==
  ASSUME FleetInv, phase' = "wave", NEW j \in Job,
         \A k \in Job \ {j} : worker'[k] = worker[k] /\ ledger'[k] = ledger[k],
         \/ worker'[j].pc = "idle"
         \/ worker'[j].pc = "checked" /\ worker'[j].job = j /\ ledger'[j].state \in Open
         \/ worker'[j].pc = "claimed" /\ worker'[j].job = j /\ ledger'[j].state \in Open
         \/ /\ worker'[j].pc = "judged" /\ worker'[j].job = j /\ ledger'[j].state \in Open
            /\ worker'[j].attempt = ledger'[j].attempt
         \/ /\ worker'[j].pc = "followup" /\ worker'[j].job = j /\ ledger'[j].state = "failed"
            /\ worker'[j].attempt = ledger'[j].attempt
         \/ worker'[j] = worker[j] /\ ledger'[j] = ledger[j]
  PROVE  ThreadInv'
<1> SUFFICES ASSUME NEW k \in Job
             PROVE
    /\ worker'[k].pc # "idle" => worker'[k].job = k /\ phase' = "wave"
    /\ worker'[k].pc \in {"checked", "claimed", "judged"} => ledger'[k].state \in Open
    /\ worker'[k].pc \in {"judged", "followup"} => worker'[k].attempt = ledger'[k].attempt
    /\ worker'[k].pc = "followup" => ledger'[k].state = "failed"
  BY DEF ThreadInv
<1>1. CASE k # j
  BY <1>1 DEF FleetInv, ThreadInv
<1>2. CASE k = j
  BY <1>2 DEF FleetInv, ThreadInv
<1> QED BY <1>1, <1>2

LEMMA ThreadStep ==
  ASSUME FleetInv, NEW j \in Job, ThreadNext(j) \/ ThreadRaises(j)
  PROVE  ThreadInv' /\ LoopInv'
<1> USE FleetAssumption
<1>0. /\ worker \in [Job -> RunnerState] /\ ledger \in [Job -> Entry]
      /\ worker[j].pc # "idle" => worker[j].job = j
  BY DEF FleetInv, LedgerTypeOK, ThreadInv
<1>1. phase = "wave" /\ phase' = "wave" /\ sync' = sync
  BY DEF ThreadNext, ThreadChecks, ThreadRefuses, ThreadClaims, WorkerExits, ThreadRecords,
         RecordingFails, ThreadJudges, ThreadReports, ThreadRaises, Thread, loopVars, ledgerVars,
         Check, Refuse, Claim, Judge, Report, FollowUp, Abandon
<1>2. LoopInv'
  BY <1>1 DEF FleetInv, LoopInv, NoSync
<1>3. CASE UNCHANGED ledgerVars
  <2>1. worker' = worker /\ ledger' = ledger
    BY <1>3 DEF ledgerVars
  <2>2. ThreadInv'
    BY <1>1, <2>1 DEF FleetInv, ThreadInv
  <2> QED BY <1>2, <2>2
<1>4. CASE Check(j, j)
  <2>1. worker'[j].pc = "checked" /\ worker'[j].job = j /\ ledger' = ledger
    BY <1>0, <1>4 DEF Check, Idle
  <2>2. \A k \in Job \ {j} : worker'[k] = worker[k]
    BY <1>0, <1>4 DEF Check
  <2>3. ledger[j].state \in Open
    BY <1>4 DEF Check, Open
  <2> QED BY <1>1, <1>2, <2>1, <2>2, <2>3, OneThread
<1>5. CASE Refuse(j) \/ Abandon(j)
  <2>1. worker'[j].pc = "idle" /\ ledger' = ledger
    BY <1>0, <1>5 DEF Refuse, Abandon, Idle
  <2>2. \A k \in Job \ {j} : worker'[k] = worker[k]
    BY <1>0, <1>5 DEF Refuse, Abandon
  <2> QED BY <1>1, <1>2, <2>1, <2>2, OneThread
<1>6. CASE Claim(j)
  <2>1. worker'[j].pc = "claimed" /\ worker'[j].job = j
    BY <1>0, <1>6 DEF Claim, RunnerState
  <2>2. \A k \in Job \ {j} : worker'[k] = worker[k] /\ ledger'[k] = ledger[k]
    BY <1>0, <1>6 DEF Claim, To, Append
  <2>3. ledger'[j].state \in Open
    <3>1. ledger[j].state \in Open
      BY <1>6 DEF Claim, FleetInv, ThreadInv
    <3> QED BY <1>0, <1>6, <3>1 DEF Claim, To, Append, Open, Entry
  <2> QED BY <1>1, <1>2, <2>1, <2>2, <2>3, OneThread
<1>7. ASSUME NEW o \in Outcome, Judge(j, o)
      PROVE  ThreadInv'
  <2> DEFINE e == [worker[j] EXCEPT !.pc = "judged", !.outcome = o, !.attempt = ledger[j].attempt]
  <2>0. worker[j] \in RunnerState /\ worker[j].job = j
    BY <1>0, <1>7 DEF Judge
  <2>1. e.pc = "judged" /\ e.job = j /\ e.attempt = ledger[j].attempt
    BY <2>0 DEF RunnerState
  <2>2. worker' = [worker EXCEPT ![j] = e] /\ ledger' = ledger
    BY <1>0, <1>7 DEF Judge
  <2>3. ledger[j].state \in Open
    BY <1>7 DEF Judge, FleetInv, ThreadInv
  <2> HIDE DEF e
  <2>4. worker'[j] = e /\ \A k \in Job \ {j} : worker'[k] = worker[k]
    BY <1>0, <2>2
  <2> QED BY <1>1, <2>1, <2>2, <2>3, <2>4, OneThread
<1>8. CASE Report(j)
  <2>1. \A k \in Job \ {j} : worker'[k] = worker[k] /\ ledger'[k] = ledger[k]
    BY <1>0, <1>8 DEF Report, To, Append
  <2>2. CASE worker' = [worker EXCEPT ![j] = Idle]
    BY <1>0, <1>1, <1>2, <2>1, <2>2, OneThread DEF Idle
  <2>3. CASE To(j, "failed") /\ worker' = [worker EXCEPT ![j].pc = "followup"]
    <3>1. worker'[j].pc = "followup" /\ worker'[j].job = j
      BY <1>0, <1>8, <2>3 DEF Report, RunnerState
    <3>2. ledger'[j].state = "failed" /\ ledger'[j].attempt = ledger[j].attempt
      BY <1>0, <2>3 DEF To, Append, Entry
    <3>3. worker'[j].attempt = ledger[j].attempt
      BY <1>0, <1>8, <2>3 DEF Report, RunnerState, FleetInv, ThreadInv
    <3> QED BY <1>1, <1>2, <2>1, <3>1, <3>2, <3>3, OneThread
  <2> QED BY <1>0, <1>8, <2>2, <2>3 DEF Report
<1>9. CASE FollowUp(j)
  <2>1. worker'[j].pc = "idle"
    BY <1>0, <1>9 DEF FollowUp, Idle
  <2>2. \A k \in Job \ {j} : worker'[k] = worker[k] /\ ledger'[k] = ledger[k]
    BY <1>0, <1>9 DEF FollowUp, Append
  <2> QED BY <1>1, <1>2, <2>1, <2>2, OneThread
<1> QED
  BY <1>2, <1>3, <1>4, <1>5, <1>6, <1>7, <1>8, <1>9
     DEF ThreadNext, ThreadChecks, ThreadRefuses, ThreadClaims, WorkerExits, ThreadRecords,
         RecordingFails, ThreadJudges, ThreadReports, ThreadRaises

LEMMA FleetInvStep == FleetInv /\ [Next]_fleetVars => FleetInv'
<1> SUFFICES ASSUME FleetInv, [Next]_fleetVars
             PROVE  FleetInv'
  OBVIOUS
<1> USE FleetAssumption
<1>1. CASE Crash
  <2>1. worker' = [j \in Job |-> Idle] /\ sync' = [s \in Syncer |-> NoSync] /\ phase' = "off"
    BY <1>1 DEF Crash
  <2>2. ThreadInv' /\ LoopInv'
    BY <2>1 DEF ThreadInv, LoopInv, Idle, NoSync
  <2> QED BY <1>1, <2>2, CrashLedger, CrashAttempts DEF FleetInv
<1>2. CASE ~Crash
  <2>1. LedgerTypeOK' /\ AttemptInv'
    BY <1>2, FleetOnJobs, TypeStep, AttemptStep DEF FleetInv
  <2>2. CASE Start \/ SelectWave \/ Stop \/ NextWave
    <3>1. UNCHANGED ledgerVars
      BY <2>2 DEF Start, SelectWave, Stop, NextWave
    <3>2. sync[Main] = NoSync
      BY <2>2 DEF Start, SelectWave, Stop, NextWave, FleetInv, LoopInv
    <3>3. phase # "wave"
      BY <2>2 DEF Start, SelectWave, Stop, NextWave
    <3> QED BY <2>1, <3>1, <3>2, <3>3, OutsideWave DEF ledgerVars, FleetInv, LoopInv
  <2>3. CASE JoinWave
    <3>1. ThreadInv'
      BY <2>3 DEF JoinWave, SyncRead, ThreadInv, Idle
    <3> QED BY <2>1, <2>3, <3>1, ReadingKeepsLoop DEF JoinWave, FleetInv
  <2>4. CASE LoopSyncs \/ SessionSyncs
    <3>1. phase = phase' /\ phase \in {"off", "sync"} /\ worker' = worker
      BY <2>4 DEF LoopSyncs, SessionSyncs, loopVars, SyncRead, SyncAppend
    <3>2. SyncRead(Main) \/ \E j \in Job : SyncAppend(Main, j)
      BY <2>4 DEF LoopSyncs, SessionSyncs
    <3> QED
      BY <2>1, <3>1, <3>2, OutsideWave, ReadingKeepsLoop, AppendingKeepsLoop DEF FleetInv
  <2>5. ASSUME NEW j \in Job, ThreadNext(j) \/ ThreadRaises(j)
        PROVE  FleetInv'
    BY <2>1, <2>5, ThreadStep DEF FleetInv
  <2>6. CASE World \/ UNCHANGED fleetVars
    <3>1. UNCHANGED <<ledger, worker, sync, phase>>
      BY <2>6 DEF World, fleetVars, loopVars, ledgerVars, Midnight, EvidenceChanges
    <3> QED BY <2>1, <3>1 DEF FleetInv, ThreadInv, LoopInv
  <2> QED BY <1>2, <2>2, <2>3, <2>4, <2>5, <2>6 DEF Next, LoopNext
<1> QED BY <1>1, <1>2

-----------------------------------------------------------------------------
(* The fleet: what carries over from the ledgers *)

\* Every job a killed thread kept in a transient state is one that was lost.
LEMMA CrashStuck ==
  ASSUME FleetInv, StuckInv, Crash
  PROVE  StuckInv'
<1> USE FleetAssumption
<1>1. ASSUME NEW j \in Job \ lost', ledger'[j].state \in {"running", "failed"}
      PROVE  FALSE
  <2>1. j \in Job \ lost /\ ledger[j].state \in {"running", "failed"}
    BY <1>1 DEF Crash
  <2>2. PICK w \in Job : worker[w].job = j /\ worker[w].pc \in {"claimed", "judged", "followup"}
    BY <2>1 DEF StuckInv, StuckMeansAbandoned
  <2>3. w = j
    BY <2>2 DEF FleetInv, ThreadInv
  <2> QED BY <1>1, <2>2, <2>3 DEF Crash
<1>2. PendingStates'
  BY DEF Crash, PendingStates, NoSync
<1> QED BY <1>1, <1>2 DEF StuckInv, StuckMeansAbandoned

\* In a fleet too a job sticks only where a process died or a command was lost,
\* and an attempt is consumed only by a failure that was meant to count: a
\* dispatcher killed with its threads, between any two of their appends, adds
\* nothing to what its jobs remember.
THEOREM FleetKeepsLedger == Spec => [](StuckMeansAbandoned /\ OnlyFailuresConsumeAttempts)
<1> DEFINE Inv == FleetInv /\ StuckInv
<1>1. Init => Inv
  BY FleetInvInit, StuckInit DEF Init
<1>2. Inv /\ [Next]_fleetVars => Inv'
  <2> SUFFICES ASSUME Inv, [Next]_fleetVars PROVE Inv'
    OBVIOUS
  <2>1. FleetInv'
    BY FleetInvStep
  <2>2. CASE Crash
    BY <2>1, <2>2, CrashStuck
  <2>3. CASE [LedgerNext]_ledgerVars
    <3>1. LedgerTypeOK
      BY DEF FleetInv
    <3>2. StuckMeansAbandoned' /\ PendingStates'
      BY <2>3, <3>1, StuckStep, PendingStep DEF StuckInv
    <3> QED BY <2>1, <3>2 DEF StuckInv
  <2> QED BY <2>2, <2>3, FleetOnJobs
<1>3. Inv => StuckMeansAbandoned /\ OnlyFailuresConsumeAttempts
  BY DEF StuckInv, FleetInv, AttemptInv
<1> QED BY <1>1, <1>2, <1>3, PTL DEF Spec

\* The same of the spend ledger: for any wave of threads, across kills and
\* restarts of the dispatcher, it is exact until two recordings overlap or one
\* is cut short.
THEOREM FleetSpendIsExact == Spec => []ExactUnlessOverlapped
<1> DEFINE Inv == SpendTypeOK /\ SoloInv
<1>1. Init => Inv
  BY SpendTypeInit, SoloInit DEF Init
<1>2. Inv /\ [Next]_fleetVars => Inv'
  BY FleetOnSpend, SpendTypeStep, SoloStep, CrashSpend, CrashSolo
<1>3. Inv => ExactUnlessOverlapped
  BY SoloExact
<1> QED BY <1>1, <1>2, <1>3, PTL DEF Spec

-----------------------------------------------------------------------------
(* The fleet implements the lifecycle of a job *)

\* The phase a state of the ledger stands for.
PhaseOf(state) ==
  CASE state = "absent" -> "none"
    [] state \in Open   -> "open"
    [] OTHER            -> state

Tries == [j \in Job |-> ledger[j].attempt]
Causes == [j \in Job |-> ledger[j].gen]

LEMMA PhaseIs ==
  ASSUME NEW state
  PROVE  PhaseOf(state) = IF state = "absent" THEN "none"
                          ELSE IF state \in {"queued", "running"} THEN "open" ELSE state
  BY DEF PhaseOf, Open

LEMMA LifePhaseIs == LifePhase = [j \in Job |-> PhaseOf(ledger[j].state)]
  BY DEF LifePhase, PhaseOf

\* One event changes the phase, the attempts and the cause of its job.
LEMMA EventMoves ==
  ASSUME ledger \in [Job -> Entry], NEW j \in Job, NEW e \in Entry,
         ledger' = [ledger EXCEPT ![j] = e]
  PROVE  /\ LifePhase' = [LifePhase EXCEPT ![j] = PhaseOf(e.state)]
         /\ Tries' = [Tries EXCEPT ![j] = e.attempt]
         /\ Causes' = [Causes EXCEPT ![j] = e.gen]
<1>1. \A k \in Job : ledger'[k] = IF k = j THEN e ELSE ledger[k]
  OBVIOUS
<1>2. LifePhase' = [k \in Job |-> PhaseOf(ledger'[k].state)]
  BY DEF LifePhase, PhaseOf
<1>3. LifePhase' = [LifePhase EXCEPT ![j] = PhaseOf(e.state)]
  BY <1>1, <1>2, LifePhaseIs
<1> QED BY <1>1, <1>3 DEF Tries, Causes

\* The same, of an event that leaves the attempt or the cause as it was.
LEMMA FieldStays ==
  ASSUME NEW j \in Job
  PROVE  /\ [Tries EXCEPT ![j] = ledger[j].attempt] = Tries
         /\ [Causes EXCEPT ![j] = ledger[j].gen] = Causes
         /\ [LifePhase EXCEPT ![j] = PhaseOf(ledger[j].state)] = LifePhase
  BY LifePhaseIs DEF Tries, Causes

LEMMA LifeInitially == Init => Life!LifeInit
<1> SUFFICES ASSUME Init PROVE Life!LifeInit
  OBVIOUS
<1>1. ledger = [j \in Job |-> Absent]
  BY DEF Init, LedgerInit
<1>2. Absent.state = "absent" /\ Absent.attempt = 0 /\ Absent.gen = NoGen
  BY DEF Absent
<1>3. \A j \in Job : PhaseOf(ledger[j].state) = "none" /\ ledger[j].attempt = 0 /\ ledger[j].gen = NoGen
  BY <1>1, <1>2, PhaseIs
<1> QED BY <1>3, LifePhaseIs DEF Life!LifeInit

\* The lifecycle of the entry of one job.
LEMMA EntryPhase ==
  ASSUME ledger \in [Job -> Entry], NEW j \in Job
  PROVE  /\ LifePhase[j] = PhaseOf(ledger[j].state)
         /\ ledger[j].state \in Open => LifePhase[j] = "open"
         /\ ledger[j].state = "failed" => LifePhase[j] = "failed"
         /\ ledger[j].state \notin Open =>
              LifePhase[j] \in {"none", "failed", "done", "parked", "dropped"}
         /\ LifePhase[j] \in {"done", "parked", "dropped"} => ledger[j].state \in Settled
<1>1. LifePhase[j] = PhaseOf(ledger[j].state) /\ ledger[j].state \in State
  BY LifePhaseIs DEF Entry
<1> QED BY <1>1, PhaseIs DEF Open, Settled, State

LEMMA LifeStutters ==
  ASSUME ledger' = ledger
  PROVE  UNCHANGED Life!lifeVars
<1>1. LifePhase' = LifePhase
  BY DEF LifePhase
<1> QED BY <1>1 DEF Life!lifeVars

\* A sync opens a job.
LEMMA LifeOpens ==
  ASSUME ledger \in [Job -> Entry], NEW j \in Job, NEW g \in Gen,
         ledger' = [ledger EXCEPT ![j] = Queued(g)],
         ledger[j].state \notin Open, ledger[j].state \in Settled => ledger[j].gen # g
  PROVE  Life!LifeNext
<1>1. Queued(g) \in Entry /\ Queued(g).state = "queued" /\ Queued(g).attempt = 1 /\ Queued(g).gen = g
  BY DEF Queued, Entry, State, Hash
<1>2. /\ LifePhase' = [LifePhase EXCEPT ![j] = PhaseOf("queued")]
      /\ Tries' = [Tries EXCEPT ![j] = 1]
      /\ Causes' = [Causes EXCEPT ![j] = g]
  <2> DEFINE e == Queued(g)
  <2>1. e \in Entry /\ e.state = "queued" /\ e.attempt = 1 /\ e.gen = g /\ ledger' = [ledger EXCEPT ![j] = e]
    BY <1>1
  <2> HIDE DEF e
  <2>2. /\ LifePhase' = [LifePhase EXCEPT ![j] = PhaseOf(e.state)]
        /\ Tries' = [Tries EXCEPT ![j] = e.attempt]
        /\ Causes' = [Causes EXCEPT ![j] = e.gen]
    BY <2>1, EventMoves
  <2> QED BY <2>1, <2>2
<1>3. PhaseOf("queued") = "open"
  BY PhaseIs
<1>4. \/ LifePhase[j] \in {"none", "failed"}
      \/ LifePhase[j] \in {"done", "parked", "dropped"} /\ g # Causes[j]
  BY EntryPhase DEF Causes
<1>5. Life!Opened(j, g)
  BY <1>2, <1>3, <1>4 DEF Life!Opened, Tries, Causes
<1> QED BY <1>5 DEF Life!LifeNext

\* A transition of an open job.
LEMMA LifeEnds ==
  ASSUME ledger \in [Job -> Entry], NEW j \in Job,
         NEW p \in {"running", "done", "parked", "dropped", "failed"},
         ledger' = [ledger EXCEPT ![j] = [ledger[j] EXCEPT !.state = p]],
         ledger[j].state \in Open
  PROVE  Life!LifeNext \/ UNCHANGED Life!lifeVars
<1> DEFINE e == [ledger[j] EXCEPT !.state = p]
<1>0. ledger' = [ledger EXCEPT ![j] = e]
  OBVIOUS
<1>1. /\ e \in Entry /\ e.state = p
      /\ e.attempt = ledger[j].attempt /\ e.gen = ledger[j].gen
  BY DEF Entry, State
<1> HIDE DEF e
<1>2. /\ LifePhase' = [LifePhase EXCEPT ![j] = PhaseOf(p)]
      /\ Tries' = Tries /\ Causes' = Causes
  <2>1. /\ LifePhase' = [LifePhase EXCEPT ![j] = PhaseOf(e.state)]
        /\ Tries' = [Tries EXCEPT ![j] = e.attempt]
        /\ Causes' = [Causes EXCEPT ![j] = e.gen]
    BY <1>0, <1>1, EventMoves
  <2> QED BY <1>1, <2>1, FieldStays
<1>3. CASE p = "running"
  <2>1. PhaseOf(p) = PhaseOf(ledger[j].state)
    BY <1>3, PhaseIs DEF Open
  <2>2. LifePhase' = LifePhase
    BY <1>2, <2>1, FieldStays
  <2> QED BY <1>2, <2>2 DEF Life!lifeVars, Tries, Causes
<1>4. CASE p # "running"
  <2>1. PhaseOf(p) = p
    BY <1>4, PhaseIs
  <2>2. Life!Ended(j)
    BY <1>2, <1>4, <2>1, EntryPhase DEF Life!Ended, Tries, Causes
  <2> QED BY <2>2 DEF Life!LifeNext
<1> QED BY <1>3, <1>4

\* What follows a failure.
LEMMA LifeGoesOn ==
  ASSUME ledger \in [Job -> Entry], NEW j \in Job, NEW o,
         ledger[j].state = "failed", ledger[j].attempt <= MaxAttempts,
         ledger' = [ledger EXCEPT ![j] = AfterFailure(ledger[j], o, ledger[j].attempt)]
  PROVE  Life!LifeNext
<1> DEFINE e == AfterFailure(ledger[j], o, ledger[j].attempt)
<1>1. ledger[j].attempt \in Nat /\ ledger[j] \in Entry
  BY DEF Entry
<1>2. e \in Entry
  BY <1>1, AfterFailureEntry
<1>3. \/ /\ e.state = "queued" /\ e.gen = ledger[j].gen
         /\ e.attempt \in {ledger[j].attempt, ledger[j].attempt + 1} /\ e.attempt <= MaxAttempts
      \/ /\ e.state = "parked" /\ e.gen = ledger[j].gen
         /\ e.attempt = ledger[j].attempt /\ ledger[j].attempt = MaxAttempts
  <2>1. CASE o = "infra"
    <3>1. e = [ledger[j] EXCEPT !.state = "queued", !.attempt = ledger[j].attempt]
      BY <2>1 DEF AfterFailure
    <3> QED BY <1>1, <3>1 DEF Entry
  <2>2. CASE o # "infra" /\ ledger[j].attempt < MaxAttempts
    <3>1. e = [ledger[j] EXCEPT !.state = "queued", !.attempt = ledger[j].attempt + 1]
      BY <2>2 DEF AfterFailure
    <3>2. e.state = "queued" /\ e.gen = ledger[j].gen /\ e.attempt = ledger[j].attempt + 1
      BY <1>1, <3>1 DEF Entry
    <3> QED BY <1>1, <2>2, <3>2, JobLedgerAssumption
  <2>3. CASE o # "infra" /\ ~(ledger[j].attempt < MaxAttempts)
    <3>1. e = [ledger[j] EXCEPT !.state = "parked"]
      BY <2>3 DEF AfterFailure
    <3>2. e.state = "parked" /\ e.gen = ledger[j].gen /\ e.attempt = ledger[j].attempt
      BY <1>1, <3>1 DEF Entry
    <3> QED BY <1>1, <2>3, <3>2, JobLedgerAssumption
  <2> QED BY <2>1, <2>2, <2>3
<1> HIDE DEF e
<1>4. /\ LifePhase' = [LifePhase EXCEPT ![j] = PhaseOf(e.state)]
      /\ Tries' = [Tries EXCEPT ![j] = e.attempt]
      /\ Causes' = [Causes EXCEPT ![j] = e.gen]
  BY <1>2, EventMoves DEF e
<1>5. Causes' = Causes
  BY <1>3, <1>4, FieldStays
<1>6. LifePhase[j] = "failed" /\ Tries[j] = ledger[j].attempt
  BY EntryPhase DEF Tries
<1>7. CASE e.state = "queued"
  <2>1. PhaseOf(e.state) = "open"
    BY <1>7, PhaseIs
  <2>2. e.attempt \in {Tries[j], Tries[j] + 1} /\ e.attempt <= MaxAttempts
    BY <1>3, <1>6, <1>7
  <2>3. Life!Retried(j)
    BY <1>4, <1>5, <1>6, <2>1, <2>2 DEF Life!Retried, Tries, Causes
  <2> QED BY <2>3 DEF Life!LifeNext
<1>8. CASE e.state = "parked"
  <2>1. PhaseOf(e.state) = "parked"
    BY <1>8, PhaseIs
  <2>2. Tries' = Tries /\ Tries[j] = MaxAttempts
    BY <1>3, <1>4, <1>6, <1>8, FieldStays
  <2>3. Life!Exhausted(j)
    BY <1>4, <1>5, <1>6, <2>1, <2>2 DEF Life!Exhausted, Tries, Causes
  <2> QED BY <2>3 DEF Life!LifeNext
<1> QED BY <1>3, <1>7, <1>8

\* A thread's step on the ledger is one of its job's lifecycle.
LEMMA LifeOfThread ==
  ASSUME FleetInv, NEW j \in Job, ThreadNext(j) \/ ThreadRaises(j)
  PROVE  [Life!LifeNext]_(Life!lifeVars)
<1> USE FleetAssumption
<1>0. /\ worker \in [Job -> RunnerState] /\ ledger \in [Job -> Entry]
      /\ worker[j].pc # "idle" => worker[j].job = j
  BY DEF FleetInv, LedgerTypeOK, ThreadInv
<1>1. CASE ledger' = ledger
  BY <1>1, LifeStutters
<1>2. ASSUME NEW p \in {"running", "done", "parked", "failed"}, To(j, p), ledger[j].state \in Open
      PROVE  [Life!LifeNext]_(Life!lifeVars)
  BY <1>0, <1>2, LifeEnds DEF To, Append
<1>3. CASE Claim(j)
  <2>1. ledger[j].state \in Open
    BY <1>3 DEF Claim, FleetInv, ThreadInv
  <2> QED BY <1>0, <1>1, <1>2, <1>3, <2>1 DEF Claim
<1>4. CASE Report(j)
  <2>1. ledger[j].state \in Open
    BY <1>4 DEF Report, FleetInv, ThreadInv
  <2> QED BY <1>0, <1>2, <1>4, <2>1 DEF Report
<1>5. CASE FollowUp(j)
  <2>1. ledger[j].state = "failed" /\ worker[j].attempt = ledger[j].attempt
    BY <1>5 DEF FollowUp, FleetInv, ThreadInv
  <2>2. ledger[j].attempt <= MaxAttempts
    BY DEF FleetInv, AttemptInv, AttemptsWithinPolicy
  <2>3. ledger' = [ledger EXCEPT ![j] = AfterFailure(ledger[j], worker[j].outcome, ledger[j].attempt)]
    BY <1>0, <1>5, <2>1 DEF FollowUp, Append
  <2> QED BY <1>0, <2>1, <2>2, <2>3, LifeGoesOn
<1>6. CASE UNCHANGED ledgerVars \/ Check(j, j) \/ Refuse(j) \/ Abandon(j) \/ \E o \in Outcome : Judge(j, o)
  BY <1>1, <1>6 DEF ledgerVars, Check, Refuse, Abandon, Judge
<1> QED
  BY <1>3, <1>4, <1>5, <1>6
     DEF ThreadNext, ThreadChecks, ThreadRefuses, ThreadClaims, WorkerExits, ThreadRecords,
         RecordingFails, ThreadJudges, ThreadReports, ThreadRaises

LEMMA LifeStep == FleetInv /\ [Next]_fleetVars => [Life!LifeNext]_(Life!lifeVars)
<1> SUFFICES ASSUME FleetInv, [Next]_fleetVars
             PROVE  [Life!LifeNext]_(Life!lifeVars)
  OBVIOUS
<1>1. CASE Start \/ SelectWave \/ Stop \/ NextWave \/ JoinWave \/ Crash \/ World \/ UNCHANGED fleetVars
  <2>1. ledger' = ledger
    BY <1>1 DEF Start, SelectWave, Stop, NextWave, JoinWave, SyncRead, Crash, World, Midnight,
                EvidenceChanges, fleetVars, ledgerVars
  <2> QED BY <2>1, LifeStutters
<1>2. ASSUME NEW j \in Job, ThreadNext(j) \/ ThreadRaises(j)
      PROVE  [Life!LifeNext]_(Life!lifeVars)
  BY <1>2, LifeOfThread
<1>3. CASE SyncRead(Main)
  BY <1>3, LifeStutters DEF SyncRead
<1>4. ASSUME NEW j \in Job, SyncAppend(Main, j)
      PROVE  [Life!LifeNext]_(Life!lifeVars)
  <2>1. /\ Due(ledger[j], sync[Main][j]) /\ ledger \in [Job -> Entry]
        /\ ledger' = [ledger EXCEPT ![j] = sync[Main][j]]
    BY <1>4 DEF SyncAppend, Append, FleetInv, LoopInv, LedgerTypeOK
  <2>2. CASE ledger[j].state \in Open /\ sync[Main][j] = [ledger[j] EXCEPT !.state = "dropped"]
    BY <2>1, <2>2, LifeEnds
  <2>3. CASE ledger[j].state \notin Open
    <3>1. PICK g \in Gen : /\ sync[Main][j] = Queued(g)
                           /\ ledger[j].state \in Settled => ledger[j].gen # g
      BY <2>1, <2>3 DEF Due
    <3> QED BY <2>1, <2>3, <3>1, LifeOpens
  <2> QED BY <2>1, <2>2, <2>3 DEF Due
<1> QED
  BY <1>1, <1>2, <1>3, <1>4 DEF Next, LoopNext, LoopSyncs, SessionSyncs

\* One dispatcher keeps for every job the promise of JobLifecycle, across waves,
\* kills and restarts: a job opened for some evidence ends done, parked or
\* dropped or fails, a failure is followed by a try of the same or the next
\* attempt within the policy or by parking after the last one, and a settled job
\* opens again for other evidence only.
THEOREM FleetKeepsLifecycle == Spec => KeepsLifecycle
<1>1. Init => FleetInv /\ Life!LifeInit
  BY FleetInvInit, LifeInitially
<1>2. FleetInv /\ [Next]_fleetVars => FleetInv'
  BY FleetInvStep
<1>3. FleetInv /\ [Next]_fleetVars => [Life!LifeNext]_(Life!lifeVars)
  BY LifeStep
<1> QED BY <1>1, <1>2, <1>3, PTL DEF Spec, KeepsLifecycle, Life!LifeSpec

-----------------------------------------------------------------------------
(* Sums of costs *)

\* A sum of finitely many costs is a number.
LEMMA TotalType ==
  ASSUME NEW U, NEW cost \in [U -> Nat], NEW S \in SUBSET U, IsFiniteSet(S)
  PROVE  Total(S, cost) \in Nat /\ IsFiniteSet(Dollars(S, cost))
<1> DEFINE Parts == {{x} \X (1..cost[x]) : x \in S}
<1>1. ASSUME NEW x \in S PROVE IsFiniteSet({x} \X (1..cost[x]))
  <2>1. IsFiniteSet({x}) /\ cost[x] \in Nat
    BY FS_Singleton
  <2>2. IsFiniteSet(1..cost[x])
    BY <2>1, FS_Interval
  <2> QED BY <2>1, <2>2, FS_Product
<1>2. IsFiniteSet(Parts)
  <2> DEFINE f == [x \in S |-> {x} \X (1..cost[x])]
  <2>1. f \in Surjection(S, Parts)
    BY DEF Surjection
  <2> HIDE DEF f, Parts
  <2> QED BY <2>1, FS_Surjection
<1>3. \A T \in Parts : IsFiniteSet(T)
  BY <1>1
<1>4. Dollars(S, cost) = UNION Parts
  BY DEF Dollars
<1> HIDE DEF Parts
<1>5. IsFiniteSet(Dollars(S, cost))
  BY <1>2, <1>3, <1>4, FS_UNION
<1> QED BY <1>5, FS_CardinalityType DEF Total

LEMMA TotalEmpty ==
  ASSUME NEW cost
  PROVE  Total({}, cost) = 0
<1>1. Dollars({}, cost) = {}
  BY DEF Dollars
<1> QED BY <1>1, FS_EmptySet DEF Total

\* A part costs no more than the whole.
LEMMA TotalSubset ==
  ASSUME NEW U, NEW cost \in [U -> Nat], NEW S \in SUBSET U, IsFiniteSet(S), NEW T \in SUBSET S
  PROVE  Total(T, cost) <= Total(S, cost)
<1>1. Dollars(T, cost) \in SUBSET Dollars(S, cost)
  BY DEF Dollars
<1>2. IsFiniteSet(Dollars(S, cost))
  BY TotalType
<1> QED BY <1>1, <1>2, FS_Subset DEF Total

LEMMA TotalAdd ==
  ASSUME NEW U, NEW cost \in [U -> Nat], NEW S \in SUBSET U, IsFiniteSet(S), NEW x \in U \ S
  PROVE  Total(S \cup {x}, cost) = Total(S, cost) + cost[x]
<1> DEFINE D == Dollars(S, cost)
           X == {x} \X (1..cost[x])
<1>1. Dollars(S \cup {x}, cost) = D \cup X /\ D \cap X = {}
  BY DEF Dollars
<1>2. IsFiniteSet(D) /\ Cardinality(D) \in Nat /\ Cardinality(D) = Total(S, cost)
  BY TotalType DEF Total
<1>3. IsFiniteSet(X) /\ Cardinality(X) = cost[x]
  <2>1. IsFiniteSet({x}) /\ Cardinality({x}) = 1
    BY FS_Singleton
  <2>2. cost[x] \in Nat
    OBVIOUS
  <2>3. IsFiniteSet(1..cost[x]) /\ Cardinality(1..cost[x]) = cost[x]
    BY <2>2, FS_Interval
  <2>4. IsFiniteSet(X) /\ Cardinality(X) = 1 * cost[x]
    BY <2>1, <2>3, FS_Product
  <2> QED BY <2>2, <2>4
<1> HIDE DEF D, X
<1>4. Cardinality(D \cup X) = Cardinality(D) + Cardinality(X) - Cardinality(D \cap X)
  BY <1>2, <1>3, FS_Union
<1>5. Cardinality(D \cap X) = 0 /\ cost[x] \in Nat
  BY <1>1, FS_EmptySet
<1>6. Total(S \cup {x}, cost) = Cardinality(D \cup X)
  BY <1>1 DEF Total
<1> QED BY <1>2, <1>3, <1>4, <1>5, <1>6

LEMMA Least ==
  ASSUME NEW T, T \subseteq Nat, T # {}
  PROVE  \E m \in T : \A n \in T : m <= n
<1>1. PICK m \in T : \A n \in T : <<n, m>> \notin OpToRel(<, Nat)
  BY NatLessThanWellFounded, WFMin
<1>2. \A n \in T : ~(n < m)
  BY <1>1 DEF OpToRel
<1> QED BY <1>2

\* The least number of greater ones belongs to the greatest.
LEMMA Greatest ==
  ASSUME NEW T, T \subseteq Nat, T # {}, IsFiniteSet(T)
  PROVE  \E m \in T : \A n \in T : n <= m
<1> DEFINE Above(m) == {n \in T : n > m}
<1>1. \A m \in T : IsFiniteSet(Above(m)) /\ Cardinality(Above(m)) \in Nat
  BY FS_Subset, FS_CardinalityType
<1> DEFINE C == {Cardinality(Above(m)) : m \in T}
<1>2. C \subseteq Nat /\ C # {}
  BY <1>1
<1>3. PICK c \in C : \A d \in C : c <= d
  <2> HIDE DEF C
  <2> QED BY <1>2, Least
<1>4. PICK m \in T : c = Cardinality(Above(m))
  OBVIOUS
<1>5. ASSUME NEW n \in T, n > m PROVE FALSE
  <2>1. Above(n) \subseteq Above(m) /\ n \in Above(m) /\ n \notin Above(n)
    <3>1. n \in Nat /\ m \in Nat /\ \A x \in T : x \in Nat
      OBVIOUS
    <3>2. ASSUME NEW x \in Above(n) PROVE x \in Above(m)
      <4>1. x \in T /\ x \in Nat /\ x > n
        BY <3>1
      <4>2. x > m
        BY <1>5, <3>1, <4>1
      <4> QED BY <4>1, <4>2
    <3>3. n \in Above(m) /\ n \notin Above(n)
      BY <1>5, <3>1
    <3> QED BY <3>2, <3>3
  <2>2. /\ Cardinality(Above(n)) # Cardinality(Above(m))
        /\ Cardinality(Above(n)) <= Cardinality(Above(m))
    <3> HIDE DEF Above
    <3> QED BY <1>1, <2>1, FS_Subset
  <2>3. Cardinality(Above(m)) <= Cardinality(Above(n))
    BY <1>3, <1>4
  <2> HIDE DEF Above
  <2> QED BY <1>1, <2>2, <2>3
<1> QED BY <1>5

LEMMA CardinalityGrows ==
  ASSUME NEW S, NEW T, IsFiniteSet(T), S \subseteq T, NEW n \in Nat, Cardinality(T) <= n
  PROVE  Cardinality(S) <= n
<1>1. IsFiniteSet(S) /\ Cardinality(S) <= Cardinality(T)
  BY FS_Subset
<1>2. Cardinality(S) \in Nat /\ Cardinality(T) \in Nat
  BY <1>1, FS_CardinalityType
<1> QED BY <1>1, <1>2

\* A wave that is picked costs no more than the budget: its last row fitted
\* after all the others.
LEMMA PickedFits ==
  ASSUME NEW queue \in SUBSET Job, NEW budget \in Nat, NEW jobs \in Picked(queue, budget)
  PROVE  jobs \in SUBSET Job /\ Total(jobs, MaxUsd) <= budget
<1> USE FleetAssumption
<1>1. jobs \in SUBSET Job /\ IsFiniteSet(jobs) /\ MaxUsd \in [Job -> Nat]
  <2>1. jobs \in SUBSET Job
    BY DEF Picked
  <2> QED BY <2>1, FS_Subset
<1>2. CASE jobs = {}
  BY <1>1, <1>2, TotalEmpty
<1>3. CASE jobs # {}
  <2> DEFINE Ranks == {Rank[k] : k \in jobs}
  <2>1. Ranks \subseteq Nat /\ Ranks # {}
    BY <1>1, <1>3, JobLedgerAssumption
  <2>2. IsFiniteSet(Ranks)
    <3> DEFINE f == [k \in jobs |-> Rank[k]]
    <3>1. f \in Surjection(jobs, Ranks)
      BY DEF Surjection
    <3> HIDE DEF f, Ranks
    <3> QED BY <1>1, <3>1, FS_Surjection
  <2>3. PICK m \in Ranks : \A n \in Ranks : n <= m
    <3> HIDE DEF Ranks
    <3> QED BY <2>1, <2>2, Greatest
  <2>4. PICK j \in jobs : m = Rank[j]
    OBVIOUS
  <2> DEFINE rest == Before(jobs, j)
  <2>5. rest = jobs \ {j}
    <3>1. ASSUME NEW k \in jobs \ {j} PROVE Rank[k] < Rank[j]
      <4>1. Rank[k] # Rank[j] /\ Rank[k] <= Rank[j] /\ Rank[k] \in Nat /\ Rank[j] \in Nat
        BY <1>1, <2>3, <2>4, JobLedgerAssumption
      <4> QED BY <4>1
    <3>2. ~(Rank[j] < Rank[j])
      BY <1>1, JobLedgerAssumption
    <3> QED BY <3>1, <3>2 DEF Before
  <2>6. Fits(j, rest, budget)
    BY DEF Picked
  <2>7. IsFiniteSet(rest) /\ rest \in SUBSET Job /\ jobs = rest \cup {j} /\ j \in Job \ rest
    BY <1>1, <2>5, FS_RemoveElement
  <2> HIDE DEF rest
  <2>8. Total(jobs, MaxUsd) = Total(rest, MaxUsd) + MaxUsd[j]
    BY <1>1, <2>7, TotalAdd
  <2> QED BY <1>1, <2>6, <2>8 DEF Fits
<1> QED BY <1>2, <1>3

-----------------------------------------------------------------------------
(* The fleet: the daily brake *)

BillUsd == [b \in Bill |-> MaxUsd[b.job]]

\* The jobs of the wave whose worker may still bill.
Unbilled ==
  {j \in wave : \/ j \notin begun
                \/ worker[j].pc = "checked"
                \/ worker[j].pc = "claimed" /\ exited[j] = "no"}

\* There is a wave only while it runs; a thread belongs to it, and has a
\* worker, or records its cost, only with the job claimed.
WaveInv ==
  /\ phase # "wave" => wave = {}
  /\ wave \subseteq Job /\ begun \subseteq wave
  /\ exited \in [Job -> {"no", "result", "noresult"}]
  /\ \A j \in Job :
       /\ worker[j].pc # "idle" => j \in begun
       /\ exited[j] # "no" => worker[j].pc = "claimed"
       /\ Recording(j) => worker[j].pc = "claimed" /\ exited[j] = "result"

LEMMA WaveInit == Init => WaveInv
  BY FleetAssumption DEF Init, LedgerInit, SpendInit, WaveInv, Recording, AtRest, Idle

\* A step of one thread concerns its own job.
LEMMA OneThreadsWave ==
  ASSUME WaveInv, phase' = "wave", wave' = wave, NEW j \in wave, begun' = begun \cup {j},
         exited' \in [Job -> {"no", "result", "noresult"}],
         \A k \in Job \ {j} : /\ worker'[k].pc = worker[k].pc /\ exited'[k] = exited[k]
                              /\ Recording(k)' => Recording(k),
         exited'[j] # "no" => worker'[j].pc = "claimed",
         Recording(j)' => worker'[j].pc = "claimed" /\ exited'[j] = "result"
  PROVE  WaveInv'
<1> SUFFICES ASSUME NEW k \in Job
             PROVE  /\ worker'[k].pc # "idle" => k \in begun'
                    /\ exited'[k] # "no" => worker'[k].pc = "claimed"
                    /\ Recording(k)' => worker'[k].pc = "claimed" /\ exited'[k] = "result"
  BY DEF WaveInv, Recording
<1>1. CASE k = j
  BY <1>1
<1>2. CASE k # j
  BY <1>2 DEF WaveInv
<1> QED BY <1>1, <1>2

LEMMA WaveOfThread ==
  ASSUME FleetInv, SpendTypeOK, WaveInv, NEW j \in Job, ThreadNext(j) \/ ThreadRaises(j)
  PROVE  /\ WaveInv'
         /\ phase = "wave" /\ phase' = "wave" /\ wave' = wave /\ j \in wave /\ begun' = begun \cup {j}
         /\ \A k \in Job \ {j} : /\ worker'[k].pc = worker[k].pc /\ exited'[k] = exited[k]
                                 /\ Recording(k)' => Recording(k)
<1> USE FleetAssumption
<1>1. worker \in [Job -> RunnerState] /\ spender \in [Job -> SpenderState]
      /\ exited \in [Job -> {"no", "result", "noresult"}]
  BY DEF FleetInv, LedgerTypeOK, SpendTypeOK, WaveInv
<1>2. phase = "wave" /\ phase' = "wave" /\ wave' = wave /\ j \in wave /\ begun' = begun \cup {j}
  BY DEF ThreadNext, ThreadChecks, ThreadRefuses, ThreadClaims, WorkerExits, ThreadRecords,
         RecordingFails, ThreadJudges, ThreadReports, ThreadRaises, Thread, loopVars, WaveInv
<1> DEFINE Others == \A k \in Job \ {j} : /\ worker'[k].pc = worker[k].pc /\ exited'[k] = exited[k]
                                          /\ Recording(k)' => Recording(k)
           Types == exited' \in [Job -> {"no", "result", "noresult"}]
           Own == /\ exited'[j] # "no" => worker'[j].pc = "claimed"
                  /\ Recording(j)' => worker'[j].pc = "claimed" /\ exited'[j] = "result"
<1>3. ASSUME ThreadChecks(j) \/ ThreadRefuses(j) \/ ThreadReports(j)
      PROVE  Others /\ Types /\ Own
  <2>1. exited' = exited /\ spender' = spender /\ worker[j].pc # "claimed"
        /\ \A k \in Job \ {j} : worker'[k] = worker[k]
    BY <1>1, <1>3 DEF ThreadChecks, ThreadRefuses, ThreadReports, spendVars, ledgerVars, Check, Refuse,
                      Report, FollowUp, WaveInv
  <2>2. exited[j] = "no" /\ ~Recording(j)
    BY <2>1 DEF WaveInv
  <2> QED BY <1>1, <2>1, <2>2 DEF Recording
<1>4. ASSUME ThreadClaims(j)
      PROVE  Others /\ Types /\ Own
  <2>1. exited' = exited /\ spender' = spender /\ worker[j].pc # "claimed"
        /\ \A k \in Job \ {j} : worker'[k] = worker[k]
    BY <1>1, <1>4 DEF ThreadClaims, spendVars, Claim
  <2>2. exited[j] = "no" /\ ~Recording(j)
    BY <2>1 DEF WaveInv
  <2> QED BY <1>1, <2>1, <2>2 DEF Recording
<1>5. ASSUME WorkerExits(j)
      PROVE  Others /\ Types /\ Own
  <2>1. worker' = worker /\ worker[j].pc = "claimed" /\ ~Recording(j)
    BY <1>5 DEF WorkerExits, ledgerVars, WaveInv
  <2>2. CASE exited' = [exited EXCEPT ![j] = "noresult"] /\ spender' = spender
    BY <1>1, <2>1, <2>2 DEF Recording
  <2>3. CASE exited' = [exited EXCEPT ![j] = "result"] /\ \E r : spender' = [spender EXCEPT ![j] = r]
    BY <1>1, <2>1, <2>3 DEF Recording
  <2>4. CASE exited' = [exited EXCEPT ![j] = "result"] /\ spender' = spender
    BY <1>1, <2>1, <2>4 DEF Recording
  <2>5. ASSUME NEW b \in Bill, RecordRead(j, b)
        PROVE  \E r : spender' = [spender EXCEPT ![j] = r]
    BY <2>5 DEF RecordRead
  <2> HIDE DEF Others, Types, Own
  <2> QED
    BY <1>5, <2>2, <2>3, <2>4, <2>5 DEF WorkerExits, spendVars
<1>6. ASSUME ThreadRecords(j)
      PROVE  Others /\ Types /\ Own
  <2>1. exited' = exited /\ worker' = worker /\ Recording(j)
    BY <1>6 DEF ThreadRecords, ledgerVars, RecordOpen, RecordWrite, RecordReplace, Recording
  <2>2. ASSUME NEW k \in Job \ {j}
        PROVE  Recording(k)' => Recording(k)
    <3>1. [spender[k] EXCEPT !.fd = Renamed(@)].pc = spender[k].pc
      BY <1>1 DEF SpenderState
    <3> QED
      BY <1>1, <1>6, <3>1 DEF ThreadRecords, RecordOpen, RecordWrite, RecordReplace, Recording
  <2> QED BY <1>1, <2>1, <2>2 DEF WaveInv
<1>7. ASSUME RecordingFails(j)
      PROVE  Others /\ Types /\ Own
  BY <1>1, <1>7 DEF RecordingFails, RecordRaises, Abandon, Recording, AtRest
<1>8. ASSUME ThreadRaises(j)
      PROVE  Others /\ Types /\ Own
  BY <1>1, <1>8 DEF ThreadRaises, Abandon, spendVars, Recording
<1>9. ASSUME NEW o \in Outcome, ThreadJudges(j, o)
      PROVE  Others /\ Types /\ Own
  BY <1>1, <1>9 DEF ThreadJudges, Judge, spendVars, Recording
<1>10. Others /\ Types /\ Own
  BY <1>3, <1>4, <1>5, <1>6, <1>7, <1>8, <1>9 DEF ThreadNext
<1> QED BY <1>2, <1>10, OneThreadsWave

LEMMA WaveStep == FleetInv /\ SpendTypeOK /\ WaveInv /\ [Next]_fleetVars => WaveInv'
<1> SUFFICES ASSUME FleetInv, SpendTypeOK, WaveInv, [Next]_fleetVars
             PROVE  WaveInv'
  OBVIOUS
<1> USE FleetAssumption
<1>0. worker \in [Job -> RunnerState] /\ spender \in [Job -> SpenderState]
  BY DEF FleetInv, LedgerTypeOK, SpendTypeOK
<1>1. CASE Crash
  BY <1>1 DEF Crash, WaveInv, Recording, AtRest, Idle
<1>2. CASE Start \/ Stop \/ NextWave \/ LoopSyncs \/ SessionSyncs \/ World \/ UNCHANGED fleetVars
  <2>1. /\ UNCHANGED <<wave, begun, exited, worker, spender>>
        /\ phase' # "wave" \/ phase' = phase
    BY <1>2 DEF Start, Stop, NextWave, LoopSyncs, SessionSyncs, World, fleetVars, loopVars, ledgerVars,
                spendVars, SyncRead, SyncAppend, Midnight, EvidenceChanges
  <2>2. phase' = "wave" => phase = "wave"
    BY <1>2, <2>1
  <2>3. phase = "wave" => phase' = "wave" 
    BY <1>2 DEF Start, Stop, NextWave, LoopSyncs, SessionSyncs, World, fleetVars, loopVars
  <2> QED BY <2>1, <2>2, <2>3 DEF WaveInv, Recording
<1>3. CASE SelectWave
  <2>1. wave' \subseteq Job /\ begun' = {} /\ phase' = "wave" /\ phase = "select"
        /\ UNCHANGED <<exited, worker, spender>>
    BY <1>3 DEF SelectWave, Selection, Picked, First, QueuedJobs, ledgerVars, spendVars
  <2>2. wave = {}
    BY <2>1 DEF WaveInv
  <2> QED BY <2>1, <2>2 DEF WaveInv, Recording
<1>4. CASE JoinWave
  BY <1>4 DEF JoinWave, SyncRead, spendVars, WaveInv, Recording, Idle
<1>5. ASSUME NEW j \in Job, ThreadNext(j) \/ ThreadRaises(j)
      PROVE  WaveInv'
  BY <1>5, WaveOfThread
<1> QED BY <1>1, <1>2, <1>3, <1>4, <1>5 DEF Next, LoopNext

\* What a day's bills come to is within the cap, but for one plan.
DayFits(bills) ==
  LET spent == Usd(bills)
  IN spent <= DailyCap \/ \E j \in Job : IsPlan(j) /\ spent < DailyCap + MaxUsd[j]

\* With so much spent, the jobs may all still bill without breaking the brake:
\* the cap has room for them, or they are one plan and the cap is not used up.
WaveFits(spent, jobs) ==
  \/ spent + Total(jobs, MaxUsd) <= DailyCap
  \/ \E j \in Job : IsPlan(j) /\ jobs \subseteq {j} /\ (jobs # {} => spent < DailyCap)

\* No bill is of a day to come, every day so far is within the cap, and so will
\* today be when the wave has billed: while recordings do not overlap, the
\* ledger a wave is chosen on accounts for every bill of the day.
BrakeInv ==
  /\ IsFiniteSet(issued)
  /\ \A b \in issued : b.day <= today
  /\ ~overlapped => /\ \A day \in 1..LastDay : DayFits(OnDay(issued, day))
                    /\ phase = "wave" => WaveFits(Usd(OnDay(issued, today)), Unbilled)

LEMMA BillUsdType == BillUsd \in [Bill -> Nat] /\ (\A bills : Usd(bills) = Total(bills, BillUsd))
  BY FleetAssumption DEF BillUsd, Usd

LEMMA UsdType ==
  ASSUME NEW bills \in SUBSET Bill, IsFiniteSet(bills), NEW day
  PROVE  Usd(OnDay(bills, day)) \in Nat
<1>1. OnDay(bills, day) \in SUBSET Bill /\ IsFiniteSet(OnDay(bills, day))
  BY FS_Subset DEF OnDay
<1> QED BY <1>1, BillUsdType, TotalType

LEMMA UnbilledType == WaveInv => Unbilled \in SUBSET Job
  BY DEF WaveInv, Unbilled

LEMMA JobsTotal ==
  ASSUME NEW jobs \in SUBSET Job
  PROVE  IsFiniteSet(jobs) /\ Total(jobs, MaxUsd) \in Nat /\ MaxUsd \in [Job -> Nat]
<1>1. IsFiniteSet(jobs) /\ MaxUsd \in [Job -> Nat]
  BY FleetAssumption, FS_Subset
<1> QED BY <1>1, TotalType

\* Fewer jobs fit too, and so they do with less spent.
LEMMA WaveShrinks ==
  ASSUME NEW jobs \in SUBSET Job, NEW spent \in Nat, WaveFits(spent, jobs),
         NEW some \in SUBSET jobs, NEW less \in Nat, less <= spent
  PROVE  WaveFits(less, some)
<1>1. DailyCap \in Nat
  BY FleetAssumption
<1>2. CASE spent + Total(jobs, MaxUsd) <= DailyCap
  <2>1. Total(some, MaxUsd) <= Total(jobs, MaxUsd)
    BY JobsTotal, TotalSubset
  <2>2. Total(some, MaxUsd) \in Nat /\ Total(jobs, MaxUsd) \in Nat
    BY JobsTotal
  <2> QED BY <1>1, <1>2, <2>1, <2>2 DEF WaveFits
<1>3. ASSUME NEW j \in Job, IsPlan(j), jobs \subseteq {j}, jobs # {} => spent < DailyCap
      PROVE  WaveFits(less, some)
  BY <1>1, <1>3 DEF WaveFits
<1> QED BY <1>2, <1>3 DEF WaveFits

\* One of the jobs bills.
LEMMA WaveBills ==
  ASSUME NEW jobs \in SUBSET Job, NEW spent \in Nat, WaveFits(spent, jobs), NEW j \in jobs
  PROVE  /\ WaveFits(spent + MaxUsd[j], jobs \ {j})
         /\ \/ spent + MaxUsd[j] <= DailyCap
            \/ \E k \in Job : IsPlan(k) /\ spent + MaxUsd[j] < DailyCap + MaxUsd[k]
<1> DEFINE rest == jobs \ {j}
<1>1. DailyCap \in Nat /\ MaxUsd[j] \in Nat
  BY FleetAssumption
<1>2. CASE spent + Total(jobs, MaxUsd) <= DailyCap
  <2>1. IsFiniteSet(rest) /\ rest \in SUBSET Job /\ j \in Job \ rest /\ jobs = rest \cup {j}
    BY JobsTotal
  <2> HIDE DEF rest
  <2>2. Total(jobs, MaxUsd) = Total(rest, MaxUsd) + MaxUsd[j] /\ Total(rest, MaxUsd) \in Nat
    BY <2>1, JobsTotal, TotalAdd
  <2>3. spent + MaxUsd[j] + Total(rest, MaxUsd) <= DailyCap /\ spent + MaxUsd[j] <= DailyCap
    BY <1>1, <1>2, <2>2
  <2> QED BY <2>3 DEF WaveFits, rest
<1>3. ASSUME NEW k \in Job, IsPlan(k), jobs \subseteq {k}, jobs # {} => spent < DailyCap
      PROVE  /\ WaveFits(spent + MaxUsd[j], jobs \ {j})
             /\ \E p \in Job : IsPlan(p) /\ spent + MaxUsd[j] < DailyCap + MaxUsd[p]
  <2>1. j = k /\ rest = {} /\ spent < DailyCap
    BY <1>3
  <2>2. spent + MaxUsd[j] < DailyCap + MaxUsd[k]
    BY <1>1, <2>1
  <2> QED BY <1>3, <2>1, <2>2 DEF WaveFits
<1> QED BY <1>2, <1>3 DEF WaveFits

LEMMA BrakeInit == Init => BrakeInv
<1> SUFFICES ASSUME Init PROVE BrakeInv
  OBVIOUS
<1>1. issued = {} /\ phase = "off"
  BY DEF Init, SpendInit
<1>2. \A day \in 1..LastDay : OnDay(issued, day) = {}
  BY <1>1 DEF OnDay
<1>3. Usd({}) = 0 /\ 0 <= DailyCap
  BY TotalEmpty, FleetAssumption DEF Usd
<1> QED BY <1>1, <1>2, <1>3, FS_EmptySet DEF BrakeInv, DayFits

\* A step that issues no bill and puts no job in the way of billing.
LEMMA BrakeFrame ==
  ASSUME FleetInv, SpendTypeOK, WaveInv, BrakeInv, issued' = issued, today' = today,
         ~overlapped' => ~overlapped,
         phase' = "wave" => phase = "wave" /\ Unbilled' \in SUBSET Unbilled
  PROVE  BrakeInv'
<1>1. IsFiniteSet(issued') /\ \A b \in issued' : b.day <= today'
  BY DEF BrakeInv
<1>2. ASSUME ~overlapped', NEW day \in 1..LastDay PROVE DayFits(OnDay(issued', day))
  BY <1>2 DEF BrakeInv
<1>3. ASSUME ~overlapped', phase' = "wave"
      PROVE  WaveFits(Usd(OnDay(issued', today')), Unbilled')
  <2>1. WaveFits(Usd(OnDay(issued, today)), Unbilled)
    BY <1>3 DEF BrakeInv
  <2>2. Usd(OnDay(issued, today)) \in Nat
    BY UsdType DEF SpendTypeOK, BrakeInv
  <2>3. Unbilled \in SUBSET Job
    BY UnbilledType
  <2> DEFINE spent == Usd(OnDay(issued, today))
  <2>4. spent <= spent
    BY <2>2
  <2>5. WaveFits(spent, Unbilled')
    BY <1>3, <2>1, <2>2, <2>3, <2>4, WaveShrinks
  <2> QED BY <2>5
<1>4. IsFiniteSet(issued)' /\ (\A b \in issued : b.day <= today)'
  BY <1>1
<1> QED BY <1>2, <1>3, <1>4 DEF BrakeInv

\* The worker of job j ends and its thread begins to record bill b.
LEMMA BrakeBill ==
  ASSUME FleetInv, SpendTypeOK, WaveInv, BrakeInv, phase = "wave",
         NEW j \in Unbilled, Unbilled' \subseteq Unbilled \ {j},
         NEW b \in Bill, b.job = j, b.day = today, b \notin issued,
         issued' = issued \cup {b}, today' = today, ~overlapped' => ~overlapped
  PROVE  BrakeInv'
<1> DEFINE spent == Usd(OnDay(issued, today))
<1>1. issued \in SUBSET Bill /\ IsFiniteSet(issued) /\ Unbilled \in SUBSET Job /\ today \in Nat
  BY UnbilledType, JobLedgerAssumption DEF SpendTypeOK, BrakeInv, FleetInv, LedgerTypeOK
<1>2. spent \in Nat
  BY <1>1, UsdType
<1>3. Usd(OnDay(issued', today)) = spent + MaxUsd[j]
  <2>1. OnDay(issued', today) = OnDay(issued, today) \cup {b}
    BY DEF OnDay
  <2>2. IsFiniteSet(OnDay(issued, today)) /\ OnDay(issued, today) \in SUBSET Bill
        /\ b \in Bill \ OnDay(issued, today)
    BY <1>1, FS_Subset DEF OnDay
  <2>3. Total(OnDay(issued, today) \cup {b}, BillUsd) = Total(OnDay(issued, today), BillUsd) + BillUsd[b]
    BY <2>2, BillUsdType, TotalAdd
  <2>4. BillUsd[b] = MaxUsd[j]
    BY DEF BillUsd
  <2> QED BY <2>1, <2>3, <2>4, BillUsdType
<1>4. IsFiniteSet(issued')
  BY <1>1, FS_AddElement
<1>5. \A c \in issued' : c.day <= today
  BY <1>1 DEF BrakeInv
<1>6. ASSUME ~overlapped'
      PROVE  /\ \A day \in 1..LastDay : DayFits(OnDay(issued', day))
             /\ WaveFits(Usd(OnDay(issued', today)), Unbilled')
  <2>1. WaveFits(spent, Unbilled)
    BY <1>6 DEF BrakeInv
  <2> HIDE DEF spent
  <2>2. WaveFits(spent + MaxUsd[j], Unbilled \ {j})
    BY <1>1, <1>2, <2>1, WaveBills
  <2>3. \/ spent + MaxUsd[j] <= DailyCap
        \/ \E k \in Job : IsPlan(k) /\ spent + MaxUsd[j] < DailyCap + MaxUsd[k]
    BY <1>1, <1>2, <2>1, WaveBills
  <2>4. spent + MaxUsd[j] \in Nat /\ spent + MaxUsd[j] <= spent + MaxUsd[j]
    BY <1>1, <1>2, FleetAssumption
  <2>5. WaveFits(spent + MaxUsd[j], Unbilled')
    <3>1. Unbilled \ {j} \in SUBSET Job /\ Unbilled' \in SUBSET (Unbilled \ {j})
      BY <1>1
    <3> QED BY <2>2, <2>4, <3>1, WaveShrinks
  <2>6. DayFits(OnDay(issued', today))
    BY <1>3, <2>3 DEF DayFits
  <2>7. ASSUME NEW day \in 1..LastDay, day # today PROVE DayFits(OnDay(issued', day))
    <3>1. OnDay(issued', day) = OnDay(issued, day)
      BY <2>7 DEF OnDay
    <3> QED BY <1>6, <3>1 DEF BrakeInv
  <2> QED BY <1>3, <2>5, <2>6, <2>7
<1>7. IsFiniteSet(issued)' /\ (\A c \in issued : c.day <= today)'
  BY <1>4, <1>5
<1> QED BY <1>6, <1>7 DEF BrakeInv

\* A new day: nothing of it is billed yet.
LEMMA BrakeMidnight ==
  ASSUME FleetInv, SpendTypeOK, WaveInv, BrakeInv, today' = today + 1, issued' = issued,
         overlapped' = overlapped, phase' = phase, Unbilled' = Unbilled
  PROVE  BrakeInv'
<1> DEFINE spent == Usd(OnDay(issued, today))
<1>1. issued \in SUBSET Bill /\ IsFiniteSet(issued) /\ Unbilled \in SUBSET Job /\ today \in Nat
  BY UnbilledType, JobLedgerAssumption DEF SpendTypeOK, BrakeInv, FleetInv, LedgerTypeOK
<1>2. spent \in Nat
  BY <1>1, UsdType
<1>3. \A b \in issued : b.day \in Nat /\ b.day <= today /\ b.day <= today + 1 /\ b.day # today + 1
  <2>1. \A b \in issued : b.day \in Nat /\ b.day <= today
    BY <1>1, FleetAssumption DEF BrakeInv
  <2> QED BY <1>1, <2>1
<1>4. OnDay(issued, today + 1) = {}
  BY <1>3 DEF OnDay
<1>5. Usd(OnDay(issued, today + 1)) = 0
  BY <1>4, TotalEmpty DEF Usd
<1>6. ASSUME ~overlapped, phase = "wave" PROVE WaveFits(0, Unbilled)
  <2>1. WaveFits(spent, Unbilled)
    BY <1>6 DEF BrakeInv
  <2>2. 0 \in Nat /\ 0 <= spent /\ Unbilled \in SUBSET Unbilled
    BY <1>2
  <2> HIDE DEF spent
  <2> QED BY <1>1, <1>2, <2>1, <2>2, WaveShrinks
<1>7. IsFiniteSet(issued)' /\ (\A b \in issued : b.day <= today)'
  BY <1>1, <1>3
<1>8. \A day \in 1..LastDay : ~overlapped' => DayFits(OnDay(issued', day))
  BY DEF BrakeInv
<1> QED BY <1>5, <1>6, <1>7, <1>8 DEF BrakeInv

\* A wave is chosen with nobody recording, so the ledger it is chosen on is the
\* true account of the day.
LEMMA BrakeSelects ==
  ASSUME FleetInv, SpendTypeOK, SoloInv, WaveInv, BrakeInv, SelectWave
  PROVE  BrakeInv'
<1> USE FleetAssumption
<1> DEFINE spent == Usd(OnDay(issued, today))
<1>1. phase = "select" /\ wave' \in Selection
      /\ UNCHANGED <<issued, today, overlapped, spendFile>>
  BY DEF SelectWave, ledgerVars, spendVars
<1>2. spent \in Nat /\ DailyCap \in Nat
  BY UsdType DEF SpendTypeOK, BrakeInv
<1>3. \A w \in Spender : ~Recording(w)
  BY <1>1 DEF WaveInv, FleetInv, ThreadInv
<1>4. ASSUME ~overlapped PROVE WaveFits(spent, wave') /\ wave' \in SUBSET Job
  <2>1. Readable(spendFile) = issued
    BY <1>3, <1>4 DEF SoloInv
  <2>2. SpentToday = spent
    BY <2>1 DEF SpentToday
  <2> HIDE DEF spent
  <2> DEFINE plans == {j \in QueuedJobs : IsPlan(j)}
  <2>3. spent < DailyCap \/ wave' = {}
    BY <1>1, <1>2, <2>2 DEF Selection, SelectWave
  <2>4. CASE wave' = {}
    BY <1>1, <2>4 DEF SelectWave
  <2>5. CASE spent < DailyCap /\ plans # {}
    <3>1. PICK j \in First(plans) : wave' = {j}
      BY <1>1, <1>2, <2>2, <2>5 DEF Selection
    <3>2. j \in Job /\ IsPlan(j)
      BY <3>1 DEF First, QueuedJobs
    <3> QED BY <2>5, <3>1, <3>2 DEF WaveFits
  <2>6. CASE spent < DailyCap /\ plans = {}
    <3>1. wave' \in Picked(QueuedJobs, DailyCap - spent)
      BY <1>1, <1>2, <2>2, <2>6 DEF Selection
    <3>2. DailyCap - spent \in Nat /\ QueuedJobs \in SUBSET Job
      BY <1>2, <2>6 DEF QueuedJobs
    <3>3. wave' \in SUBSET Job /\ Total(wave', MaxUsd) <= DailyCap - spent
      BY <3>1, <3>2, PickedFits
    <3>4. Total(wave', MaxUsd) \in Nat
      BY <3>3, JobsTotal
    <3>5. spent + Total(wave', MaxUsd) <= DailyCap
      BY <1>2, <3>3, <3>4
    <3> QED BY <3>3, <3>5 DEF WaveFits
  <2> QED BY <2>3, <2>4, <2>5, <2>6
<1>5. Unbilled' \in SUBSET wave'
  BY DEF Unbilled
<1>6. ASSUME ~overlapped PROVE WaveFits(spent, Unbilled')
  <2>1. spent <= spent
    BY <1>2
  <2> HIDE DEF spent
  <2> QED BY <1>2, <1>4, <1>5, <1>6, <2>1, WaveShrinks
<1>7. IsFiniteSet(issued)' /\ (\A c \in issued : c.day <= today)'
  BY <1>1 DEF BrakeInv
<1>8. ASSUME ~overlapped'
      PROVE  /\ \A day \in 1..LastDay : DayFits(OnDay(issued', day))
             /\ WaveFits(Usd(OnDay(issued', today')), Unbilled')
  BY <1>1, <1>6, <1>8 DEF BrakeInv
<1> QED BY <1>7, <1>8 DEF BrakeInv

\* A step of a thread: a worker that ends may bill; none comes back.
LEMMA BrakeOfThread ==
  ASSUME FleetInv, SpendTypeOK, WaveInv, BrakeInv,
         NEW j \in Job, ThreadNext(j) \/ ThreadRaises(j)
  PROVE  BrakeInv'
<1> USE FleetAssumption
<1>1. /\ phase = "wave" /\ wave' = wave /\ j \in wave /\ begun' = begun \cup {j}
      /\ \A k \in Job \ {j} : worker'[k].pc = worker[k].pc /\ exited'[k] = exited[k]
  BY WaveOfThread
<1>2. worker \in [Job -> RunnerState] /\ exited \in [Job -> {"no", "result", "noresult"}]
  BY DEF FleetInv, LedgerTypeOK, WaveInv
<1>3. \A k \in Job \ {j} : k \in Unbilled' => k \in Unbilled
  BY <1>1 DEF Unbilled
<1>4. today' = today
  BY DEF ThreadNext, ThreadChecks, ThreadRefuses, ThreadClaims, WorkerExits, ThreadRecords,
         RecordingFails, ThreadJudges, ThreadReports, ThreadRaises, ledgerVars,
         Check, Refuse, Claim, Judge, Report, FollowUp, Abandon
<1>5. Unbilled' \in SUBSET wave /\ wave \in SUBSET Job
  BY <1>1 DEF Unbilled, WaveInv
<1>6. CASE /\ issued' = issued
           /\ ~overlapped' => ~overlapped
           /\ j \in Unbilled' => j \in Unbilled
  <2>1. Unbilled' \in SUBSET Unbilled
    BY <1>3, <1>5, <1>6
  <2> QED BY <1>1, <1>4, <1>6, <2>1, BrakeFrame
<1>7. ASSUME ThreadChecks(j) \/ ThreadRefuses(j) \/ ThreadClaims(j) \/ ThreadReports(j)
             \/ RecordingFails(j) \/ ThreadRaises(j) \/ \E o \in Outcome : ThreadJudges(j, o)
      PROVE  issued' = issued /\ overlapped' = overlapped
  BY <1>7 DEF ThreadChecks, ThreadRefuses, ThreadClaims, ThreadReports, RecordingFails, RecordRaises,
              ThreadRaises, ThreadJudges, spendVars
<1>8. CASE ThreadChecks(j)
  <2>1. j \notin begun
    BY <1>8 DEF ThreadChecks
  <2>2. j \in Unbilled
    BY <1>1, <2>1 DEF Unbilled
  <2> QED BY <1>6, <1>7, <1>8, <2>2
<1>9. CASE ThreadRefuses(j) \/ ThreadReports(j) \/ RecordingFails(j) \/ ThreadRaises(j)
           \/ \E o \in Outcome : ThreadJudges(j, o)
  <2>1. j \in begun'
    BY <1>1
  <2>2. worker'[j].pc \in {"idle", "judged", "followup"}
    <3>1. CASE \E o \in Outcome : ThreadJudges(j, o)
      <4>1. PICK o \in Outcome : worker' = [worker EXCEPT ![j] =
                                    [worker[j] EXCEPT !.pc = "judged", !.outcome = o,
                                                      !.attempt = ledger[worker[j].job].attempt]]
        BY <3>1 DEF ThreadJudges, Judge
      <4> DEFINE e == [worker[j] EXCEPT !.pc = "judged", !.outcome = o,
                                        !.attempt = ledger[worker[j].job].attempt]
      <4>2. e.pc = "judged" /\ worker' = [worker EXCEPT ![j] = e]
        BY <1>2, <4>1 DEF RunnerState
      <4> HIDE DEF e
      <4> QED BY <1>2, <4>2
    <3>2. CASE ThreadRefuses(j) \/ RecordingFails(j) \/ ThreadRaises(j)
      BY <1>2, <3>2 DEF ThreadRefuses, Refuse, RecordingFails, ThreadRaises, Abandon, Idle
    <3>3. CASE ThreadReports(j)
      BY <1>2, <3>3 DEF ThreadReports, Report, FollowUp, Idle, RunnerState
    <3> QED BY <1>9, <3>1, <3>2, <3>3
  <2>3. j \notin Unbilled'
    BY <2>1, <2>2 DEF Unbilled
  <2> QED BY <1>6, <1>7, <1>9, <2>3
<1>10. CASE ThreadClaims(j)
  <2>1. worker[j].pc = "checked"
    BY <1>10 DEF ThreadClaims, Claim
  <2>2. j \in Unbilled
    BY <1>1, <2>1 DEF Unbilled
  <2> QED BY <1>6, <1>7, <1>10, <2>2
<1>11. CASE ThreadRecords(j)
  <2>1. issued' = issued /\ overlapped' = overlapped /\ worker' = worker /\ exited' = exited
        /\ begun' = begun
    BY <1>11 DEF ThreadRecords, RecordOpen, RecordWrite, RecordReplace, ledgerVars, loopVars
  <2>2. j \in Unbilled' => j \in Unbilled
    BY <1>1, <2>1 DEF Unbilled
  <2> QED BY <1>6, <2>1, <2>2
<1>12. CASE WorkerExits(j)
  <2>1. j \in Unbilled
    BY <1>1, <1>12 DEF WorkerExits, Unbilled
  <2>2. CASE UNCHANGED spendVars
    BY <1>6, <2>1, <2>2 DEF spendVars
  <2>3. ASSUME exited' = [exited EXCEPT ![j] = "result"],
               NEW b \in Bill, b.job = j, b.day = today, RecordRead(j, b)
        PROVE  BrakeInv'
    <3>1. exited'[j] = "result" /\ worker' = worker /\ worker[j].pc = "claimed" /\ j \in begun'
      BY <1>1, <1>2, <1>12, <2>3 DEF WorkerExits, ledgerVars
    <3>2. j \notin Unbilled'
      BY <3>1 DEF Unbilled
    <3>3. Unbilled' \subseteq Unbilled \ {j}
      BY <1>3, <1>5, <3>2
    <3>4. b \notin issued /\ issued' = issued \cup {b} /\ (~overlapped' => ~overlapped)
      BY <2>3 DEF RecordRead
    <3> QED BY <1>1, <1>4, <2>1, <2>3, <3>3, <3>4, BrakeBill
  <2> QED BY <1>12, <2>2, <2>3 DEF WorkerExits, spendVars
<1> QED BY <1>8, <1>9, <1>10, <1>11, <1>12 DEF ThreadNext

LEMMA BrakeStep ==
  FleetInv /\ SpendTypeOK /\ SoloInv /\ WaveInv /\ BrakeInv /\ [Next]_fleetVars => BrakeInv'
<1> SUFFICES ASSUME FleetInv, SpendTypeOK, SoloInv, WaveInv, BrakeInv, [Next]_fleetVars
             PROVE  BrakeInv'
  OBVIOUS
<1>1. CASE Start \/ Stop \/ JoinWave \/ LoopSyncs \/ NextWave \/ SessionSyncs \/ Crash
  <2>1. CASE Start \/ Stop \/ NextWave
    <3>1. issued' = issued /\ today' = today /\ overlapped' = overlapped /\ phase' # "wave"
      BY <2>1 DEF Start, Stop, NextWave, ledgerVars, spendVars
    <3> QED BY <3>1, BrakeFrame
  <2>2. CASE JoinWave \/ LoopSyncs \/ SessionSyncs
    <3>1. SyncRead(Main) \/ \E j \in Job : SyncAppend(Main, j)
      BY <2>2 DEF JoinWave, LoopSyncs, SessionSyncs
    <3>2. today' = today
      BY <3>1 DEF SyncRead, SyncAppend
    <3>3. issued' = issued /\ overlapped' = overlapped /\ phase' # "wave"
      BY <2>2 DEF JoinWave, LoopSyncs, SessionSyncs, loopVars, spendVars
    <3> QED BY <3>2, <3>3, BrakeFrame
  <2>3. CASE Crash
    <3>1. issued' = issued /\ today' = today /\ phase' = "off"
      BY <2>3 DEF Crash
    <3>2. overlapped' = (overlapped \/ \E j \in Job : Recording(j))
      BY <2>3 DEF Crash
    <3> QED BY <3>1, <3>2, BrakeFrame
  <2> QED BY <1>1, <2>1, <2>2, <2>3
<1>2. CASE SelectWave
  BY <1>2, BrakeSelects
<1>3. ASSUME NEW j \in Job, ThreadNext(j) \/ ThreadRaises(j)
      PROVE  BrakeInv'
  BY <1>3, BrakeOfThread
<1>4. CASE World \/ UNCHANGED fleetVars
  <2>1. UNCHANGED <<issued, overlapped, phase, wave, begun, worker, exited>>
    BY <1>4 DEF World, Midnight, EvidenceChanges, fleetVars, spendVars, loopVars, ledgerVars
  <2>2. Unbilled' = Unbilled
    BY <2>1 DEF Unbilled
  <2>3. CASE today' = today
    BY <2>1, <2>2, <2>3, BrakeFrame
  <2>4. CASE today' = today + 1
    BY <2>1, <2>2, <2>4, BrakeMidnight
  <2> QED
    BY <1>4, <2>3, <2>4 DEF World, Midnight, EvidenceChanges, fleetVars, ledgerVars
<1> QED BY <1>1, <1>2, <1>3, <1>4 DEF Next, LoopNext

\* The daily brake, for any jobs, budgets, limits, days and faults: while no two
\* recordings overlap and none is cut short, what a day costs stays within the
\* cap, except for one plan, which may go over it by less than its own budget.
THEOREM FleetKeepsTheBrake == Spec => []BrakeHolds
<1> DEFINE Inv == FleetInv /\ SpendTypeOK /\ SoloInv /\ WaveInv /\ BrakeInv
<1>1. Init => Inv
  BY FleetInvInit, SpendTypeInit, SoloInit, WaveInit, BrakeInit DEF Init
<1>2. Inv /\ [Next]_fleetVars => Inv'
  <2> SUFFICES ASSUME Inv, [Next]_fleetVars PROVE Inv'
    OBVIOUS
  <2>1. FleetInv' /\ WaveInv' /\ BrakeInv'
    BY FleetInvStep, WaveStep, BrakeStep
  <2>2. SpendTypeOK' /\ SoloInv'
    BY FleetOnSpend, SpendTypeStep, SoloStep, CrashSpend, CrashSolo
  <2> QED BY <2>1, <2>2
<1>3. Inv => BrakeHolds
  BY DEF BrakeInv, BrakeHolds, DayFits
<1> QED BY <1>1, <1>2, <1>3, PTL DEF Spec

=============================================================================
