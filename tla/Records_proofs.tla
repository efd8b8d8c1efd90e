---------------------------- MODULE Records_proofs ----------------------------
(***************************************************************************)
(* Proofs about Records and CampaignIndex, for any runs, signatures,       *)
(* processes and budgets: what becomes of a finding whose three appends,   *)
(* the retention of its run and the rebuilds of the database interleave.   *)
(***************************************************************************)
EXTENDS CampaignIndex, WellFoundedInduction, TLAPS

-----------------------------------------------------------------------------
(* Types *)

Places == {Idle, "classified", "verified", "record", "announce", "mirror"}

LogEntry ==
  {[type |-> "campaign_started"]}
  \cup [type : {"verdict", "replay", "recorded", "rejected"}, sig : Sigs, ok : BOOLEAN]
  \cup [type : {"dedupe"}, lines : Nat, late : BOOLEAN]

Verdict == {"NEW", "AGAIN", "CLAIM", "DUP_SKIP", ""}

Line ==
  [sig : Sigs, verified : BOOLEAN, verdict : Verdict,
   position : Nat, cut : BOOLEAN, stale : BOOLEAN]

Call ==
  [at : Places, run : Runs \cup {""}, sig : Sigs \cup {""}, verified : BOOLEAN,
   verdict : Verdict, cut : BOOLEAN, stale : BOOLEAN]

Grouping == [at : {Idle, "read"}, run : Runs \cup {""}, lines : Nat, late : BOOLEAN]
Pruning == [at : {Idle, "copied", "installed"}, run : Runs \cup {""}, copy : SUBSET Sigs]
Archived == [there : BOOLEAN, sigs : SUBSET Sigs]

RecordTypes ==
  /\ ledger \in [Runs -> Seq(Line)] /\ log \in [Runs -> Seq(LogEntry)]
  /\ index \subseteq Runs \X Sigs
  /\ archive \in [Runs -> Archived]
  /\ clerk \in [Clerks -> Call]
  /\ \A c \in Clerks : clerk[c].at # Idle => clerk[c].run \in Runs /\ clerk[c].sig \in Sigs
  /\ dedupe \in Grouping
  /\ dedupe.at # Idle => dedupe.run \in Runs
  /\ gc \in Pruning
  /\ gc.at # Idle => gc.run \in Runs
  /\ made \subseteq Runs \X Sigs

records == <<files, clerk, dedupe, gc, past>>

LEMMA AfterIs ==
  /\ After("classified") = "verified" /\ After("verified") = "record"
  /\ After("record") = "announce" /\ After("announce") = "mirror"
  BY DEF After

LEMMA ListedSigs == RecordTypes => \A r \in Runs : Listed(r) \in SUBSET Sigs
<1> SUFFICES ASSUME RecordTypes, NEW r \in Runs, NEW i \in DOMAIN ledger[r]
             PROVE  ledger[r][i].sig \in Sigs
  BY DEF Listed
<1>1. ledger[r] \in Seq(Line)
  BY DEF RecordTypes
<1>2. ledger[r][i] \in Line
  BY <1>1
<1> QED BY <1>2 DEF Line

LEMMA Idles ==
  /\ NoCall \in Call /\ NoCall.at = Idle
  /\ NoDedupe \in Grouping /\ NoDedupe.at = Idle
  /\ NoPrune \in Pruning /\ NoPrune.at = Idle
  /\ NoArchive \in Archived /\ ~NoArchive.there /\ NoArchive.sigs = {}
<1>1. NoCall \in Call /\ NoCall.at = Idle
  BY DEF NoCall, Call, Places, Verdict
<1>2. NoDedupe \in Grouping /\ NoDedupe.at = Idle
  BY DEF NoDedupe, Grouping
<1>3. NoPrune \in Pruning /\ NoPrune.at = Idle
  BY DEF NoPrune, Pruning
<1>4. NoArchive \in Archived /\ ~NoArchive.there /\ NoArchive.sigs = {}
  BY DEF NoArchive, Archived
<1> QED BY <1>1, <1>2, <1>3, <1>4

LEMMA RecordTypesInit == RecordsInit => RecordTypes
<1> SUFFICES ASSUME RecordsInit PROVE RecordTypes
  OBVIOUS
<1>1. [type |-> "campaign_started"] \in LogEntry
  BY DEF LogEntry
<1>2. <<[type |-> "campaign_started"]>> \in Seq(LogEntry) /\ <<>> \in Seq(Line)
  BY <1>1
<1> QED BY <1>2, Idles DEF RecordsInit, RecordTypes

\* A call goes on.
LEMMA CallSet ==
  ASSUME RecordTypes, NEW c \in Clerks, NEW rec \in Call, Set(c, rec),
         rec.at # Idle => rec.run \in Runs /\ rec.sig \in Sigs
  PROVE  /\ clerk' \in [Clerks -> Call]
         /\ \A d \in Clerks : clerk'[d].at # Idle => clerk'[d].run \in Runs /\ clerk'[d].sig \in Sigs
         /\ clerk'[c] = rec /\ \A d \in Clerks \ {c} : clerk'[d] = clerk[d]
  BY DEF RecordTypes, Set

\* The log of one run gets one more entry.
LEMMA LogGrows ==
  ASSUME RecordTypes, NEW r \in Runs, NEW e \in LogEntry, Logged(r, e)
  PROVE  /\ log' \in [Runs -> Seq(LogEntry)]
         /\ \A q \in Runs \ {r} : log'[q] = log[q]
         /\ log'[r] = Append(log[r], e)
         /\ Len(log[r]) \in Nat /\ Len(log'[r]) = Len(log[r]) + 1 /\ log'[r][Len(log[r]) + 1] = e
         /\ DOMAIN log[r] = 1..Len(log[r]) /\ DOMAIN log'[r] = 1..Len(log[r]) + 1
         /\ \A i \in DOMAIN log[r] : log'[r][i] = log[r][i]
<1>1. log[r] \in Seq(LogEntry)
  BY DEF RecordTypes
<1>2. log'[r] = Append(log[r], e) /\ \A q \in Runs \ {r} : log'[q] = log[q]
  BY DEF RecordTypes, Logged
<1>3. Append(log[r], e) \in Seq(LogEntry)
  BY <1>1
<1>4. log' \in [Runs -> Seq(LogEntry)]
  BY <1>3 DEF RecordTypes, Logged
<1> QED BY <1>1, <1>2, <1>4

\* The ledger of one run gets one more line.
LEMMA LedgerGrows ==
  ASSUME RecordTypes, NEW r \in Runs, NEW f \in Line,
         ledger' = [ledger EXCEPT ![r] = Append(@, f)]
  PROVE  /\ ledger' \in [Runs -> Seq(Line)]
         /\ \A q \in Runs \ {r} : ledger'[q] = ledger[q]
         /\ ledger'[r] = Append(ledger[r], f)
         /\ Len(ledger[r]) \in Nat /\ Len(ledger'[r]) = Len(ledger[r]) + 1
         /\ ledger'[r][Len(ledger[r]) + 1] = f
         /\ DOMAIN ledger[r] = 1..Len(ledger[r]) /\ DOMAIN ledger'[r] = 1..Len(ledger[r]) + 1
         /\ \A i \in DOMAIN ledger[r] : ledger'[r][i] = ledger[r][i]
<1>1. ledger[r] \in Seq(Line)
  BY DEF RecordTypes
<1>2. ledger'[r] = Append(ledger[r], f) /\ \A q \in Runs \ {r} : ledger'[q] = ledger[q]
  BY DEF RecordTypes
<1>3. Append(ledger[r], f) \in Seq(Line)
  BY <1>1
<1>4. ledger' \in [Runs -> Seq(Line)]
  BY <1>3 DEF RecordTypes
<1> QED BY <1>1, <1>2, <1>4

LEMMA ListedGrows ==
  ASSUME RecordTypes, NEW r \in Runs, NEW f \in Line,
         ledger' = [ledger EXCEPT ![r] = Append(@, f)]
  PROVE  /\ Listed(r)' = Listed(r) \cup {f.sig}
         /\ \A q \in Runs \ {r} : Listed(q)' = Listed(q)
<1>1. \A q \in Runs \ {r} : Listed(q)' = Listed(q)
  BY LedgerGrows DEF Listed
<1>2. Listed(r)' = {ledger'[r][i].sig : i \in DOMAIN ledger'[r]}
  BY DEF Listed
<1>a. Len(ledger[r]) \in Nat
      /\ DOMAIN ledger[r] = 1..Len(ledger[r]) /\ DOMAIN ledger'[r] = 1..Len(ledger[r]) + 1
  BY LedgerGrows
<1>3. DOMAIN ledger'[r] = DOMAIN ledger[r] \cup {Len(ledger[r]) + 1}
  BY <1>a
<1>4. \A i \in DOMAIN ledger[r] : ledger'[r][i].sig = ledger[r][i].sig
  BY LedgerGrows
<1>5. ledger'[r][Len(ledger[r]) + 1].sig = f.sig
  BY LedgerGrows
<1>6. Listed(r)' = {ledger[r][i].sig : i \in DOMAIN ledger[r]} \cup {f.sig}
  BY <1>2, <1>3, <1>4, <1>5
<1> QED BY <1>1, <1>6 DEF Listed

LEMMA EventIs ==
  ASSUME NEW t \in {"verdict", "replay", "recorded", "rejected"}, NEW s \in Sigs, NEW ok \in BOOLEAN
  PROVE  /\ Event(t, s, ok) \in LogEntry
         /\ Event(t, s, ok).type = t /\ Event(t, s, ok).sig = s /\ Event(t, s, ok).ok = ok
  BY DEF Event, LogEntry

LEMMA CallIs ==
  ASSUME RecordTypes, NEW c \in Clerks
  PROVE  /\ clerk[c] \in Call
         /\ clerk[c].verified \in BOOLEAN /\ clerk[c].cut \in BOOLEAN /\ clerk[c].stale \in BOOLEAN
         /\ clerk[c].at # Idle => clerk[c].run \in Runs /\ clerk[c].sig \in Sigs
<1>1. clerk[c] \in Call
  BY DEF RecordTypes
<1>2. clerk[c].verified \in BOOLEAN /\ clerk[c].cut \in BOOLEAN /\ clerk[c].stale \in BOOLEAN
  BY <1>1 DEF Call
<1> QED BY <1>1, <1>2 DEF RecordTypes

LEMMA FindingIs ==
  ASSUME RecordTypes, NEW c \in Clerks, clerk[c].at # Idle
  PROVE  /\ Finding(c) \in Line
         /\ Finding(c).sig = clerk[c].sig /\ Finding(c).verified = clerk[c].verified
         /\ Finding(c).cut = clerk[c].cut /\ Finding(c).position = Len(log[clerk[c].run])
<1>1. clerk[c] \in Call /\ clerk[c].run \in Runs /\ clerk[c].sig \in Sigs
  BY CallIs
<1>2. log[clerk[c].run] \in Seq(LogEntry)
  BY <1>1 DEF RecordTypes
<1>3. Len(log[clerk[c].run]) \in Nat
  BY <1>2
<1>4. clerk[c].verified \in BOOLEAN /\ clerk[c].verdict \in Verdict
      /\ clerk[c].cut \in BOOLEAN /\ clerk[c].stale \in BOOLEAN
  BY <1>1 DEF Call
<1> QED BY <1>1, <1>3, <1>4 DEF Finding, Line

\* What RecordLine and GcDelete do to the calls of the other processes.
LEMMA RecordLineCalls ==
  ASSUME RecordTypes, NEW c \in Clerks, RecordLine(c)
  PROVE  /\ clerk[c].at = "record" /\ clerk[c].run \in Runs /\ clerk[c].sig \in Sigs
         /\ clerk' \in [Clerks -> Call]
         /\ clerk'[c].at = "announce" /\ clerk'[c].run = clerk[c].run /\ clerk'[c].sig = clerk[c].sig
         /\ \A d \in Clerks \ {c} :
              /\ clerk'[d].at = clerk[d].at /\ clerk'[d].run = clerk[d].run
              /\ clerk'[d].sig = clerk[d].sig /\ clerk'[d].cut = clerk[d].cut
              /\ clerk'[d].verified = clerk[d].verified
<1>1. /\ clerk[c].at = "record" /\ clerk[c].run \in Runs /\ clerk[c].sig \in Sigs
      /\ \A d \in Clerks : clerk[d] \in Call
  BY CallIs DEF RecordLine, Idle
<1>2. clerk' = [d \in Clerks |->
        IF d = c THEN [clerk[c] EXCEPT !.at = "announce"]
        ELSE IF clerk[d].at # Idle /\ clerk[d].run = clerk[c].run
          THEN [clerk[d] EXCEPT !.stale = TRUE] ELSE clerk[d]]
  BY AfterIs DEF RecordLine
<1>3. LET new == [clerk[c] EXCEPT !.at = "announce"]
      IN new \in Call /\ new.at = "announce" /\ new.run = clerk[c].run /\ new.sig = clerk[c].sig
  BY <1>1 DEF Call, Places
<1>4. \A d \in Clerks :
        LET new == [clerk[d] EXCEPT !.stale = TRUE]
        IN /\ new \in Call /\ new.at = clerk[d].at /\ new.run = clerk[d].run
           /\ new.sig = clerk[d].sig /\ new.cut = clerk[d].cut /\ new.verified = clerk[d].verified
  BY <1>1 DEF Call
<1> QED BY <1>1, <1>2, <1>3, <1>4

LEMMA GcDeleteCalls ==
  ASSUME RecordTypes, GcDelete
  PROVE  /\ gc.run \in Runs
         /\ clerk' \in [Clerks -> Call]
         /\ \A d \in Clerks :
              /\ clerk'[d].at = clerk[d].at /\ clerk'[d].run = clerk[d].run
              /\ clerk'[d].sig = clerk[d].sig /\ clerk'[d].verified = clerk[d].verified
              /\ clerk'[d].cut = IF clerk[d].at # Idle /\ clerk[d].run = gc.run THEN TRUE
                               ELSE clerk[d].cut
         /\ ledger' \in [Runs -> Seq(Line)] /\ log' \in [Runs -> Seq(LogEntry)]
         /\ ledger'[gc.run] = <<>> /\ log'[gc.run] = <<>>
         /\ \A q \in Runs \ {gc.run} : ledger'[q] = ledger[q] /\ log'[q] = log[q]
<1>1. gc.run \in Runs /\ \A d \in Clerks : clerk[d] \in Call
  BY CallIs DEF GcDelete, MayDelete, RecordTypes, Idle
<1>2. clerk' = [c \in Clerks |->
       IF clerk[c].at # Idle /\ clerk[c].run = gc.run
         THEN [clerk[c] EXCEPT !.cut = TRUE] ELSE clerk[c]]
  BY DEF GcDelete
<1>3. \A d \in Clerks :
        LET new == [clerk[d] EXCEPT !.cut = TRUE]
        IN /\ new \in Call /\ new.at = clerk[d].at /\ new.run = clerk[d].run
           /\ new.sig = clerk[d].sig /\ new.cut = TRUE /\ new.verified = clerk[d].verified
  BY <1>1 DEF Call
<1>4. <<>> \in Seq(Line) /\ <<>> \in Seq(LogEntry)
  OBVIOUS
<1>5. /\ ledger' \in [Runs -> Seq(Line)] /\ log' \in [Runs -> Seq(LogEntry)]
      /\ ledger'[gc.run] = <<>> /\ log'[gc.run] = <<>>
      /\ \A q \in Runs \ {gc.run} : ledger'[q] = ledger[q] /\ log'[q] = log[q]
  BY <1>1, <1>4 DEF GcDelete, RecordTypes
<1> QED BY <1>1, <1>2, <1>3, <1>5

LEMMA RecordTypesStep == RecordTypes /\ [RecordsNext]_records => RecordTypes'
<1> SUFFICES ASSUME RecordTypes, [RecordsNext]_records PROVE RecordTypes'
  OBVIOUS
<1>types. /\ ledger \in [Runs -> Seq(Line)] /\ log \in [Runs -> Seq(LogEntry)]
          /\ dedupe \in Grouping /\ gc \in Pruning
  BY DEF RecordTypes
<1>1. ASSUME NEW c \in Clerks, NEW r \in Runs, NEW s \in Sigs, NEW v \in BOOLEAN, Classify(c, r, s, v)
      PROVE RecordTypes'
  <2>1. PICK verdict \in Verdicts(r, s) :
          Set(c, [NoCall EXCEPT !.at = "classified", !.run = r, !.sig = s, !.verified = v,
                                !.verdict = verdict])
    BY <1>1 DEF Classify
  <2> DEFINE rec == [NoCall EXCEPT !.at = "classified", !.run = r, !.sig = s, !.verified = v,
                                !.verdict = verdict]
  <2>2. rec \in Call /\ rec.run = r /\ rec.sig = s
    BY DEF Call, NoCall, Places, Verdict, Verdicts
  <2> HIDE DEF rec
  <2>3. Set(c, rec)
    BY <2>1 DEF rec
  <2> QED BY <1>1, <2>2, <2>3, CallSet DEF Classify, files, past, RecordTypes
<1>2. ASSUME NEW c \in Clerks, NEW r \in Runs, NEW s \in Sigs, NEW v \in BOOLEAN, Claim(c, r, s, v)
      PROVE RecordTypes'
  <2> DEFINE rec == [NoCall EXCEPT !.at = "record", !.run = r, !.sig = s, !.verified = v,
                                     !.verdict = "CLAIM"]
  <2>1. rec \in Call /\ rec.run = r /\ rec.sig = s
    BY DEF Call, NoCall, Places, Verdict
  <2>2. Event("rejected", s, FALSE) \in LogEntry
    BY EventIs
  <2>3. CASE Accepted(r, s, v)
    <3>1. Set(c, rec) /\ UNCHANGED log
      BY <1>2, <2>3 DEF Claim
    <3> HIDE DEF rec
    <3> QED BY <1>2, <2>1, <3>1, CallSet DEF Claim, past, RecordTypes
  <2>4. CASE ~Accepted(r, s, v)
    <3>1. Logged(r, Event("rejected", s, FALSE)) /\ UNCHANGED clerk
      BY <1>2, <2>4 DEF Claim
    <3>2. log' \in [Runs -> Seq(LogEntry)]
      BY <3>1, <2>2, LogGrows
    <3> QED BY <1>2, <3>1, <3>2 DEF Claim, past, RecordTypes
  <2> QED BY <2>3, <2>4
<1>3. ASSUME NEW c \in Clerks, LogVerdict(c) PROVE RecordTypes'
  <2>1. clerk[c] \in Call /\ clerk[c].run \in Runs /\ clerk[c].sig \in Sigs
    BY <1>3, CallIs DEF LogVerdict, Idle
  <2> DEFINE rec == [clerk[c] EXCEPT !.at = After("classified")]
             e == Event("verdict", clerk[c].sig, clerk[c].verdict \in Recordable)
  <2>2. rec \in Call /\ rec.run = clerk[c].run /\ rec.sig = clerk[c].sig
    BY <2>1, AfterIs DEF Call, Places
  <2>3. e \in LogEntry
    BY <2>1 DEF Event, LogEntry
  <2>4. Set(c, rec) /\ Logged(clerk[c].run, e)
    BY <1>3 DEF LogVerdict
  <2> HIDE DEF rec, e
  <2>5. log' \in [Runs -> Seq(LogEntry)]
    BY <2>1, <2>3, <2>4, LogGrows
  <2> QED BY <1>3, <2>1, <2>2, <2>4, <2>5, CallSet DEF LogVerdict, past, RecordTypes
<1>4. ASSUME NEW c \in Clerks, LogReplay(c) PROVE RecordTypes'
  <2>1. clerk[c] \in Call /\ clerk[c].run \in Runs /\ clerk[c].sig \in Sigs /\ clerk[c].verified \in BOOLEAN
    BY <1>4, CallIs DEF LogReplay, Idle
  <2> DEFINE rec == IF clerk[c].verdict \in Recordable
                      THEN [clerk[c] EXCEPT !.at = After("verified")] ELSE NoCall
             e == Event("replay", clerk[c].sig, clerk[c].verified)
  <2>2. rec \in Call /\ (rec.at # Idle => rec.run = clerk[c].run /\ rec.sig = clerk[c].sig)
    BY <2>1, AfterIs, Idles DEF Call, Places
  <2>3. e \in LogEntry
    BY <2>1, EventIs
  <2>4. Set(c, rec) /\ Logged(clerk[c].run, e)
    BY <1>4 DEF LogReplay
  <2> HIDE DEF rec, e
  <2>5. log' \in [Runs -> Seq(LogEntry)]
    BY <2>1, <2>3, <2>4, LogGrows
  <2> QED BY <1>4, <2>1, <2>2, <2>4, <2>5, CallSet DEF LogReplay, past, RecordTypes
<1>5. ASSUME NEW c \in Clerks, RecordLine(c) PROVE RecordTypes'
  <2>1. clerk[c].at # Idle
    BY <1>5 DEF RecordLine, Idle
  <2>2. Finding(c) \in Line /\ ledger' = [ledger EXCEPT ![clerk[c].run] = Append(@, Finding(c))]
    BY <1>5, <2>1, FindingIs DEF RecordLine
  <2>3. ledger' \in [Runs -> Seq(Line)]
    BY <1>5, <2>2, RecordLineCalls, LedgerGrows
  <2>4. dedupe' \in Grouping /\ dedupe'.at = dedupe.at /\ dedupe'.run = dedupe.run
    BY <1>5, <1>types DEF RecordLine, Grouping
  <2>5. \A d \in Clerks : clerk'[d].at # Idle => clerk'[d].run \in Runs /\ clerk'[d].sig \in Sigs
    BY <1>5, RecordLineCalls, CallIs
  <2>6. made' \subseteq Runs \X Sigs
    <3>1. made' = made \cup {<<clerk[c].run, clerk[c].sig>>}
      BY <1>5 DEF RecordLine
    <3> QED BY <1>5, <3>1, RecordLineCalls DEF RecordTypes
  <2>7. clerk' \in [Clerks -> Call]
    BY <1>5, RecordLineCalls
  <2> QED BY <1>5, <2>3, <2>4, <2>5, <2>6, <2>7 DEF RecordLine, RecordTypes
<1>6. ASSUME NEW c \in Clerks, Announce(c) PROVE RecordTypes'
  <2>1. clerk[c] \in Call /\ clerk[c].run \in Runs /\ clerk[c].sig \in Sigs
    BY <1>6, CallIs DEF Announce, Idle
  <2> DEFINE rec == [clerk[c] EXCEPT !.at = After("announce")]
             e == Event("recorded", clerk[c].sig, TRUE)
  <2>2. rec \in Call /\ rec.run = clerk[c].run /\ rec.sig = clerk[c].sig
    BY <2>1, AfterIs DEF Call, Places
  <2>3. e \in LogEntry
    BY <2>1, EventIs
  <2>4. Set(c, rec) /\ Logged(clerk[c].run, e)
    BY <1>6 DEF Announce
  <2> HIDE DEF rec, e
  <2>5. log' \in [Runs -> Seq(LogEntry)]
    BY <2>1, <2>3, <2>4, LogGrows
  <2> QED BY <1>6, <2>1, <2>2, <2>4, <2>5, CallSet DEF Announce, past, RecordTypes
<1>7. ASSUME NEW c \in Clerks, Mirror(c) PROVE RecordTypes'
  <2>1. clerk[c].run \in Runs /\ clerk[c].sig \in Sigs
    BY <1>7, CallIs DEF Mirror, Idle
  <2>2. index' \subseteq Runs \X Sigs
    BY <1>7, <2>1 DEF Mirror, RecordTypes
  <2>3. Set(c, NoCall)
    BY <1>7 DEF Mirror
  <2> QED BY <1>7, <2>2, <2>3, Idles, CallSet DEF Mirror, past, RecordTypes
<1>8. ASSUME NEW c \in Clerks, Abandon(c) PROVE RecordTypes'
  <2>1. Set(c, NoCall)
    BY <1>8 DEF Abandon
  <2> QED BY <1>8, <2>1, Idles, CallSet DEF Abandon, files, RecordTypes
<1>9. ASSUME NEW r \in Runs, NEW s \in Sigs, NEW v \in BOOLEAN, Replay(r, s, v) PROVE RecordTypes'
  <2>1. Event("replay", s, v) \in LogEntry
    BY EventIs
  <2>2. log' \in [Runs -> Seq(LogEntry)]
    BY <1>9, <2>1, LogGrows DEF Replay
  <2> QED BY <1>9, <2>2 DEF Replay, past, RecordTypes
<1>10. ASSUME NEW r \in Runs, DedupeRead(r) PROVE RecordTypes'
  <2>1. ledger[r] \in Seq(Line)
    BY <1>types
  <2>2. Len(ledger[r]) \in Nat
    BY <2>1
  <2>3. dedupe' = [NoDedupe EXCEPT !.at = "read", !.run = r, !.lines = Len(ledger[r])]
    BY <1>10 DEF DedupeRead
  <2>4. dedupe' \in Grouping /\ dedupe'.run = r
    BY <2>2, <2>3 DEF NoDedupe, Grouping
  <2> QED BY <1>10, <2>4 DEF DedupeRead, files, past, RecordTypes
<1>11. ASSUME DedupeLog PROVE RecordTypes'
  <2> DEFINE e == [type |-> "dedupe", lines |-> dedupe.lines, late |-> dedupe.late]
  <2>1. e \in LogEntry /\ dedupe.run \in Runs
    BY <1>11, <1>types DEF LogEntry, Grouping, DedupeLog, RecordTypes, Idle
  <2>2. Logged(dedupe.run, e) /\ dedupe' = NoDedupe
    BY <1>11 DEF DedupeLog
  <2> HIDE DEF e
  <2>3. log' \in [Runs -> Seq(LogEntry)]
    BY <2>1, <2>2, LogGrows
  <2> QED BY <1>11, <2>2, <2>3, Idles DEF DedupeLog, past, RecordTypes
<1>12. ASSUME NEW r \in Runs, GcCopy(r) PROVE RecordTypes'
  <2>1. PICK fits \in BOOLEAN :
          gc' = [at |-> "copied", run |-> r, copy |-> IF fits THEN Listed(r) ELSE {}]
    BY <1>12 DEF GcCopy
  <2>2. Listed(r) \in SUBSET Sigs
    BY ListedSigs
  <2>3. gc' \in Pruning /\ gc'.run = r
    BY <2>1, <2>2 DEF Pruning
  <2> QED BY <1>12, <2>3 DEF GcCopy, files, RecordTypes
<1>13. ASSUME NEW r \in Runs, DropArchive(r) PROVE RecordTypes'
  BY <1>13, Idles DEF DropArchive, RecordTypes
<1>14. ASSUME GcInstall PROVE RecordTypes'
  <2>1. gc.run \in Runs /\ [there |-> TRUE, sigs |-> gc.copy] \in Archived
    BY <1>14, <1>types DEF GcInstall, RecordTypes, Pruning, Archived, Idle
  <2>2. archive' \in [Runs -> Archived]
    BY <1>14, <2>1 DEF GcInstall, RecordTypes
  <2>3. gc' = [gc EXCEPT !.at = "installed"]
    BY <1>14 DEF GcInstall
  <2>4. gc' \in Pruning /\ gc'.run = gc.run
    BY <1>types, <2>3 DEF Pruning
  <2> QED BY <1>14, <2>1, <2>2, <2>4 DEF GcInstall, past, RecordTypes
<1>15. ASSUME GcDelete PROVE RecordTypes'
  <2>1. /\ clerk' \in [Clerks -> Call]
        /\ \A d \in Clerks : clerk'[d].at # Idle => clerk'[d].run \in Runs /\ clerk'[d].sig \in Sigs
        /\ ledger' \in [Runs -> Seq(Line)] /\ log' \in [Runs -> Seq(LogEntry)]
    BY <1>15, GcDeleteCalls, CallIs
  <2> QED BY <1>15, <2>1, Idles DEF GcDelete, past, RecordTypes
<1>16. ASSUME GcKilled PROVE RecordTypes'
  BY <1>16, Idles DEF GcKilled, files, past, RecordTypes
<1>17. CASE UNCHANGED records
  BY <1>17 DEF records, files, past, RecordTypes
<1>18. ASSUME NEW c \in Clerks, ClerkNext(c) PROVE RecordTypes'
  BY <1>1, <1>2, <1>3, <1>4, <1>5, <1>6, <1>7, <1>8, <1>18 DEF ClerkNext
<1>19. CASE GcNext
  BY <1>12, <1>13, <1>14, <1>15, <1>16, <1>19 DEF GcNext
<1> QED BY <1>9, <1>10, <1>11, <1>17, <1>18, <1>19 DEF RecordsNext

-----------------------------------------------------------------------------
(* What was recorded stays known *)

\* The index: a finding is in it, on its way to it, or one whose copy failed.
Announcing(c) == clerk[c].at \in {"announce", "mirror"}

MirroredOrNoted ==
  \A r \in Runs, s \in Sigs : <<r, s>> \in made =>
    \/ <<r, s>> \in index
    \/ \E c \in Clerks : Announcing(c) /\ clerk[c].run = r /\ clerk[c].sig = s
    \/ <<r, s>> \in unmirrored

\* The archive: a finding is in the ledger, in the archive, or one that no
\* archive holds.  For that a deletion must find everything that is listed in
\* the archive it installed, and an archive is never installed over another.
Kept(r, s) == s \in Listed(r) \/ s \in archive[r].sigs \/ <<r, s>> \in uncopied

KeptOrNoted ==
  /\ \A r \in Runs, s \in Sigs : <<r, s>> \in made => Kept(r, s)
  /\ gc.at # Idle => \A s \in Listed(gc.run) : s \in gc.copy \/ <<gc.run, s>> \in uncopied
  /\ gc.at = "installed" =>
       \A s \in gc.copy : s \in archive[gc.run].sigs \/ <<gc.run, s>> \in uncopied
  /\ gc.at = "copied" => ~archive[gc.run].there
  /\ \A r \in Runs : ~archive[r].there => archive[r].sigs = {}

LEMMA KeptOrNotedInit == RecordsInit => KeptOrNoted
<1> SUFFICES ASSUME RecordsInit PROVE KeptOrNoted
  OBVIOUS
<1>1. made = {} /\ gc.at = Idle /\ \A r \in Runs : archive[r].sigs = {}
  BY Idles DEF RecordsInit
<1> QED BY <1>1 DEF KeptOrNoted, Idle

LEMMA KeptOrNotedStep ==
  RecordTypes /\ KeptOrNoted /\ [RecordsNext]_records => KeptOrNoted'
<1> SUFFICES ASSUME RecordTypes, KeptOrNoted, [RecordsNext]_records PROVE KeptOrNoted'
  OBVIOUS
<1>types. gc \in Pruning /\ (gc.at # Idle => gc.run \in Runs) /\ archive \in [Runs -> Archived]
  BY DEF RecordTypes
<1>0. ASSUME UNCHANGED <<ledger, archive, gc, made, uncopied>> PROVE KeptOrNoted'
  BY <1>0 DEF KeptOrNoted, Kept, Listed
<1>1. ASSUME NEW c \in Clerks, RecordLine(c) PROVE KeptOrNoted'
  <2>1. PICK q \in Runs, t \in Sigs :
          q = clerk[c].run /\ t = clerk[c].sig /\ clerk[c].at # Idle
    BY <1>1, RecordLineCalls DEF Idle
  <2>2. Finding(c) \in Line /\ Finding(c).sig = t /\ ledger' = [ledger EXCEPT ![q] = Append(@, Finding(c))]
    BY <1>1, <2>1, FindingIs DEF RecordLine
  <2>3. /\ Listed(q)' = Listed(q) \cup {t}
        /\ \A r \in Runs \ {q} : Listed(r)' = Listed(r)
    BY <2>2, ListedGrows
  <2>4. /\ made' = made \cup {<<q, t>>}
        /\ uncopied' = IF gc.at # Idle /\ gc.run = q THEN uncopied \cup {<<q, t>>} ELSE uncopied
        /\ archive' = archive /\ gc' = gc
    BY <1>1, <2>1 DEF RecordLine
  <2>5. \A r \in Runs, s \in Sigs : <<r, s>> \in made' => Kept(r, s)'
    BY <2>3, <2>4 DEF KeptOrNoted, Kept
  <2>6. \A r \in Runs : gc.at # Idle /\ gc.run = r =>
          \A s \in Listed(r)' : s \in gc.copy \/ <<r, s>> \in uncopied'
    BY <2>3, <2>4 DEF KeptOrNoted
  <2>7. gc'.at # Idle => \A s \in Listed(gc.run)' : s \in gc'.copy \/ <<gc'.run, s>> \in uncopied'
    BY <1>types, <2>4, <2>6 DEF Listed
  <2> QED BY <2>4, <2>5, <2>7 DEF KeptOrNoted
<1>2. ASSUME NEW r \in Runs, GcCopy(r) PROVE KeptOrNoted'
  <2>1. PICK fits \in BOOLEAN :
          /\ gc' = [at |-> "copied", run |-> r, copy |-> IF fits THEN Listed(r) ELSE {}]
          /\ uncopied' = IF fits THEN uncopied ELSE uncopied \cup ({r} \X Listed(r))
    BY <1>2 DEF GcCopy
  <2>2. ~archive[r].there /\ UNCHANGED <<ledger, archive, made>>
    BY <1>2 DEF GcCopy, files
  <2>3. gc'.at = "copied" /\ gc'.run = r /\ gc'.copy = IF fits THEN Listed(r) ELSE {}
    BY <2>1
  <2>4. \A s \in Listed(r) : s \in gc'.copy \/ <<r, s>> \in uncopied'
    BY <2>1, <2>3
  <2>5. \A q \in Runs : Listed(q)' = Listed(q)
    BY <2>2 DEF Listed
  <2>6. uncopied \subseteq uncopied'
    BY <2>1
  <2>7. \A q \in Runs, s \in Sigs : <<q, s>> \in made' => Kept(q, s)'
    BY <2>2, <2>5, <2>6 DEF KeptOrNoted, Kept
  <2> HIDE DEF GcCopy
  <2> QED BY <2>2, <2>3, <2>4, <2>5, <2>7 DEF KeptOrNoted, Listed
<1>3. ASSUME NEW r \in Runs, DropArchive(r) PROVE KeptOrNoted'
  <2>1. /\ archive' = [archive EXCEPT ![r] = NoArchive]
        /\ uncopied' = uncopied \cup ({r} \X archive[r].sigs)
        /\ UNCHANGED <<ledger, gc, made>>
    BY <1>3 DEF DropArchive
  <2>2. archive'[r] = NoArchive /\ \A q \in Runs \ {r} : archive'[q] = archive[q]
    BY <1>types, <2>1
  <2>3. \A s \in archive[r].sigs : <<r, s>> \in uncopied'
    BY <2>1
  <2>4. \A q \in Runs : Listed(q)' = Listed(q)
    BY <2>1 DEF Listed
  <2>5. \A q \in Runs, s \in Sigs : <<q, s>> \in made' => Kept(q, s)'
    BY <2>1, <2>2, <2>3, <2>4 DEF KeptOrNoted, Kept
  <2>6. gc.at # Idle => \A s \in Listed(gc.run) : s \in gc.copy \/ <<gc.run, s>> \in uncopied'
    BY <2>1 DEF KeptOrNoted
  <2>7. gc.at = "installed" =>
          \A s \in gc.copy : s \in archive'[gc.run].sigs \/ <<gc.run, s>> \in uncopied'
    BY <1>types, <2>1, <2>2, <2>3 DEF KeptOrNoted, Idle
  <2>8. gc.at = "copied" => ~archive'[gc.run].there
    BY <1>types, <2>2, Idles DEF KeptOrNoted, Idle
  <2>9. \A q \in Runs : ~archive'[q].there => archive'[q].sigs = {}
    BY <2>2, Idles DEF KeptOrNoted
  <2> QED BY <2>1, <2>4, <2>5, <2>6, <2>7, <2>8, <2>9 DEF KeptOrNoted, Listed
<1>4. ASSUME GcInstall PROVE KeptOrNoted'
  <2>1. gc.at = "copied" /\ gc.run \in Runs
    BY <1>4, <1>types DEF GcInstall, Idle
  <2>2. archive'[gc.run] = [there |-> TRUE, sigs |-> gc.copy]
        /\ \A q \in Runs \ {gc.run} : archive'[q] = archive[q]
    BY <1>4, <1>types, <2>1 DEF GcInstall
  <2>3. gc'.at = "installed" /\ gc'.run = gc.run /\ gc'.copy = gc.copy
    BY <1>4, <1>types DEF GcInstall, Pruning
  <2>4. UNCHANGED <<ledger, made, uncopied>>
    BY <1>4 DEF GcInstall, past
  <2>5. archive[gc.run].sigs = {}
    BY <2>1 DEF KeptOrNoted
  <2>6. \A q \in Runs : Listed(q)' = Listed(q)
    BY <2>4 DEF Listed
  <2>7. \A q \in Runs, s \in Sigs : <<q, s>> \in made' => Kept(q, s)'
    BY <2>2, <2>4, <2>5, <2>6 DEF KeptOrNoted, Kept
  <2>8. archive'[gc.run].there /\ archive'[gc.run].sigs = gc.copy
    BY <2>2
  <2>9. \A q \in Runs : ~archive'[q].there => archive'[q].sigs = {}
    BY <2>2, <2>8 DEF KeptOrNoted
  <2> QED BY <2>1, <2>3, <2>4, <2>6, <2>7, <2>8, <2>9 DEF KeptOrNoted, Listed, Idle
<1>5. ASSUME GcDelete PROVE KeptOrNoted'
  <2>1. gc.at = "installed" /\ gc' = NoPrune /\ UNCHANGED <<archive, made, uncopied>>
    BY <1>5 DEF GcDelete, MayDelete, past
  <2>2. gc.run \in Runs /\ \A q \in Runs \ {gc.run} : ledger'[q] = ledger[q]
    BY <1>5, GcDeleteCalls
  <2>3. \A q \in Runs \ {gc.run} : Listed(q)' = Listed(q)
    BY <2>2 DEF Listed
  <2>4. \A s \in Listed(gc.run) : s \in archive[gc.run].sigs \/ <<gc.run, s>> \in uncopied
    BY <2>1 DEF KeptOrNoted, Idle
  <2>5. \A q \in Runs, s \in Sigs : <<q, s>> \in made' => Kept(q, s)'
    BY <2>1, <2>2, <2>3, <2>4 DEF KeptOrNoted, Kept
  <2> QED BY <2>1, <2>5, Idles DEF KeptOrNoted, Idle
<1>6. ASSUME GcKilled PROVE KeptOrNoted'
  <2>1. gc' = NoPrune /\ UNCHANGED <<ledger, archive, made, uncopied>>
    BY <1>6 DEF GcKilled, files, past
  <2> QED BY <2>1, Idles DEF KeptOrNoted, Kept, Listed, Idle
<1>7. ASSUME NEW c \in Clerks, ClerkNext(c) PROVE KeptOrNoted'
  <2>1. ASSUME NEW r \in Runs, NEW s \in Sigs, NEW v \in BOOLEAN, Classify(c, r, s, v) \/ Claim(c, r, s, v)
        PROVE KeptOrNoted'
    BY <1>0, <2>1 DEF Classify, Claim, files, past
  <2>2. CASE LogVerdict(c) \/ LogReplay(c)
    BY <1>0, <2>2 DEF LogVerdict, LogReplay, past
  <2>3. CASE Announce(c) \/ Mirror(c)
    BY <1>0, <2>3 DEF Announce, Mirror, past
  <2>4. CASE Abandon(c)
    BY <1>0, <2>4 DEF Abandon, files
  <2> QED BY <1>1, <1>7, <2>1, <2>2, <2>3, <2>4 DEF ClerkNext
<1>8. ASSUME NEW r \in Runs, NEW s \in Sigs, NEW v \in BOOLEAN, Replay(r, s, v) PROVE KeptOrNoted'
  BY <1>0, <1>8 DEF Replay, past
<1>9. ASSUME NEW r \in Runs, DedupeRead(r) PROVE KeptOrNoted'
  BY <1>0, <1>9 DEF DedupeRead, files, past
<1>10. CASE DedupeLog
  BY <1>0, <1>10 DEF DedupeLog, past
<1>11. CASE GcNext
  BY <1>2, <1>3, <1>4, <1>5, <1>6, <1>11 DEF GcNext
<1>12. CASE UNCHANGED records
  BY <1>0, <1>12 DEF records, files, past
<1> QED BY <1>7, <1>8, <1>9, <1>10, <1>11, <1>12 DEF RecordsNext

\* A step of one process that does not take a finding off its way to the index.
LEMMA StaysMirrored ==
  ASSUME RecordTypes, MirroredOrNoted, NEW c \in Clerks,
         \A d \in Clerks \ {c} : clerk'[d].at = clerk[d].at /\ clerk'[d].run = clerk[d].run
                                  /\ clerk'[d].sig = clerk[d].sig,
         index \subseteq index', unmirrored \subseteq unmirrored', made' = made,
         Announcing(c) =>
           \/ Announcing(c)' /\ clerk'[c].run = clerk[c].run /\ clerk'[c].sig = clerk[c].sig
           \/ <<clerk[c].run, clerk[c].sig>> \in index' \cup unmirrored'
  PROVE  MirroredOrNoted'
<1> SUFFICES ASSUME NEW r \in Runs, NEW s \in Sigs, <<r, s>> \in made,
                    <<r, s>> \notin index', <<r, s>> \notin unmirrored'
             PROVE  \E d \in Clerks : Announcing(d)' /\ clerk'[d].run = r /\ clerk'[d].sig = s
  BY DEF MirroredOrNoted
<1>1. PICK d \in Clerks : Announcing(d) /\ clerk[d].run = r /\ clerk[d].sig = s
  BY DEF MirroredOrNoted
<1>2. CASE d = c
  BY <1>1, <1>2
<1>3. CASE d # c
  BY <1>1, <1>3 DEF Announcing
<1> QED BY <1>2, <1>3

LEMMA MirroredOrNotedStep ==
  RecordTypes /\ MirroredOrNoted /\ [RecordsNext]_records => MirroredOrNoted'
<1> SUFFICES ASSUME RecordTypes, MirroredOrNoted, [RecordsNext]_records PROVE MirroredOrNoted'
  OBVIOUS
<1>0. ASSUME UNCHANGED <<index, clerk, made, unmirrored>> PROVE MirroredOrNoted'
  BY <1>0 DEF MirroredOrNoted, Announcing
<1>1. ASSUME NEW c \in Clerks, NEW rec, Set(c, rec)
      PROVE  clerk'[c] = rec /\ \A d \in Clerks \ {c} : clerk'[d] = clerk[d]
  BY <1>1 DEF Set, RecordTypes
<1>2. ASSUME NEW c \in Clerks, NEW rec, Set(c, rec), clerk[c].at \notin {"announce", "mirror"},
             UNCHANGED <<index, made, unmirrored>>
      PROVE  MirroredOrNoted'
  <2>1. clerk'[c] = rec /\ \A d \in Clerks \ {c} : clerk'[d] = clerk[d]
    BY <1>1, <1>2
  <2> QED BY <1>2, <2>1, StaysMirrored DEF Announcing
<1>3. ASSUME NEW c \in Clerks, NEW r \in Runs, NEW s \in Sigs, NEW v \in BOOLEAN, Classify(c, r, s, v)
      PROVE MirroredOrNoted'
  <2>1. PICK verdict \in Verdicts(r, s) :
          Set(c, [NoCall EXCEPT !.at = "classified", !.run = r, !.sig = s, !.verified = v,
                                !.verdict = verdict])
    BY <1>3 DEF Classify
  <2>2. clerk[c].at = Idle /\ UNCHANGED <<index, made, unmirrored>>
    BY <1>3 DEF Classify, files, past
  <2> QED BY <1>2, <2>1, <2>2 DEF Idle
<1>4. ASSUME NEW c \in Clerks, NEW r \in Runs, NEW s \in Sigs, NEW v \in BOOLEAN, Claim(c, r, s, v)
      PROVE MirroredOrNoted'
  <2>1. clerk[c].at = Idle /\ UNCHANGED <<index, made, unmirrored>>
    BY <1>4 DEF Claim, past
  <2>2. CASE Accepted(r, s, v)
    <3>1. Set(c, [NoCall EXCEPT !.at = "record", !.run = r, !.sig = s, !.verified = v,
                                     !.verdict = "CLAIM"])
      BY <1>4, <2>2 DEF Claim
    <3> QED BY <1>2, <2>1, <3>1 DEF Idle
  <2>3. CASE ~Accepted(r, s, v)
    BY <1>0, <1>4, <2>1, <2>3 DEF Claim
  <2> QED BY <2>2, <2>3
<1>5. ASSUME NEW c \in Clerks, LogVerdict(c) PROVE MirroredOrNoted'
  <2>1. Set(c, [clerk[c] EXCEPT !.at = After("classified")]) /\ clerk[c].at = "classified"
        /\ UNCHANGED <<index, made, unmirrored>>
    BY <1>5 DEF LogVerdict, past
  <2> QED BY <1>2, <2>1
<1>6. ASSUME NEW c \in Clerks, LogReplay(c) PROVE MirroredOrNoted'
  <2> DEFINE rec == IF clerk[c].verdict \in Recordable
                      THEN [clerk[c] EXCEPT !.at = After("verified")] ELSE NoCall
  <2>1. Set(c, rec) /\ clerk[c].at = "verified" /\ UNCHANGED <<index, made, unmirrored>>
    BY <1>6 DEF LogReplay, past
  <2> HIDE DEF rec
  <2> QED BY <1>2, <2>1
<1>7. ASSUME NEW c \in Clerks, RecordLine(c) PROVE MirroredOrNoted'
  <2>1. /\ clerk[c].at = "record" /\ clerk'[c].at = "announce"
        /\ clerk'[c].run = clerk[c].run /\ clerk'[c].sig = clerk[c].sig
        /\ \A d \in Clerks \ {c} : clerk'[d].at = clerk[d].at /\ clerk'[d].run = clerk[d].run
                                    /\ clerk'[d].sig = clerk[d].sig
    BY <1>7, RecordLineCalls
  <2>2. made' = made \cup {<<clerk[c].run, clerk[c].sig>>} /\ UNCHANGED <<index, unmirrored>>
    BY <1>7 DEF RecordLine
  <2> SUFFICES ASSUME NEW r \in Runs, NEW s \in Sigs, <<r, s>> \in made',
                      <<r, s>> \notin index', <<r, s>> \notin unmirrored'
               PROVE  \E d \in Clerks : Announcing(d)' /\ clerk'[d].run = r /\ clerk'[d].sig = s
    BY DEF MirroredOrNoted
  <2>3. CASE <<r, s>> \in made
    <3>1. PICK d \in Clerks : Announcing(d) /\ clerk[d].run = r /\ clerk[d].sig = s
      BY <2>2, <2>3 DEF MirroredOrNoted
    <3>2. d # c
      BY <2>1, <3>1 DEF Announcing
    <3> QED BY <2>1, <3>1, <3>2 DEF Announcing
  <2>4. CASE <<r, s>> \notin made
    <3>1. r = clerk[c].run /\ s = clerk[c].sig
      BY <2>2, <2>4
    <3> QED BY <2>1, <3>1 DEF Announcing
  <2> QED BY <2>3, <2>4
<1>8. ASSUME NEW c \in Clerks, Announce(c) PROVE MirroredOrNoted'
  <2>1. clerk[c] \in Call
    BY CallIs
  <2>2. Set(c, [clerk[c] EXCEPT !.at = "mirror"]) /\ UNCHANGED <<index, made, unmirrored>>
    BY <1>8, AfterIs DEF Announce, past
  <2>3. clerk'[c] = [clerk[c] EXCEPT !.at = "mirror"] /\ \A d \in Clerks \ {c} : clerk'[d] = clerk[d]
    BY <1>1, <2>2
  <2>4. clerk'[c].at = "mirror" /\ clerk'[c].run = clerk[c].run /\ clerk'[c].sig = clerk[c].sig
    BY <2>1, <2>3 DEF Call
  <2> QED BY <2>2, <2>3, <2>4, StaysMirrored DEF Announcing
<1>9. ASSUME NEW c \in Clerks, Mirror(c) PROVE MirroredOrNoted'
  <2>1. Set(c, NoCall) /\ index' = index \cup {<<clerk[c].run, clerk[c].sig>>}
        /\ UNCHANGED <<made, unmirrored>>
    BY <1>9 DEF Mirror, past
  <2>2. \A d \in Clerks \ {c} : clerk'[d] = clerk[d]
    BY <1>1, <2>1
  <2> QED BY <2>1, <2>2, StaysMirrored
<1>10. ASSUME NEW c \in Clerks, Abandon(c) PROVE MirroredOrNoted'
  <2>1. Set(c, NoCall) /\ UNCHANGED <<index, made>>
        /\ unmirrored' = IF clerk[c].at \in {"announce", "mirror"}
                           THEN unmirrored \cup {<<clerk[c].run, clerk[c].sig>>} ELSE unmirrored
    BY <1>10 DEF Abandon, files
  <2>2. \A d \in Clerks \ {c} : clerk'[d] = clerk[d]
    BY <1>1, <2>1
  <2> QED BY <2>1, <2>2, StaysMirrored DEF Announcing
<1>11. CASE GcDelete
  <2>1. \A d \in Clerks : clerk'[d].at = clerk[d].at /\ clerk'[d].run = clerk[d].run
                          /\ clerk'[d].sig = clerk[d].sig
    BY <1>11, GcDeleteCalls
  <2>2. UNCHANGED <<index, made, unmirrored>>
    BY <1>11 DEF GcDelete, past
  <2> QED BY <2>1, <2>2 DEF MirroredOrNoted, Announcing
<1>12. ASSUME NEW r \in Runs, GcCopy(r) \/ DropArchive(r) PROVE MirroredOrNoted'
  BY <1>0, <1>12 DEF GcCopy, DropArchive, files
<1>13. CASE GcInstall \/ GcKilled
  BY <1>0, <1>13 DEF GcInstall, GcKilled, files, past
<1>14. ASSUME NEW r \in Runs, NEW s \in Sigs, NEW v \in BOOLEAN, Replay(r, s, v) PROVE MirroredOrNoted'
  BY <1>0, <1>14 DEF Replay, past
<1>15. ASSUME NEW r \in Runs, DedupeRead(r) PROVE MirroredOrNoted'
  BY <1>0, <1>15 DEF DedupeRead, files, past
<1>16. CASE DedupeLog
  BY <1>0, <1>16 DEF DedupeLog, past
<1>17. CASE UNCHANGED records
  BY <1>0, <1>17 DEF records, files, past
<1>18. ASSUME NEW c \in Clerks, ClerkNext(c) PROVE MirroredOrNoted'
  BY <1>3, <1>4, <1>5, <1>6, <1>7, <1>8, <1>9, <1>10, <1>18 DEF ClerkNext
<1>19. CASE GcNext
  BY <1>11, <1>12, <1>13, <1>19 DEF GcNext
<1> QED BY <1>14, <1>15, <1>16, <1>17, <1>18, <1>19 DEF RecordsNext

\* What a rebuild does leaves the records alone.
LEMMA IndexStepIs == [IndexNext]_<<recordsVars, indexVars>> => [RecordsNext]_records
<1> SUFFICES ASSUME [IndexNext]_<<recordsVars, indexVars>> PROVE [RecordsNext]_records
  OBVIOUS
<1>1. CASE UNCHANGED <<recordsVars, indexVars>>
  BY <1>1 DEF records, recordsVars
<1>2. CASE IndexNext
  BY <1>2 DEF IndexNext, records
<1> QED BY <1>1, <1>2

\* What was recorded stays known: however the appends of a finding, killed
\* processes and the retention of its run interleave, a finding that is in no
\* ledger, archive or index missed both its copy to the index and an archive.
THEOREM NeverLost == IndexSpec => []NothingLost
<1>1. IndexInit => RecordTypes /\ KeptOrNoted /\ MirroredOrNoted
  BY RecordTypesInit, KeptOrNotedInit DEF IndexInit, RecordsInit, MirroredOrNoted
<1>2. RecordTypes /\ KeptOrNoted /\ MirroredOrNoted /\ [IndexNext]_<<recordsVars, indexVars>>
        => (RecordTypes /\ KeptOrNoted /\ MirroredOrNoted)'
  BY IndexStepIs, RecordTypesStep, KeptOrNotedStep, MirroredOrNotedStep
<1>3. RecordTypes /\ KeptOrNoted /\ MirroredOrNoted => NothingLost
  <2> SUFFICES ASSUME RecordTypes, KeptOrNoted, MirroredOrNoted, NEW m \in made
               PROVE  \/ m \in Known
                      \/ \E c \in Clerks : clerk[c].at \in {"announce", "mirror"}
                                          /\ m = <<clerk[c].run, clerk[c].sig>>
                      \/ m \in unmirrored /\ m \in uncopied
    BY DEF NothingLost
  <2>1. PICK r \in Runs, s \in Sigs : m = <<r, s>>
    BY DEF RecordTypes
  <2>2. m \in index \/ s \in Listed(r) \/ s \in archive[r].sigs => m \in Known
    BY <2>1 DEF Known
  <2>3. Kept(r, s)
    BY <2>1 DEF KeptOrNoted
  <2> QED BY <2>1, <2>2, <2>3 DEF Kept, MirroredOrNoted, Announcing
<1> QED BY <1>1, <1>2, <1>3, PTL DEF IndexSpec

-----------------------------------------------------------------------------
(* A finding listed as verified follows a positive replay *)

\* The evidence is in the log before the finding is appended, and the log of a
\* call whose run was not deleted only grows.
Backed(c) ==
  clerk[c].at = "record" /\ clerk[c].verified /\ ~clerk[c].cut
    => Evidence(log[clerk[c].run], clerk[c].sig, Len(log[clerk[c].run]))

VerifiedIsBacked == VerifiedHasEvidence /\ \A c \in Clerks : Backed(c)

LogsOnlyGrow ==
  \A r \in Runs :
    /\ Len(log[r]) \in Nat /\ Len(log'[r]) \in Nat /\ Len(log[r]) <= Len(log'[r])
    /\ \A i \in DOMAIN log[r] : i \in DOMAIN log'[r] /\ log'[r][i] = log[r][i]

LEMMA LogsUnchanged == RecordTypes /\ UNCHANGED log => LogsOnlyGrow
<1> SUFFICES ASSUME RecordTypes, UNCHANGED log, NEW r \in Runs PROVE Len(log[r]) \in Nat
  BY DEF LogsOnlyGrow
<1>1. log[r] \in Seq(LogEntry)
  BY DEF RecordTypes
<1> QED BY <1>1

LEMMA LogsAppended ==
  ASSUME RecordTypes, NEW r \in Runs, NEW e \in LogEntry, Logged(r, e)
  PROVE  LogsOnlyGrow
<1> SUFFICES ASSUME NEW q \in Runs
             PROVE  /\ Len(log[q]) \in Nat /\ Len(log'[q]) \in Nat /\ Len(log[q]) <= Len(log'[q])
                    /\ \A i \in DOMAIN log[q] : i \in DOMAIN log'[q] /\ log'[q][i] = log[q][i]
  BY DEF LogsOnlyGrow
<1>1. log[q] \in Seq(LogEntry)
  BY DEF RecordTypes
<1>2. CASE q = r
  <2>1. /\ Len(log[r]) \in Nat /\ Len(log'[r]) = Len(log[r]) + 1
        /\ DOMAIN log[r] = 1..Len(log[r]) /\ DOMAIN log'[r] = 1..Len(log[r]) + 1
        /\ \A i \in DOMAIN log[r] : log'[r][i] = log[r][i]
    BY LogGrows
  <2> QED BY <1>2, <2>1
<1>3. CASE q # r
  <2>1. log'[q] = log[q]
    BY <1>3, LogGrows
  <2> QED BY <1>1, <2>1
<1> QED BY <1>2, <1>3

LEMMA EvidenceStays ==
  ASSUME LogsOnlyGrow, NEW r \in Runs, NEW s, NEW n, Evidence(log[r], s, n)
  PROVE  Evidence(log'[r], s, n)
  BY DEF LogsOnlyGrow, Evidence

LEMMA EvidenceOfAll ==
  ASSUME RecordTypes, LogsOnlyGrow, NEW r \in Runs, NEW s, Evidence(log[r], s, Len(log[r]))
  PROVE  Evidence(log'[r], s, Len(log'[r]))
<1>1. PICK i \in DOMAIN log[r] :
        i <= Len(log[r]) /\ log[r][i].type = "replay" /\ log[r][i].sig = s /\ log[r][i].ok
  BY DEF Evidence
<1>2. log[r] \in Seq(LogEntry)
  BY DEF RecordTypes
<1>3. i \in Nat
  BY <1>1, <1>2
<1>4. i <= Len(log'[r])
  BY <1>1, <1>3 DEF LogsOnlyGrow
<1> QED BY <1>1, <1>4 DEF LogsOnlyGrow, Evidence

\* A step that leaves the ledgers alone.
LEMMA StaysBacked ==
  ASSUME RecordTypes, VerifiedIsBacked, LogsOnlyGrow, UNCHANGED ledger,
         \A c \in Clerks : clerk'[c] = clerk[c] \/ Backed(c)'
  PROVE  VerifiedIsBacked'
<1>1. VerifiedHasEvidence'
  BY EvidenceStays DEF VerifiedIsBacked, VerifiedHasEvidence
<1>2. ASSUME NEW c \in Clerks, clerk'[c] = clerk[c] PROVE Backed(c)'
  <2> SUFFICES ASSUME clerk[c].at = "record", clerk[c].verified, ~clerk[c].cut
               PROVE  Evidence(log'[clerk[c].run], clerk[c].sig, Len(log'[clerk[c].run]))
    BY <1>2 DEF Backed
  <2>1. PICK r \in Runs : r = clerk[c].run
    BY CallIs DEF Idle
  <2>2. Evidence(log[r], clerk[c].sig, Len(log[r]))
    BY <2>1 DEF VerifiedIsBacked, Backed
  <2> QED BY <2>1, <2>2, EvidenceOfAll
<1> QED BY <1>1, <1>2 DEF VerifiedIsBacked

LEMMA VerifiedIsBackedStep ==
  RecordTypes /\ VerifiedIsBacked /\ [RecordsNext]_records => VerifiedIsBacked'
<1> SUFFICES ASSUME RecordTypes, VerifiedIsBacked, [RecordsNext]_records PROVE VerifiedIsBacked'
  OBVIOUS
<1>0. ASSUME UNCHANGED <<ledger, clerk>>, LogsOnlyGrow PROVE VerifiedIsBacked'
  BY <1>0, StaysBacked
<1>1. ASSUME UNCHANGED <<ledger, log, clerk>> PROVE VerifiedIsBacked'
  BY <1>0, <1>1, LogsUnchanged
<1>2. ASSUME NEW c \in Clerks, NEW rec, Set(c, rec)
      PROVE  clerk'[c] = rec /\ \A d \in Clerks \ {c} : clerk'[d] = clerk[d]
  BY <1>2 DEF Set, RecordTypes
<1>3. ASSUME NEW c \in Clerks, NEW rec, Set(c, rec), rec.at # "record", UNCHANGED ledger, LogsOnlyGrow
      PROVE  VerifiedIsBacked'
  <2>1. clerk'[c] = rec /\ \A d \in Clerks \ {c} : clerk'[d] = clerk[d]
    BY <1>2, <1>3
  <2> QED BY <1>3, <2>1, StaysBacked DEF Backed
<1>4. ASSUME NEW c \in Clerks, NEW r \in Runs, NEW s \in Sigs, NEW v \in BOOLEAN, Classify(c, r, s, v)
      PROVE VerifiedIsBacked'
  <2>1. PICK verdict \in Verdicts(r, s) :
          Set(c, [NoCall EXCEPT !.at = "classified", !.run = r, !.sig = s, !.verified = v,
                                !.verdict = verdict])
    BY <1>4 DEF Classify
  <2> DEFINE rec == [NoCall EXCEPT !.at = "classified", !.run = r, !.sig = s, !.verified = v,
                                !.verdict = verdict]
  <2>2. rec.at # "record"
    BY DEF NoCall
  <2>3. UNCHANGED ledger /\ LogsOnlyGrow
    BY <1>4, LogsUnchanged DEF Classify, files
  <2> HIDE DEF rec
  <2>4. Set(c, rec)
    BY <2>1 DEF rec
  <2> QED BY <1>3, <2>2, <2>3, <2>4
<1>5. ASSUME NEW c \in Clerks, NEW r \in Runs, NEW s \in Sigs, NEW v \in BOOLEAN, Claim(c, r, s, v)
      PROVE VerifiedIsBacked'
  <2> DEFINE rec == [NoCall EXCEPT !.at = "record", !.run = r, !.sig = s, !.verified = v,
                                     !.verdict = "CLAIM"]
  <2>1. rec.run = r /\ rec.sig = s /\ rec.verified = v
    BY DEF NoCall
  <2>2. CASE Accepted(r, s, v)
    <3>1. Set(c, rec) /\ UNCHANGED <<ledger, log>>
      BY <1>5, <2>2 DEF Claim
    <3> HIDE DEF rec
    <3>2. clerk'[c] = rec /\ \A d \in Clerks \ {c} : clerk'[d] = clerk[d]
      BY <1>2, <3>1
    <3>3. Backed(c)'
      BY <2>1, <2>2, <3>1, <3>2 DEF Backed, Accepted
    <3> QED BY <3>1, <3>2, <3>3, LogsUnchanged, StaysBacked
  <2>3. CASE ~Accepted(r, s, v)
    <3>1. Logged(r, Event("rejected", s, FALSE)) /\ UNCHANGED <<ledger, clerk>>
      BY <1>5, <2>3 DEF Claim
    <3>2. Event("rejected", s, FALSE) \in LogEntry
      BY EventIs
    <3> QED BY <1>0, <3>1, <3>2, LogsAppended
  <2> QED BY <2>2, <2>3
<1>6. ASSUME NEW c \in Clerks, LogVerdict(c) PROVE VerifiedIsBacked'
  <2>1. clerk[c] \in Call /\ clerk[c].run \in Runs /\ clerk[c].sig \in Sigs
    BY <1>6, CallIs DEF LogVerdict, Idle
  <2> DEFINE rec == [clerk[c] EXCEPT !.at = "verified"]
             e == Event("verdict", clerk[c].sig, clerk[c].verdict \in Recordable)
  <2>2. rec.at # "record" /\ e \in LogEntry
    <3>1. rec.at # "record"
      BY <2>1 DEF Call
    <3>2. e \in LogEntry
      BY <2>1 DEF Event, LogEntry
    <3> QED BY <3>1, <3>2
  <2>3. Set(c, rec) /\ Logged(clerk[c].run, e) /\ UNCHANGED ledger
    BY <1>6, AfterIs DEF LogVerdict
  <2> HIDE DEF rec, e
  <2>4. LogsOnlyGrow
    BY <2>1, <2>2, <2>3, LogsAppended
  <2> QED BY <1>3, <2>2, <2>3, <2>4
<1>7. ASSUME NEW c \in Clerks, LogReplay(c) PROVE VerifiedIsBacked'
  <2>1. PICK r \in Runs, s \in Sigs :
          /\ r = clerk[c].run /\ s = clerk[c].sig
          /\ clerk[c] \in Call /\ clerk[c].verified \in BOOLEAN
    BY <1>7, CallIs DEF LogReplay, Idle
  <2> DEFINE rec == IF clerk[c].verdict \in Recordable
                      THEN [clerk[c] EXCEPT !.at = "record"] ELSE NoCall
             e == Event("replay", s, clerk[c].verified)
  <2>2. /\ rec.at = "record" => rec.run = r /\ rec.sig = s /\ rec.verified = clerk[c].verified
        /\ e \in LogEntry /\ e.type = "replay" /\ e.sig = s /\ e.ok = clerk[c].verified
    BY <2>1, Idles DEF Call, Event, LogEntry, Idle
  <2>3. Set(c, rec) /\ Logged(r, e) /\ UNCHANGED ledger
    BY <1>7, <2>1, AfterIs DEF LogReplay
  <2> HIDE DEF rec, e
  <2>4. LogsOnlyGrow
    BY <2>2, <2>3, LogsAppended
  <2>5. clerk'[c] = rec /\ \A d \in Clerks \ {c} : clerk'[d] = clerk[d]
    BY <1>2, <2>3
  <2>6. /\ Len(log[r]) \in Nat /\ Len(log'[r]) = Len(log[r]) + 1
        /\ DOMAIN log'[r] = 1..Len(log[r]) + 1 /\ log'[r][Len(log[r]) + 1] = e
    BY <2>2, <2>3, LogGrows
  <2>7. clerk[c].verified => Evidence(log'[r], s, Len(log'[r]))
    <3> SUFFICES ASSUME clerk[c].verified PROVE Evidence(log'[r], s, Len(log'[r]))
      OBVIOUS
    <3>1. Len(log[r]) + 1 \in DOMAIN log'[r] /\ Len(log[r]) + 1 <= Len(log'[r])
      BY <2>6
    <3>2. e.type = "replay" /\ e.sig = s /\ e.ok
      BY <2>2
    <3> QED BY <2>6, <3>1, <3>2 DEF Evidence
  <2>8. Backed(c)'
    BY <2>2, <2>5, <2>7 DEF Backed
  <2> QED BY <2>3, <2>4, <2>5, <2>8, StaysBacked
<1>8. ASSUME NEW c \in Clerks, RecordLine(c) PROVE VerifiedIsBacked'
  <2>1. PICK q \in Runs, t \in Sigs : q = clerk[c].run /\ t = clerk[c].sig /\ clerk[c].at = "record"
    BY <1>8, RecordLineCalls
  <2> DEFINE f == Finding(c)
  <2>2. /\ f \in Line /\ f.sig = t /\ f.verified = clerk[c].verified /\ f.cut = clerk[c].cut
        /\ f.position = Len(log[q])
        /\ ledger' = [ledger EXCEPT ![q] = Append(@, f)] /\ UNCHANGED log
    BY <1>8, <2>1, FindingIs DEF RecordLine, Idle
  <2> HIDE DEF f
  <2>3. /\ \A r \in Runs \ {q} : ledger'[r] = ledger[r]
        /\ Len(ledger[q]) \in Nat /\ ledger'[q][Len(ledger[q]) + 1] = f
        /\ DOMAIN ledger[q] = 1..Len(ledger[q]) /\ DOMAIN ledger'[q] = 1..Len(ledger[q]) + 1
        /\ \A i \in DOMAIN ledger[q] : ledger'[q][i] = ledger[q][i]
    BY <2>2, LedgerGrows
  <2>4. f.verified /\ ~f.cut => Evidence(log[q], f.sig, f.position)
    BY <2>1, <2>2 DEF VerifiedIsBacked, Backed
  <2>5. ASSUME NEW r \in Runs, NEW i \in DOMAIN ledger'[r], ledger'[r][i].verified, ~ledger'[r][i].cut
        PROVE  Evidence(log[r], ledger'[r][i].sig, ledger'[r][i].position)
    <3>1. CASE r = q /\ i = Len(ledger[q]) + 1
      BY <2>3, <2>4, <2>5, <3>1
    <3>2. CASE ~(r = q /\ i = Len(ledger[q]) + 1)
      <4>1. i \in DOMAIN ledger[r] /\ ledger'[r][i] = ledger[r][i]
        BY <2>3, <3>2
      <4> QED BY <2>5, <4>1 DEF VerifiedIsBacked, VerifiedHasEvidence
    <3> QED BY <3>1, <3>2
  <2>6. VerifiedHasEvidence'
    BY <2>2, <2>5 DEF VerifiedHasEvidence
  <2>7. /\ clerk'[c].at = "announce"
        /\ \A d \in Clerks \ {c} :
              /\ clerk'[d].at = clerk[d].at /\ clerk'[d].run = clerk[d].run
              /\ clerk'[d].sig = clerk[d].sig /\ clerk'[d].cut = clerk[d].cut
              /\ clerk'[d].verified = clerk[d].verified
    BY <1>8, RecordLineCalls
  <2>8. \A d \in Clerks : Backed(d)'
    BY <2>2, <2>7 DEF VerifiedIsBacked, Backed
  <2> QED BY <2>6, <2>8 DEF VerifiedIsBacked
<1>9. ASSUME NEW c \in Clerks, Announce(c) PROVE VerifiedIsBacked'
  <2>1. clerk[c] \in Call /\ clerk[c].run \in Runs /\ clerk[c].sig \in Sigs
    BY <1>9, CallIs DEF Announce, Idle
  <2> DEFINE rec == [clerk[c] EXCEPT !.at = "mirror"]
             e == Event("recorded", clerk[c].sig, TRUE)
  <2>2. rec.at # "record" /\ e \in LogEntry
    BY <2>1 DEF Call, Event, LogEntry
  <2>3. Set(c, rec) /\ Logged(clerk[c].run, e) /\ UNCHANGED ledger
    BY <1>9, AfterIs DEF Announce
  <2> HIDE DEF rec, e
  <2>4. LogsOnlyGrow
    BY <2>1, <2>2, <2>3, LogsAppended
  <2> QED BY <1>3, <2>2, <2>3, <2>4
<1>10. ASSUME NEW c \in Clerks, Mirror(c) \/ Abandon(c) PROVE VerifiedIsBacked'
  <2>1. Set(c, NoCall) /\ UNCHANGED <<ledger, log>>
    BY <1>10 DEF Mirror, Abandon, files
  <2> QED BY <1>3, <2>1, Idles, LogsUnchanged DEF Idle
<1>11. ASSUME NEW r \in Runs, NEW s \in Sigs, NEW v \in BOOLEAN, Replay(r, s, v) PROVE VerifiedIsBacked'
  <2>1. Event("replay", s, v) \in LogEntry
    BY EventIs
  <2> QED BY <1>0, <1>11, <2>1, LogsAppended DEF Replay
<1>12. ASSUME NEW r \in Runs, DedupeRead(r) PROVE VerifiedIsBacked'
  BY <1>1, <1>12 DEF DedupeRead, files
<1>13. ASSUME DedupeLog PROVE VerifiedIsBacked'
  <2> DEFINE e == [type |-> "dedupe", lines |-> dedupe.lines, late |-> dedupe.late]
  <2>1. e \in LogEntry /\ dedupe.run \in Runs
    BY <1>13 DEF LogEntry, Grouping, DedupeLog, RecordTypes, Idle
  <2>2. Logged(dedupe.run, e) /\ UNCHANGED <<ledger, clerk>>
    BY <1>13 DEF DedupeLog
  <2> HIDE DEF e
  <2> QED BY <1>0, <2>1, <2>2, LogsAppended
<1>14. ASSUME NEW r \in Runs, GcCopy(r) \/ DropArchive(r) PROVE VerifiedIsBacked'
  BY <1>1, <1>14 DEF GcCopy, DropArchive, files
<1>15. ASSUME GcInstall \/ GcKilled PROVE VerifiedIsBacked'
  BY <1>1, <1>15 DEF GcInstall, GcKilled, files
<1>16. ASSUME GcDelete PROVE VerifiedIsBacked'
  <2>1. PICK g \in Runs : g = gc.run
    BY <1>16, GcDeleteCalls
  <2>2. /\ ledger'[g] = <<>>
        /\ \A q \in Runs \ {g} : ledger'[q] = ledger[q] /\ log'[q] = log[q]
    BY <1>16, <2>1, GcDeleteCalls
  <2>3. VerifiedHasEvidence'
    BY <2>2 DEF VerifiedIsBacked, VerifiedHasEvidence
  <2>4. \A d \in Clerks :
          /\ clerk'[d].at = clerk[d].at /\ clerk'[d].run = clerk[d].run
          /\ clerk'[d].sig = clerk[d].sig /\ clerk'[d].verified = clerk[d].verified
          /\ clerk'[d].cut = IF clerk[d].at # Idle /\ clerk[d].run = g THEN TRUE ELSE clerk[d].cut
    BY <1>16, <2>1, GcDeleteCalls
  <2>5. ASSUME NEW d \in Clerks PROVE Backed(d)'
    <3>1. CASE clerk[d].at = "record" /\ clerk[d].run # g
      <4>1. clerk[d].run \in Runs \ {g} /\ clerk'[d].cut = clerk[d].cut
        BY <2>4, <3>1, CallIs DEF Idle
      <4>2. log'[clerk[d].run] = log[clerk[d].run]
        BY <2>2, <4>1
      <4> QED BY <2>4, <4>1, <4>2 DEF VerifiedIsBacked, Backed
    <3>2. CASE clerk[d].at = "record" /\ clerk[d].run = g
      BY <2>4, <3>2 DEF Backed, Idle
    <3>3. CASE clerk[d].at # "record"
      BY <2>4, <3>3 DEF Backed
    <3> QED BY <3>1, <3>2, <3>3
  <2> QED BY <2>3, <2>5 DEF VerifiedIsBacked
<1>17. CASE UNCHANGED records
  BY <1>1, <1>17 DEF records, files
<1>18. ASSUME NEW c \in Clerks, ClerkNext(c) PROVE VerifiedIsBacked'
  BY <1>4, <1>5, <1>6, <1>7, <1>8, <1>9, <1>10, <1>18 DEF ClerkNext
<1>19. CASE GcNext
  BY <1>14, <1>15, <1>16, <1>19 DEF GcNext
<1> QED BY <1>11, <1>12, <1>13, <1>17, <1>18, <1>19 DEF RecordsNext

\* No finding is listed as verified unless its PoV was replayed with success
\* before it was appended, in the log of the same run, whoever recorded it and
\* whatever was deleted meanwhile (but see cut).
THEOREM VerifiedIsProven == IndexSpec => []VerifiedHasEvidence
<1>1. IndexInit => RecordTypes /\ VerifiedIsBacked
  <2> SUFFICES ASSUME IndexInit PROVE VerifiedIsBacked
    BY RecordTypesInit DEF IndexInit
  <2>1. \A r \in Runs : ledger[r] = <<>>
    BY DEF IndexInit, RecordsInit
  <2>2. \A c \in Clerks : clerk[c].at = Idle
    BY Idles DEF IndexInit, RecordsInit
  <2> QED BY <2>1, <2>2 DEF VerifiedIsBacked, VerifiedHasEvidence, Backed, Idle
<1>2. RecordTypes /\ VerifiedIsBacked /\ [IndexNext]_<<recordsVars, indexVars>>
        => (RecordTypes /\ VerifiedIsBacked)'
  BY IndexStepIs, RecordTypesStep, VerifiedIsBackedStep
<1>3. VerifiedIsBacked => VerifiedHasEvidence
  BY DEF VerifiedIsBacked
<1> QED BY <1>1, <1>2, <1>3, PTL DEF IndexSpec

-----------------------------------------------------------------------------
(* The database and the schedule *)

Prints == (SUBSET (Runs \X Sigs)) \X Nat

Base == [print : {<<>>} \cup Prints, rows : SUBSET (Runs \X Sigs), doc : Nat]

Steps == {Idle, "findings", "documents", "promote", "rank", "schedule"}

Rebuild == [at : Steps, stage : Base, ranks : BOOLEAN, from : Base]

IndexTypes ==
  /\ index \subseteq Runs \X Sigs /\ document \in Nat /\ db \in Base
  /\ build \in [Builders -> Rebuild]
  /\ schedule \in [print : {<<>>} \cup Prints, from : Base, overtaken : BOOLEAN]

\* The fingerprint is taken first and every source only grows: what is read
\* later lies between the fingerprint and the sources as they are now.
Taken(x) == x.print \in Prints /\ x.print[1] \subseteq index /\ x.print[2] <= document

RowsWithin(x) == x.print[1] \subseteq x.rows /\ x.rows \subseteq index

Within(x) ==
  \/ x.print = <<>>
  \/ Taken(x) /\ RowsWithin(x) /\ x.print[2] <= x.doc /\ x.doc <= document

RebuildWithin(x) ==
  /\ x.at # Idle => Taken(x.stage)
  /\ x.at = "documents" => RowsWithin(x.stage)
  /\ x.at \in {"promote", "rank", "schedule"} => Within(x.stage)
  /\ x.at = "schedule" => Within(x.from)

AllWithin ==
  /\ Within(db) /\ Within(schedule.from)
  /\ \A b \in Builders : RebuildWithin(build[b])
  /\ ~schedule.overtaken => schedule.from.print = schedule.print

IndexInv == RecordTypes /\ IndexTypes /\ AllWithin

LEMMA FingerprintIs ==
  ASSUME IndexTypes
  PROVE  Fingerprint \in Prints /\ Fingerprint # <<>> /\ Fingerprint[1] = index /\ Fingerprint[2] = document
<1>1. Fingerprint = <<index, document>>
  BY DEF Fingerprint
<1>2. <<index, document>> # <<>>
  OBVIOUS
<1> QED BY <1>1, <1>2 DEF Prints, IndexTypes

LEMMA FreshMeansAll ==
  ASSUME IndexTypes, NEW x \in Base, Within(x), x.print = Fingerprint
  PROVE  x.rows = index /\ x.doc = document
<1>1. Taken(x) /\ RowsWithin(x) /\ x.print[2] <= x.doc /\ x.doc <= document
  BY FingerprintIs DEF Within
<1>2. x.print[1] = index /\ x.print[2] = document
  BY FingerprintIs
<1>3. x.doc \in Nat /\ document \in Nat
  BY DEF IndexTypes, Base
<1> QED BY <1>1, <1>2, <1>3 DEF RowsWithin

\* What lies within the sources does so when they have grown.
LEMMA WithinStays ==
  ASSUME IndexTypes, index \subseteq index', document' \in Nat, document <= document', NEW x \in Base
  PROVE  /\ Taken(x) => Taken(x)'
         /\ RowsWithin(x) => RowsWithin(x)'
         /\ Within(x) => Within(x)'
<1>1. document \in Nat /\ x.doc \in Nat
  BY DEF IndexTypes, Base
<1>2. ASSUME Taken(x) PROVE Taken(x)'
  <2>1. x.print[2] \in Nat
    BY <1>2 DEF Taken, Prints
  <2> QED BY <1>1, <1>2, <2>1 DEF Taken
<1>3. RowsWithin(x) => RowsWithin(x)'
  BY DEF RowsWithin
<1>4. x.doc <= document => x.doc <= document'
  BY <1>1
<1> QED BY <1>2, <1>3, <1>4 DEF Within

LEMMA IndexGrows == [RecordsNext]_records => index \subseteq index'
<1> SUFFICES ASSUME RecordsNext PROVE index \subseteq index'
  BY DEF records, files
<1>1. ASSUME NEW c \in Clerks, ClerkNext(c) PROVE index \subseteq index'
  <2>1. ASSUME NEW r \in Runs, NEW s \in Sigs, NEW v \in BOOLEAN, Classify(c, r, s, v) \/ Claim(c, r, s, v)
        PROVE index \subseteq index'
    BY <2>1 DEF Classify, Claim, files
  <2>2. CASE LogVerdict(c) \/ LogReplay(c)
    BY <2>2 DEF LogVerdict, LogReplay
  <2>3. CASE RecordLine(c)
    BY <2>3 DEF RecordLine
  <2>4. CASE Announce(c)
    BY <2>4 DEF Announce
  <2>5. CASE Mirror(c)
    BY <2>5 DEF Mirror
  <2>6. CASE Abandon(c)
    BY <2>6 DEF Abandon, files
  <2> QED BY <1>1, <2>1, <2>2, <2>3, <2>4, <2>5, <2>6 DEF ClerkNext
<1>2. ASSUME NEW r \in Runs, NEW s \in Sigs, NEW v \in BOOLEAN, Replay(r, s, v) PROVE index \subseteq index'
  BY <1>2 DEF Replay
<1>3. ASSUME NEW r \in Runs, DedupeRead(r) PROVE index \subseteq index'
  BY <1>3 DEF DedupeRead, files
<1>4. CASE DedupeLog
  BY <1>4 DEF DedupeLog
<1>5. CASE GcNext
  <2>1. ASSUME NEW r \in Runs, GcCopy(r) \/ DropArchive(r) PROVE index \subseteq index'
    BY <2>1 DEF GcCopy, DropArchive, files
  <2>2. CASE GcInstall
    BY <2>2 DEF GcInstall
  <2>3. CASE GcDelete
    BY <2>3 DEF GcDelete
  <2>4. CASE GcKilled
    BY <2>4 DEF GcKilled, files
  <2> QED BY <1>5, <2>1, <2>2, <2>3, <2>4 DEF GcNext
<1> QED BY <1>1, <1>2, <1>3, <1>4, <1>5 DEF RecordsNext

\* A step of one rebuild that leaves what it read and what was built alone.
LEMMA RebuildGoesOn ==
  ASSUME IndexInv, RecordTypes', NEW b \in Builders, NEW x \in Rebuild, RebuildWithin(x),
         build' = [build EXCEPT ![b] = x], UNCHANGED <<index, document, db, schedule>>
  PROVE  IndexInv'
<1>1. build' \in [Builders -> Rebuild] /\ build'[b] = x /\ \A d \in Builders \ {b} : build'[d] = build[d]
  BY DEF IndexInv, IndexTypes
<1>2. IndexTypes'
  BY <1>1 DEF IndexInv, IndexTypes
<1>3. \A d \in Builders : RebuildWithin(build'[d])
  BY <1>1 DEF IndexInv, AllWithin
<1>4. AllWithin'
  BY <1>3 DEF IndexInv, AllWithin, RebuildWithin, Within, Taken, RowsWithin
<1> QED BY <1>2, <1>4 DEF IndexInv

\* The sources have grown and no rebuild took a step.
LEMMA SourcesGrow ==
  ASSUME IndexInv, RecordTypes', index \subseteq index', document' \in Nat, document <= document',
         UNCHANGED <<db, schedule, build>>
  PROVE  IndexInv'
<1>1. IndexTypes'
  BY DEF IndexInv, IndexTypes, RecordTypes
<1>2. db \in Base /\ schedule.from \in Base
  BY DEF IndexInv, IndexTypes
<1>3. ASSUME NEW x \in Base
      PROVE  /\ Taken(x) => Taken(x)'
             /\ RowsWithin(x) => RowsWithin(x)'
             /\ Within(x) => Within(x)'
  BY <1>3, WithinStays DEF IndexInv
<1>4. Within(db)' /\ Within(schedule.from)'
  BY <1>2, <1>3 DEF IndexInv, AllWithin, Within, Taken, RowsWithin
<1>5. ASSUME NEW b \in Builders PROVE RebuildWithin(build[b])'
  <2>1. build[b].stage \in Base /\ build[b].from \in Base
    BY DEF IndexInv, IndexTypes, Rebuild
  <2>2. RebuildWithin(build[b]) /\ build'[b] = build[b]
    BY DEF IndexInv, AllWithin
  <2> QED BY <1>3, <2>1, <2>2 DEF RebuildWithin, Within, Taken, RowsWithin
<1> QED BY <1>1, <1>4, <1>5 DEF IndexInv, AllWithin

LEMMA NothingBuilt ==
  NoDb \in Base /\ NoDb.print = <<>> /\ NoBuild \in Rebuild /\ RebuildWithin(NoBuild)
<1>1. NoDb \in Base /\ NoDb.print = <<>>
  BY DEF NoDb, Base
<1>2. NoBuild = [at |-> Idle, stage |-> NoDb, ranks |-> FALSE, from |-> NoDb]
  BY DEF NoBuild
<1>3. NoBuild \in Rebuild /\ NoBuild.at = Idle
  BY <1>1, <1>2 DEF Rebuild, Steps
<1>4. RebuildWithin(NoBuild)
  BY <1>3 DEF RebuildWithin, Idle
<1> QED BY <1>1, <1>3, <1>4

LEMMA IndexInvStep == IndexInv /\ [IndexNext]_<<recordsVars, indexVars>> => IndexInv'
<1> SUFFICES ASSUME IndexInv, [IndexNext]_<<recordsVars, indexVars>> PROVE IndexInv'
  OBVIOUS
<1>types. RecordTypes'
  BY IndexStepIs, RecordTypesStep DEF IndexInv
<1>doc. document \in Nat /\ document <= document
  BY DEF IndexInv, IndexTypes
<1>1. CASE UNCHANGED indexVars
  <2>1. index \subseteq index'
    BY IndexStepIs, IndexGrows
  <2> QED BY <1>1, <1>types, <1>doc, <2>1, SourcesGrow DEF indexVars
<1>2. CASE Rewrite /\ UNCHANGED files
  BY <1>2, <1>types, <1>doc, SourcesGrow DEF Rewrite, files
<1>3. ASSUME NEW b \in Builders, BuilderStep(b), UNCHANGED files PROVE IndexInv'
  <2>0. /\ build[b] \in Rebuild /\ RebuildWithin(build[b])
        /\ build[b].stage \in Base /\ build[b].from \in Base /\ build[b].ranks \in BOOLEAN
        /\ UNCHANGED index /\ build \in [Builders -> Rebuild]
        /\ index \in SUBSET (Runs \X Sigs)
    BY <1>3 DEF IndexInv, IndexTypes, AllWithin, Rebuild, files
  <2>no. NoDb \in Base /\ NoDb.print = <<>> /\ NoBuild \in Rebuild /\ RebuildWithin(NoBuild)
    BY NothingBuilt
  <2>1. CASE SyncPrint(b)
    <3>1. PICK ranks \in BOOLEAN :
            build' = [build EXCEPT ![b] =
              [NoBuild EXCEPT !.at = "findings", !.ranks = ranks, !.stage.print = Fingerprint]]
      BY <2>1 DEF SyncPrint
    <3> DEFINE x == [NoBuild EXCEPT !.at = "findings", !.ranks = ranks, !.stage.print = Fingerprint]
    <3>2. Fingerprint \in Prints /\ Fingerprint[1] = index /\ Fingerprint[2] = document
      BY FingerprintIs DEF IndexInv
    <3>3. x.stage \in Base /\ x.stage.print = Fingerprint
      BY <3>2 DEF NoBuild, NoDb, Base
    <3>4. x \in Rebuild /\ x.at = "findings"
      BY <2>no, <3>2 DEF NoBuild, NoDb, Base, Rebuild, Steps
    <3>5. Taken(x.stage)
      BY <1>doc, <3>2, <3>3 DEF Taken
    <3> HIDE DEF x
    <3>6. RebuildWithin(x)
      BY <3>4, <3>5 DEF RebuildWithin
    <3>7. build' = [build EXCEPT ![b] = x]
      BY <3>1 DEF x
    <3> QED BY <1>types, <2>0, <2>1, <3>4, <3>6, <3>7, RebuildGoesOn DEF SyncPrint
  <2>2. CASE SyncFindings(b)
    <3> DEFINE x == [build[b] EXCEPT !.at = "documents", !.stage.rows = index]
    <3>1. x \in Rebuild /\ x.at = "documents" /\ x.stage.print = build[b].stage.print /\ x.stage.rows = index
      BY <2>0 DEF Rebuild, Base, Steps
    <3>2. Taken(build[b].stage)
      BY <2>0, <2>2 DEF SyncFindings, RebuildWithin, Idle
    <3>3. build' = [build EXCEPT ![b] = x]
      BY <2>0, <2>2 DEF SyncFindings
    <3> HIDE DEF x
    <3>4. RebuildWithin(x)
      BY <3>1, <3>2 DEF RebuildWithin, Taken, RowsWithin
    <3> QED BY <1>types, <2>0, <2>2, <3>1, <3>3, <3>4, RebuildGoesOn DEF SyncFindings
  <2>3. CASE SyncDocuments(b)
    <3> DEFINE x == [build[b] EXCEPT !.at = "promote", !.stage.doc = document]
    <3>1. x \in Rebuild /\ x.at = "promote" /\ x.stage.print = build[b].stage.print
          /\ x.stage.rows = build[b].stage.rows /\ x.stage.doc = document
      BY <1>doc, <2>0 DEF Rebuild, Base, Steps
    <3>2. Taken(build[b].stage) /\ RowsWithin(build[b].stage)
      BY <2>0, <2>3 DEF SyncDocuments, RebuildWithin, Idle
    <3>3. build' = [build EXCEPT ![b] = x]
      BY <2>0, <2>3 DEF SyncDocuments
    <3> HIDE DEF x
    <3>4. RebuildWithin(x)
      BY <1>doc, <3>1, <3>2 DEF RebuildWithin, Taken, RowsWithin, Within
    <3> QED BY <1>types, <2>0, <2>3, <3>1, <3>3, <3>4, RebuildGoesOn DEF SyncDocuments
  <2>4. CASE SyncPromote(b)
    <3> DEFINE x == IF build[b].ranks THEN [build[b] EXCEPT !.at = "rank"] ELSE NoBuild
    <3>1. Within(build[b].stage) /\ Taken(build[b].stage)
      BY <2>0, <2>4 DEF SyncPromote, RebuildWithin, Idle
    <3>2. x \in Rebuild /\ ((x.at = "rank" /\ x.stage = build[b].stage) \/ x = NoBuild)
      BY <2>0, <2>no DEF Rebuild, Steps
    <3>3. /\ build' = [build EXCEPT ![b] = x] /\ db' = build[b].stage
          /\ UNCHANGED <<document, schedule>>
      BY <2>4 DEF SyncPromote
    <3> HIDE DEF x
    <3>4. RebuildWithin(x)
      BY <2>no, <3>1, <3>2 DEF RebuildWithin
    <3>5. build' \in [Builders -> Rebuild] /\ build'[b] = x
          /\ \A d \in Builders \ {b} : build'[d] = build[d]
      BY <2>0, <3>2, <3>3
    <3>6. IndexTypes'
      BY <2>0, <3>3, <3>5 DEF IndexInv, IndexTypes
    <3>7. \A d \in Builders : RebuildWithin(build'[d])
      BY <3>4, <3>5 DEF IndexInv, AllWithin
    <3>8. AllWithin'
      BY <2>0, <3>1, <3>3, <3>7
         DEF IndexInv, AllWithin, RebuildWithin, Within, Taken, RowsWithin
    <3> QED BY <1>types, <3>6, <3>8 DEF IndexInv
  <2>5. CASE Rank(b)
    <3> DEFINE x == [build[b] EXCEPT !.at = "schedule", !.from = db]
    <3>1. db \in Base /\ Within(db)
      BY DEF IndexInv, IndexTypes, AllWithin
    <3>2. x \in Rebuild /\ x.at = "schedule" /\ x.stage = build[b].stage /\ x.from = db
      BY <2>0, <3>1 DEF Rebuild, Steps
    <3>3. Within(build[b].stage) /\ Taken(build[b].stage)
      BY <2>0, <2>5 DEF Rank, RebuildWithin, Idle
    <3>4. build' = [build EXCEPT ![b] = x]
      BY <2>0, <2>5 DEF Rank
    <3> HIDE DEF x
    <3>5. RebuildWithin(x)
      BY <3>1, <3>2, <3>3 DEF RebuildWithin
    <3> QED BY <1>types, <2>0, <2>5, <3>2, <3>4, <3>5, RebuildGoesOn DEF Rank
  <2>6. CASE WriteSchedule(b)
    <3>1. Within(build[b].from)
      BY <2>0, <2>6 DEF WriteSchedule, RebuildWithin
    <3>2. /\ build' = [build EXCEPT ![b] = NoBuild]
          /\ schedule' = [print |-> build[b].stage.print, from |-> build[b].from,
                          overtaken |-> build[b].from.print # build[b].stage.print]
          /\ UNCHANGED <<document, db>>
      BY <2>6 DEF WriteSchedule
    <3>3. build' \in [Builders -> Rebuild] /\ build'[b] = NoBuild
          /\ \A d \in Builders \ {b} : build'[d] = build[d]
      BY <2>0, <2>no, <3>2
    <3>4. /\ schedule'.from = build[b].from /\ schedule'.print = build[b].stage.print
          /\ ~schedule'.overtaken => schedule'.from.print = schedule'.print
      BY <3>2
    <3>5. build[b].stage.print \in {<<>>} \cup Prints
      BY <2>0 DEF Base
    <3>6. schedule' \in [print : {<<>>} \cup Prints, from : Base, overtaken : BOOLEAN]
      BY <2>0, <3>2, <3>5
    <3>7. IndexTypes'
      BY <2>0, <3>2, <3>3, <3>6 DEF IndexInv, IndexTypes
    <3>8. \A d \in Builders : RebuildWithin(build'[d])
      BY <2>no, <3>3 DEF IndexInv, AllWithin
    <3>9. AllWithin'
      BY <2>0, <3>1, <3>2, <3>4, <3>8
         DEF IndexInv, AllWithin, RebuildWithin, Within, Taken, RowsWithin
    <3> QED BY <1>types, <3>7, <3>9 DEF IndexInv
  <2>7. CASE SyncFails(b)
    BY <1>types, <2>0, <2>no, <2>7, RebuildGoesOn DEF SyncFails
  <2> QED BY <1>3, <2>1, <2>2, <2>3, <2>4, <2>5, <2>6, <2>7 DEF BuilderStep
<1> QED BY <1>1, <1>2, <1>3 DEF IndexNext

LEMMA IndexInvInit == IndexInit => IndexInv
<1> SUFFICES ASSUME IndexInit PROVE IndexInv
  OBVIOUS
<1>1. NoDb \in Base /\ NoDb.print = <<>> /\ NoBuild \in Rebuild /\ RebuildWithin(NoBuild)
  BY NothingBuilt
<1>2. NoSchedule \in [print : {<<>>} \cup Prints, from : Base, overtaken : BOOLEAN]
      /\ NoSchedule.from = NoDb /\ NoSchedule.print = <<>>
  BY <1>1 DEF NoSchedule
<1>3. index = {} /\ document = 0 /\ db = NoDb /\ schedule = NoSchedule
      /\ build = [b \in Builders |-> NoBuild]
  BY DEF IndexInit, RecordsInit
<1>4. IndexTypes
  BY <1>1, <1>2, <1>3 DEF IndexTypes
<1>5. AllWithin
  BY <1>1, <1>2, <1>3 DEF AllWithin, Within
<1> QED BY <1>4, <1>5, RecordTypesInit DEF IndexInit, IndexInv

\* A database that is reported fresh holds exactly what its sources hold now,
\* although they were read one after the other while others wrote them and
\* rebuilt it.
THEOREM FreshHoldsAll == IndexSpec => []FreshIsCurrent
<1>1. IndexInv => FreshIsCurrent
  <2> SUFFICES ASSUME IndexInv, Fresh PROVE db.rows = index /\ db.doc = document
    BY DEF FreshIsCurrent
  <2>1. db \in Base /\ Within(db) /\ IndexTypes
    BY DEF IndexInv, AllWithin, IndexTypes
  <2> QED BY <2>1, FreshMeansAll DEF Fresh
<1> QED BY <1>1, IndexInvInit, IndexInvStep, PTL DEF IndexSpec

\* Ranks that are given out were made from what the sources hold now, unless a
\* rebuild was promoted between that of schedule_sync and its look at the
\* database.
THEOREM RanksHoldAll == IndexSpec => []RanksAreCurrent
<1>1. IndexInv => RanksAreCurrent
  <2> SUFFICES ASSUME IndexInv, RanksUsed, ~schedule.overtaken
               PROVE  schedule.from.rows = index /\ schedule.from.doc = document
    BY DEF RanksAreCurrent
  <2>1. schedule.from \in Base /\ Within(schedule.from) /\ IndexTypes
    BY DEF IndexInv, AllWithin, IndexTypes
  <2>2. schedule.from.print = Fingerprint
    BY DEF IndexInv, AllWithin, RanksUsed, Fresh
  <2> QED BY <2>1, <2>2, FreshMeansAll
<1> QED BY <1>1, IndexInvInit, IndexInvStep, PTL DEF IndexSpec

-----------------------------------------------------------------------------
(* A run that passes the audit had its findings grouped *)

LEMMA LeastOf ==
  ASSUME NEW T, T \subseteq Nat, T # {}
  PROVE  \E m \in T : \A n \in T : m <= n
<1>1. PICK m \in T : \A n \in T : <<n, m>> \notin OpToRel(<, Nat)
  BY NatLessThanWellFounded, WFMin
<1>2. \A n \in T : ~(n < m)
  BY <1>1 DEF OpToRel
<1> QED BY <1>2

\* The least bound of the places is one of them.
LEMMA GreatestOf ==
  ASSUME NEW k \in Nat, NEW T, T \subseteq 1..k, T # {}
  PROVE  \E m \in T : \A n \in T : n <= m
<1> DEFINE Bounds == {b \in Nat : \A n \in T : n <= b}
<1>1. k \in Bounds
  OBVIOUS
<1>2. PICK b \in Bounds : \A d \in Bounds : b <= d
  <2>1. Bounds \subseteq Nat /\ Bounds # {}
    BY <1>1
  <2> HIDE DEF Bounds
  <2> QED BY <2>1, LeastOf
<1>3. ASSUME b \notin T PROVE FALSE
  <2>1. \A n \in T : n \in Nat /\ 1 <= n /\ n <= b /\ n # b
    BY <1>3
  <2>2. b \in Nat /\ b >= 1
    <3>1. PICK n \in T : n \in Nat /\ 1 <= n /\ n <= b
      BY <2>1
    <3>2. b \in Nat
      BY <1>2
    <3> QED BY <3>1, <3>2
  <2>3. b - 1 \in Nat /\ \A n \in T : n <= b - 1
    BY <2>1, <2>2
  <2>4. b - 1 \in Bounds
    BY <2>3
  <2>5. b <= b - 1
    BY <1>2, <2>4
  <2> QED BY <2>2, <2>5
<1> QED BY <1>3

LEMMA LatestIs ==
  ASSUME NEW events \in Seq(LogEntry), NEW t
  PROVE  /\ Latest(events, t) \in Nat
         /\ \A j \in DOMAIN events : events[j].type = t => j <= Latest(events, t)
         /\ Latest(events, t) > 0 =>
              Latest(events, t) \in DOMAIN events /\ events[Latest(events, t)].type = t
<1> DEFINE places == {i \in DOMAIN events : events[i].type = t}
<1>1. Latest(events, t) =
        IF places = {} THEN 0 ELSE CHOOSE i \in places : \A j \in places : j <= i
  BY DEF Latest
<1>2. Len(events) \in Nat /\ DOMAIN events = 1..Len(events) /\ places \subseteq 1..Len(events)
  OBVIOUS
<1>3. places # {} => \E i \in places : \A j \in places : j <= i
  <2> HIDE DEF places
  <2> QED BY <1>2, GreatestOf
<1>4. CASE places = {}
  BY <1>1, <1>4
<1>5. CASE places # {}
  <2>1. Latest(events, t) \in places /\ \A j \in places : j <= Latest(events, t)
    <3> HIDE DEF places
    <3> QED BY <1>1, <1>3, <1>5
  <2> QED BY <1>2, <2>1
<1> QED BY <1>4, <1>5

\* Every line that a grouping did not read was appended after it: a line has
\* the length of the log when it was appended as its position.
ReadAll(r, p) ==
  \/ \A i \in DOMAIN ledger[r] : ledger[r][i].position >= p
  \/ /\ log[r][p].lines <= Len(ledger[r])
     /\ \A i \in DOMAIN ledger[r] : i > log[r][p].lines => ledger[r][i].position >= p

GroupingsReadAll ==
  /\ \A r \in Runs : \A p \in DOMAIN log[r] :
       log[r][p].type = "dedupe" /\ ~log[r][p].late => ReadAll(r, p)
  /\ dedupe.at # Idle /\ ~dedupe.late =>
       ledger[dedupe.run] = <<>> \/ Len(ledger[dedupe.run]) = dedupe.lines

\* An entry that is not that of a grouping.
LEMMA StaysRead ==
  ASSUME RecordTypes, GroupingsReadAll, NEW r \in Runs, NEW e \in LogEntry, Logged(r, e),
         e.type = "dedupe" /\ ~e.late => ledger[r] = <<>> \/ Len(ledger[r]) = e.lines,
         UNCHANGED ledger
  PROVE  \A q \in Runs : \A p \in DOMAIN log'[q] :
           log'[q][p].type = "dedupe" /\ ~log'[q][p].late => ReadAll(q, p)'
<1> SUFFICES ASSUME NEW q \in Runs, NEW p \in DOMAIN log'[q],
                    log'[q][p].type = "dedupe", ~log'[q][p].late
             PROVE  ReadAll(q, p)'
  OBVIOUS
<1>1. /\ \A x \in Runs \ {r} : log'[x] = log[x]
      /\ Len(log[r]) \in Nat /\ log'[r][Len(log[r]) + 1] = e
      /\ DOMAIN log[r] = 1..Len(log[r]) /\ DOMAIN log'[r] = 1..Len(log[r]) + 1
      /\ \A i \in DOMAIN log[r] : log'[r][i] = log[r][i]
  BY LogGrows
<1>2. CASE q = r /\ p = Len(log[r]) + 1
  <2>1. ledger[r] = <<>> \/ Len(ledger[r]) = e.lines
    BY <1>1, <1>2
  <2>2. ledger[r] \in Seq(Line)
    BY DEF RecordTypes
  <2>3. CASE ledger[r] = <<>>
    BY <1>2, <2>3 DEF ReadAll
  <2>4. CASE Len(ledger[r]) = e.lines
    <3>1. Len(ledger[r]) \in Nat /\ DOMAIN ledger[r] = 1..Len(ledger[r])
      BY <2>2
    <3>2. log'[q][p].lines = Len(ledger[r])
      BY <1>1, <1>2, <2>4
    <3>3. \A i \in DOMAIN ledger[r] : ~(i > Len(ledger[r]))
      BY <3>1
    <3> QED BY <1>2, <3>1, <3>2, <3>3 DEF ReadAll
  <2> QED BY <2>1, <2>3, <2>4
<1>3. CASE ~(q = r /\ p = Len(log[r]) + 1)
  <2>1. p \in DOMAIN log[q] /\ log'[q][p] = log[q][p]
    BY <1>1, <1>3
  <2>2. ReadAll(q, p)
    BY <2>1 DEF GroupingsReadAll
  <2> QED BY <2>1, <2>2 DEF ReadAll
<1> QED BY <1>2, <1>3

LEMMA GroupingsReadAllStep ==
  RecordTypes /\ GroupingsReadAll /\ [RecordsNext]_records => GroupingsReadAll'
<1> SUFFICES ASSUME RecordTypes, GroupingsReadAll, [RecordsNext]_records PROVE GroupingsReadAll'
  OBVIOUS
<1>0. ASSUME UNCHANGED <<ledger, log, dedupe>> PROVE GroupingsReadAll'
  BY <1>0 DEF GroupingsReadAll, ReadAll
<1>1. ASSUME NEW r \in Runs, NEW e \in LogEntry, Logged(r, e), e.type # "dedupe",
             UNCHANGED <<ledger, dedupe>>
      PROVE  GroupingsReadAll'
  BY <1>1, StaysRead DEF GroupingsReadAll
<1>2. ASSUME NEW t \in {"verdict", "replay", "recorded", "rejected"}, NEW r \in Runs, NEW s \in Sigs,
             NEW ok \in BOOLEAN, Logged(r, Event(t, s, ok)), UNCHANGED <<ledger, dedupe>>
      PROVE  GroupingsReadAll'
  <2>1. Event(t, s, ok) \in LogEntry /\ Event(t, s, ok).type = t
    BY EventIs
  <2>2. t # "dedupe"
    OBVIOUS
  <2> QED BY <1>1, <1>2, <2>1, <2>2
<1>3. ASSUME NEW c \in Clerks, NEW r \in Runs, NEW s \in Sigs, NEW v \in BOOLEAN, Classify(c, r, s, v)
      PROVE GroupingsReadAll'
  BY <1>0, <1>3 DEF Classify, files
<1>4. ASSUME NEW c \in Clerks, NEW r \in Runs, NEW s \in Sigs, NEW v \in BOOLEAN, Claim(c, r, s, v)
      PROVE GroupingsReadAll'
  <2>1. CASE Accepted(r, s, v)
    BY <1>0, <1>4, <2>1 DEF Claim
  <2>2. CASE ~Accepted(r, s, v)
    <3>1. Logged(r, Event("rejected", s, FALSE)) /\ UNCHANGED <<ledger, dedupe>>
      BY <1>4, <2>2 DEF Claim
    <3> QED BY <1>2, <3>1
  <2> QED BY <2>1, <2>2
<1>5. ASSUME NEW c \in Clerks, LogVerdict(c) PROVE GroupingsReadAll'
  <2> DEFINE ok == clerk[c].verdict \in Recordable
  <2>1. ok \in BOOLEAN
    OBVIOUS
  <2>2. clerk[c].run \in Runs /\ clerk[c].sig \in Sigs
    BY <1>5, CallIs DEF LogVerdict, Idle
  <2>3. Logged(clerk[c].run, Event("verdict", clerk[c].sig, ok)) /\ UNCHANGED <<ledger, dedupe>>
    BY <1>5 DEF LogVerdict
  <2> HIDE DEF ok
  <2> QED BY <1>2, <2>1, <2>2, <2>3
<1>6. ASSUME NEW c \in Clerks, LogReplay(c) PROVE GroupingsReadAll'
  <2>1. clerk[c].run \in Runs /\ clerk[c].sig \in Sigs /\ clerk[c].verified \in BOOLEAN
    BY <1>6, CallIs DEF LogReplay, Idle
  <2>2. Logged(clerk[c].run, Event("replay", clerk[c].sig, clerk[c].verified))
        /\ UNCHANGED <<ledger, dedupe>>
    BY <1>6 DEF LogReplay
  <2> QED BY <1>2, <2>1, <2>2
<1>7. ASSUME NEW c \in Clerks, RecordLine(c) PROVE GroupingsReadAll'
  <2>1. PICK q \in Runs : q = clerk[c].run /\ clerk[c].at = "record"
    BY <1>7, RecordLineCalls
  <2> DEFINE f == Finding(c)
  <2>2. /\ f \in Line /\ f.position = Len(log[q])
        /\ ledger' = [ledger EXCEPT ![q] = Append(@, f)] /\ UNCHANGED log
        /\ dedupe' = IF dedupe.at # Idle /\ dedupe.run = q
                       THEN [dedupe EXCEPT !.late = TRUE] ELSE dedupe
    BY <1>7, <2>1, FindingIs DEF RecordLine, Idle
  <2> HIDE DEF f
  <2>3. /\ \A r \in Runs \ {q} : ledger'[r] = ledger[r]
        /\ Len(ledger[q]) \in Nat /\ ledger'[q][Len(ledger[q]) + 1] = f
        /\ Len(ledger'[q]) = Len(ledger[q]) + 1
        /\ DOMAIN ledger[q] = 1..Len(ledger[q]) /\ DOMAIN ledger'[q] = 1..Len(ledger[q]) + 1
        /\ \A i \in DOMAIN ledger[q] : ledger'[q][i] = ledger[q][i]
    BY <2>2, LedgerGrows
  <2>4. ASSUME NEW r \in Runs, NEW p \in DOMAIN log[r], log[r][p].type = "dedupe", ~log[r][p].late
        PROVE  ReadAll(r, p)'
    <3>1. ReadAll(r, p)
      BY <2>4 DEF GroupingsReadAll
    <3>2. CASE r # q
      BY <2>2, <2>3, <3>1, <3>2 DEF ReadAll
    <3>3. CASE r = q
      <4>1. log[q] \in Seq(LogEntry) /\ log[q][p] \in LogEntry
        BY <3>3 DEF RecordTypes
      <4>2. p \in Nat /\ f.position >= p
        BY <2>2, <3>3, <4>1
      <4>3. log[q][p].lines \in Nat
        BY <2>4, <3>3, <4>1 DEF LogEntry
      <4>4. CASE \A i \in DOMAIN ledger[q] : ledger[q][i].position >= p
        <5>1. \A i \in DOMAIN ledger'[q] : ledger'[q][i].position >= p
          BY <2>3, <4>2, <4>4
        <5> QED BY <3>3, <5>1 DEF ReadAll
      <4>5. CASE /\ log[q][p].lines <= Len(ledger[q])
                 /\ \A i \in DOMAIN ledger[q] : i > log[q][p].lines => ledger[q][i].position >= p
        <5>1. log'[q][p].lines <= Len(ledger'[q])
          BY <2>2, <2>3, <4>3, <4>5
        <5>2. \A i \in DOMAIN ledger'[q] : i > log'[q][p].lines => ledger'[q][i].position >= p
          BY <2>2, <2>3, <4>2, <4>5
        <5> QED BY <3>3, <5>1, <5>2 DEF ReadAll
      <4> QED BY <3>1, <3>3, <4>4, <4>5 DEF ReadAll
    <3> QED BY <3>2, <3>3
  <2>5. dedupe \in Grouping /\ (dedupe.at # Idle => dedupe.run \in Runs)
    BY DEF RecordTypes
  <2>6. CASE dedupe.at # Idle /\ dedupe.run = q
    <3>1. dedupe'.late
      BY <2>2, <2>5, <2>6 DEF Grouping
    <3> QED BY <2>2, <2>4, <3>1 DEF GroupingsReadAll
  <2>7. CASE ~(dedupe.at # Idle /\ dedupe.run = q)
    <3>1. dedupe' = dedupe
      BY <2>2, <2>7
    <3>2. dedupe.at # Idle => ledger'[dedupe.run] = ledger[dedupe.run]
      BY <2>3, <2>5, <2>7
    <3> QED BY <2>2, <2>4, <3>1, <3>2 DEF GroupingsReadAll
  <2> QED BY <2>6, <2>7
<1>8. ASSUME NEW c \in Clerks, Announce(c) PROVE GroupingsReadAll'
  <2>1. clerk[c].run \in Runs /\ clerk[c].sig \in Sigs
    BY <1>8, CallIs DEF Announce, Idle
  <2>2. Logged(clerk[c].run, Event("recorded", clerk[c].sig, TRUE)) /\ UNCHANGED <<ledger, dedupe>>
    BY <1>8 DEF Announce
  <2> QED BY <1>2, <2>1, <2>2
<1>9. ASSUME NEW c \in Clerks, Mirror(c) \/ Abandon(c) PROVE GroupingsReadAll'
  BY <1>0, <1>9 DEF Mirror, Abandon, files
<1>10. ASSUME NEW r \in Runs, NEW s \in Sigs, NEW v \in BOOLEAN, Replay(r, s, v) PROVE GroupingsReadAll'
  BY <1>2, <1>10 DEF Replay
<1>11. ASSUME NEW r \in Runs, DedupeRead(r) PROVE GroupingsReadAll'
  <2>1. /\ dedupe' = [NoDedupe EXCEPT !.at = "read", !.run = r, !.lines = Len(ledger[r])]
        /\ UNCHANGED <<ledger, log>>
    BY <1>11 DEF DedupeRead, files
  <2>2. dedupe'.run = r /\ dedupe'.lines = Len(ledger[r])
    BY <2>1 DEF NoDedupe
  <2> QED BY <2>1, <2>2 DEF GroupingsReadAll, ReadAll
<1>12. ASSUME DedupeLog PROVE GroupingsReadAll'
  <2> DEFINE e == [type |-> "dedupe", lines |-> dedupe.lines, late |-> dedupe.late]
  <2>1. e \in LogEntry /\ dedupe.run \in Runs /\ e.lines = dedupe.lines /\ e.late = dedupe.late
    BY <1>12 DEF LogEntry, Grouping, DedupeLog, RecordTypes, Idle
  <2>2. Logged(dedupe.run, e) /\ dedupe' = NoDedupe /\ UNCHANGED ledger /\ dedupe.at # Idle
    BY <1>12 DEF DedupeLog, Idle
  <2>3. ~e.late => ledger[dedupe.run] = <<>> \/ Len(ledger[dedupe.run]) = e.lines
    BY <2>1, <2>2 DEF GroupingsReadAll
  <2> HIDE DEF e
  <2>4. \A q \in Runs : \A p \in DOMAIN log'[q] :
          log'[q][p].type = "dedupe" /\ ~log'[q][p].late => ReadAll(q, p)'
    BY <2>1, <2>2, <2>3, StaysRead
  <2> QED BY <2>2, <2>4, Idles DEF GroupingsReadAll
<1>13. ASSUME NEW r \in Runs, GcCopy(r) \/ DropArchive(r) PROVE GroupingsReadAll'
  BY <1>0, <1>13 DEF GcCopy, DropArchive, files
<1>14. ASSUME GcInstall \/ GcKilled PROVE GroupingsReadAll'
  BY <1>0, <1>14 DEF GcInstall, GcKilled, files
<1>15. ASSUME GcDelete PROVE GroupingsReadAll'
  <2>1. PICK g \in Runs : g = gc.run
    BY <1>15, GcDeleteCalls
  <2>2. /\ ledger'[g] = <<>> /\ log'[g] = <<>> /\ UNCHANGED dedupe
        /\ \A q \in Runs \ {g} : ledger'[q] = ledger[q] /\ log'[q] = log[q]
    BY <1>15, <2>1, GcDeleteCalls DEF GcDelete
  <2>3. ASSUME NEW r \in Runs, NEW p \in DOMAIN log'[r], log'[r][p].type = "dedupe", ~log'[r][p].late
        PROVE  ReadAll(r, p)'
    <3>1. r # g
      BY <2>2
    <3>2. ReadAll(r, p)
      BY <2>2, <2>3, <3>1 DEF GroupingsReadAll
    <3> QED BY <2>2, <3>1, <3>2 DEF ReadAll
  <2>4. dedupe.at # Idle => dedupe.run \in Runs
    BY DEF RecordTypes
  <2> QED BY <2>2, <2>3, <2>4 DEF GroupingsReadAll
<1>16. CASE UNCHANGED records
  BY <1>0, <1>16 DEF records, files
<1>17. ASSUME NEW c \in Clerks, ClerkNext(c) PROVE GroupingsReadAll'
  BY <1>3, <1>4, <1>5, <1>6, <1>7, <1>8, <1>9, <1>17 DEF ClerkNext
<1>18. CASE GcNext
  BY <1>13, <1>14, <1>15, <1>18 DEF GcNext
<1> QED BY <1>10, <1>11, <1>12, <1>16, <1>17, <1>18 DEF RecordsNext

\* The last finding_dedupe of a run that passes the audit read every finding
\* of the run, unless one was appended since its read or is not announced.
THEOREM AuditSeesAllGrouped == IndexSpec => []AuditedIsGrouped
<1>1. IndexInit => RecordTypes /\ GroupingsReadAll
  <2> SUFFICES ASSUME IndexInit PROVE GroupingsReadAll
    BY RecordTypesInit DEF IndexInit
  <2>1. \A r \in Runs : ledger[r] = <<>>
    BY DEF IndexInit, RecordsInit
  <2>2. dedupe.at = Idle
    BY Idles DEF IndexInit, RecordsInit
  <2> QED BY <2>1, <2>2 DEF GroupingsReadAll, ReadAll
<1>2. RecordTypes /\ GroupingsReadAll /\ [IndexNext]_<<recordsVars, indexVars>>
        => (RecordTypes /\ GroupingsReadAll)'
  BY IndexStepIs, RecordTypesStep, GroupingsReadAllStep
<1>3. RecordTypes /\ GroupingsReadAll => AuditedIsGrouped
  <2> SUFFICES ASSUME RecordTypes, GroupingsReadAll, NEW r \in Runs, ledger[r] # <<>>, AuditOk(r),
                      \A i \in DOMAIN ledger[r] :
                        \E j \in ledger[r][i].position + 1..Len(log[r]) :
                          log[r][j].type = "recorded" /\ log[r][j].sig = ledger[r][i].sig
               PROVE  LET d == log[r][Latest(log[r], "dedupe")]
                      IN d.lines = Len(ledger[r]) \/ d.late
    BY DEF AuditedIsGrouped
  <2> DEFINE p == Latest(log[r], "dedupe")
             a == Latest(log[r], "recorded")
  <2>1. log[r] \in Seq(LogEntry) /\ ledger[r] \in Seq(Line)
    BY DEF RecordTypes
  <2>2. p \in Nat /\ a \in Nat /\ p > a
    BY <2>1, LatestIs DEF AuditOk, Grouped
  <2>3. p \in DOMAIN log[r] /\ log[r][p].type = "dedupe"
    BY <2>1, <2>2, LatestIs
  <2>4. \A j \in DOMAIN log[r] : log[r][j].type = "recorded" => j <= a
    BY <2>1, LatestIs
  <2> HIDE DEF p, a
  <2>5. ASSUME NEW i \in DOMAIN ledger[r] PROVE ~(ledger[r][i].position >= p)
    <3>0. ledger[r][i] \in Line
      BY <2>1
    <3>1. ledger[r][i].position \in Nat
      BY <3>0 DEF Line
    <3>2. PICK j \in ledger[r][i].position + 1..Len(log[r]) : log[r][j].type = "recorded"
      OBVIOUS
    <3>3. j \in DOMAIN log[r]
      BY <2>1, <3>1
    <3> QED BY <2>2, <2>4, <3>1, <3>2, <3>3
  <2> SUFFICES ASSUME ~log[r][p].late PROVE log[r][p].lines = Len(ledger[r])
    BY DEF p
  <2>6. ReadAll(r, p)
    BY <2>3 DEF GroupingsReadAll
  <2>7. DOMAIN ledger[r] = 1..Len(ledger[r]) /\ Len(ledger[r]) \in Nat /\ Len(ledger[r]) > 0
    BY <2>1
  <2>8. log[r][p].lines <= Len(ledger[r])
        /\ \A i \in DOMAIN ledger[r] : i > log[r][p].lines => ledger[r][i].position >= p
    <3>1. 1 \in DOMAIN ledger[r]
      BY <2>7
    <3>2. ~(\A i \in DOMAIN ledger[r] : ledger[r][i].position >= p)
      BY <2>5, <3>1
    <3> QED BY <2>6, <3>2 DEF ReadAll
  <2>9. log[r][p] \in LogEntry
    BY <2>1, <2>3
  <2>10. log[r][p].lines \in Nat
    BY <2>3, <2>9 DEF LogEntry
  <2>11. ~(Len(ledger[r]) > log[r][p].lines)
    BY <2>5, <2>7, <2>8
  <2> QED BY <2>7, <2>8, <2>10, <2>11
<1> QED BY <1>1, <1>2, <1>3, PTL DEF IndexSpec

=============================================================================
