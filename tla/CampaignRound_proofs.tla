------------------------- MODULE CampaignRound_proofs -------------------------
(***************************************************************************)
(* Proofs about CampaignRound, for any campaigns, signatures and earlier   *)
(* metrics lines: what the loops of campaigns make of the files they share *)
(* although nothing keeps their reads and writes apart.                    *)
(***************************************************************************)
EXTENDS CampaignRound, FiniteSetTheorems, WellFoundedInduction, TLAPS

-----------------------------------------------------------------------------
(* The invariant *)

Places == {"idle", "start", "begin"} \cup InRound

Memory ==
  [known : SUBSET Sigs, todo : SUBSET Sigs, copy : {<<>>} \cup {<<k>> : k \in SUBSET Sigs},
   fresh : BOOLEAN, plateaued : BOOLEAN, read : Statuses \cup {"?"},
   line : [stat : Nat, size : Nat]]

RoundTypes ==
  /\ known \in SUBSET Sigs /\ quarantined \in SUBSET Sigs
  /\ found \in [Campaigns -> SUBSET Sigs]
  /\ at \in [Campaigns -> Places] /\ mem \in [Campaigns -> Memory]
  /\ status \in Statuses /\ synced \in Statuses \cup {"?"}
  /\ verdict \in {"none", "confirmed", "overruled"}
  /\ interrupts \in Nat /\ overlapped \in BOOLEAN /\ raced \in BOOLEAN

\* A signature is known, copied or waits to be recorded only if it was found.
OnlyFound ==
  /\ known \subseteq Found /\ quarantined \subseteq Found
  /\ \A p \in Campaigns :
       /\ mem[p].known \subseteq Found /\ mem[p].todo \subseteq Found
       /\ mem[p].copy # <<>> => mem[p].copy[1] \subseteq Found

\* Signatures are recorded in their place of the round, and a copy of the file
\* is one that a signature will be added to.
RecordsInPlace ==
  \A p \in Campaigns :
    /\ mem[p].todo # {} => at[p] = "record"
    /\ mem[p].copy # <<>> => mem[p].todo # {}

\* Without an overlap there is one copy of the file, and it is up to date.
OneCopy ==
  ~overlapped =>
    \A p \in Campaigns :
      mem[p].copy # <<>> =>
        /\ mem[p].copy[1] = known
        /\ \A q \in Campaigns \ {p} : mem[q].copy = <<>>

\* What was found is known, or some campaign will record it.
FoundIsRecorded ==
  interrupts = 0 /\ ~overlapped =>
    \A s \in Found : s \in known \/ \E p \in Campaigns : s \in mem[p].todo

\* A finding has confirmed the candidate, or a campaign is about to.
Confirming(p) == mem[p].fresh /\ at[p] \in {"record", "confirm"}

FoundIsConfirming ==
  interrupts = 0 /\ Found # {} => verdict # "none" \/ \E p \in Campaigns : Confirming(p)

\* A status that was read is one that can be followed by another.
ReadsInPlace ==
  /\ \A p \in Campaigns :
       mem[p].read # "?" => /\ at[p] \in {"start", "confirm", "plateau"}
                            /\ mem[p].read # "confirmed"
  /\ synced # "confirmed"

\* The loop and an operator are the only ones that confirm and overrule.
VerdictIsStatus ==
  /\ verdict = "none" => status # "confirmed"
  /\ verdict = "confirmed" /\ ~raced => status = "confirmed"

RoundInv ==
  /\ RoundTypes /\ OnlyFound /\ RecordsInPlace /\ OneCopy /\ FoundIsRecorded
  /\ FoundIsConfirming /\ ReadsInPlace /\ VerdictIsStatus

-----------------------------------------------------------------------------
(* What a step of one campaign leaves alone *)

LEMMA NewRoundIsMemory ==
  /\ NewRound \in Memory /\ NewRound.known = {} /\ NewRound.todo = {} /\ NewRound.copy = <<>>
  /\ NewRound.read = "?" /\ ~NewRound.fresh
<1>1. NewRound.line \in [stat : Nat, size : Nat]
  BY DEF NewRound, NoValue
<1> QED BY <1>1 DEF NewRound, Memory

LEMMA OthersStay ==
  ASSUME RoundTypes, NEW p \in Campaigns, NEW m, Remember(p, m), NEW q \in Campaigns
  PROVE  mem'[q] = IF q = p THEN m ELSE mem[q]
  BY DEF RoundTypes, Remember

LEMMA OthersWait ==
  ASSUME RoundTypes, NEW p \in Campaigns, NEW from, NEW to, Goto(p, from, to), NEW q \in Campaigns
  PROVE  at'[q] = IF q = p THEN to ELSE at[q]
  BY DEF RoundTypes, Goto

\* The history and the shared files as they were, but for the metrics lines.
FilesStay ==
  UNCHANGED <<known, status, found, synced, quarantined, verdict, overlapped, raced>>

LEMMA FoundStays == ASSUME UNCHANGED found PROVE Found' = Found
  BY DEF Found

\* A campaign leaves its round: the loop after recording and confirming, or by
\* an interrupt.
LEMMA LeavingKeeps ==
  ASSUME RoundInv, NEW p \in Campaigns, NEW to \in {"idle", "begin"},
         at' = [at EXCEPT ![p] = to], Remember(p, NewRound), FilesStay,
         \/ interrupts' = interrupts /\ at[p] \in {"end", "fuzz"}
         \/ interrupts' = interrupts + 1
  PROVE  RoundInv'
<1> USE DEF RoundInv, FilesStay
<1>1. \A q \in Campaigns :
        /\ mem'[q] = IF q = p THEN NewRound ELSE mem[q]
        /\ at'[q] = IF q = p THEN to ELSE at[q]
  BY OthersStay DEF RoundTypes
<1>2. RoundTypes'
  BY NewRoundIsMemory DEF RoundTypes, Remember, Places
<1>3. OnlyFound'
  BY <1>1, FoundStays, NewRoundIsMemory DEF OnlyFound
<1>4. RecordsInPlace'
  BY <1>1, NewRoundIsMemory DEF RecordsInPlace
<1>5. OneCopy'
  BY <1>1, NewRoundIsMemory DEF OneCopy
<1>6. FoundIsRecorded'
  <2>1. interrupts' = 0 => interrupts = 0 /\ mem[p].todo = {}
    BY DEF RoundTypes, RecordsInPlace
  <2> QED BY <1>1, <2>1, FoundStays DEF FoundIsRecorded
<1>7. FoundIsConfirming'
  <2>1. interrupts' = 0 => interrupts = 0 /\ ~Confirming(p)
    BY DEF RoundTypes, Confirming
  <2>2. \A q \in Campaigns : Confirming(q) /\ q # p => Confirming(q)'
    BY <1>1 DEF Confirming
  <2> QED BY <2>1, <2>2, FoundStays DEF FoundIsConfirming
<1>8. ReadsInPlace'
  BY <1>1, NewRoundIsMemory DEF ReadsInPlace
<1>9. VerdictIsStatus'
  BY DEF VerdictIsStatus
<1> QED BY <1>2, <1>3, <1>4, <1>5, <1>6, <1>7, <1>8, <1>9

LEMMA StartKeeps ==
  ASSUME RoundInv, NEW p \in Campaigns, Start(p)
  PROVE  RoundInv'
<1> USE DEF RoundInv
<1>1. /\ UNCHANGED <<mem, interrupts, known, status, found, synced, quarantined, verdict>>
      /\ UNCHANGED <<overlapped, raced>>
      /\ at[p] = "idle" /\ at' = [at EXCEPT ![p] = "start"]
  BY DEF Start, Goto, shared, history
<1>2. \A q \in Campaigns : at'[q] = IF q = p THEN "start" ELSE at[q]
  BY <1>1, OthersWait DEF Goto
<1>3. RoundTypes'
  BY <1>1 DEF RoundTypes, Places
<1>4. OnlyFound' /\ OneCopy' /\ FoundIsRecorded' /\ VerdictIsStatus'
  BY <1>1 DEF OnlyFound, OneCopy, FoundIsRecorded, VerdictIsStatus, Found
<1>5. RecordsInPlace'
  BY <1>1, <1>2 DEF RecordsInPlace
<1>6. FoundIsConfirming'
  BY <1>1, <1>2, FoundStays DEF FoundIsConfirming, Confirming
<1>7. ReadsInPlace'
  BY <1>1, <1>2 DEF ReadsInPlace
<1> QED BY <1>3, <1>4, <1>5, <1>6, <1>7

LEMMA BeginKeeps ==
  ASSUME RoundInv, NEW p \in Campaigns, Begin(p)
  PROVE  RoundInv'
<1> USE DEF RoundInv
<1> DEFINE m == [NewRound EXCEPT !.known = known]
<1>1. /\ UNCHANGED <<interrupts, known, status, found, synced, quarantined, verdict>>
      /\ UNCHANGED <<overlapped, raced>>
      /\ Goto(p, "begin", "fuzz") /\ Remember(p, m)
  BY DEF Begin, shared
<1>2. /\ m \in Memory /\ m.known = known /\ m.todo = {} /\ m.copy = <<>> /\ m.read = "?"
      /\ ~m.fresh
  <2> HIDE DEF NewRound
  <2> QED BY NewRoundIsMemory DEF Memory, RoundTypes
<1> HIDE DEF m
<1>3. \A q \in Campaigns :
        /\ at'[q] = IF q = p THEN "fuzz" ELSE at[q]
        /\ mem'[q] = IF q = p THEN m ELSE mem[q]
  BY <1>1, OthersWait, OthersStay
<1>4. at[p] = "begin" /\ mem[p].todo = {}
  BY <1>1 DEF Goto, RecordsInPlace
<1>5. RoundTypes'
  BY <1>1, <1>2 DEF RoundTypes, Remember, Goto, Places, InRound
<1>6. OnlyFound'
  BY <1>1, <1>2, <1>3, FoundStays DEF OnlyFound
<1>7. RecordsInPlace' /\ OneCopy'
  BY <1>1, <1>2, <1>3 DEF RecordsInPlace, OneCopy
<1>8. FoundIsRecorded'
  BY <1>1, <1>3, <1>4, FoundStays DEF FoundIsRecorded
<1>9. FoundIsConfirming'
  BY <1>1, <1>3, <1>4, FoundStays DEF FoundIsConfirming, Confirming
<1>10. ReadsInPlace' /\ VerdictIsStatus'
  BY <1>1, <1>2, <1>3 DEF ReadsInPlace, VerdictIsStatus
<1> QED BY <1>5, <1>6, <1>7, <1>8, <1>9, <1>10

\* What a campaign finds is what it will record, and confirm the candidate for
\* if it did not know it at the start of the round.
LEMMA IntakeKeeps ==
  ASSUME RoundInv, NEW p \in Campaigns, Intake(p)
  PROVE  RoundInv'
<1> USE DEF RoundInv
<1> DEFINE Finds(suppressed, verified, better, odd, feature, size) ==
             LET returned == (verified \ found[p]) \cup better
             IN /\ verified \cap suppressed = {}
                /\ found' = [found EXCEPT ![p] = @ \cup verified]
                /\ quarantined' = quarantined \cup suppressed
                /\ Remember(p, [mem[p] EXCEPT
                     !.todo = suppressed \cup returned,
                     !.fresh = odd \/ ~(returned \subseteq mem[p].known),
                     !.line = [stat |-> IF mem[p].known = {} THEN feature ELSE NoValue,
                               size |-> size],
                     !.known = {}])
<1>0. \E seen \in SUBSET Sigs, odd \in BOOLEAN, feature \in Features, size \in Sizes :
      \E suppressed \in SUBSET (seen \cap mem[p].known), verified \in SUBSET seen :
      \E better \in SUBSET (verified \cap found[p]) :
        Finds(suppressed, verified, better, odd, feature, size)
  BY Zenon DEF Intake, ToRecord
<1>1. PICK suppressed \in SUBSET Sigs, verified \in SUBSET Sigs, better \in SUBSET Sigs,
           odd \in BOOLEAN, feature \in Features, size \in Sizes :
        /\ suppressed \subseteq mem[p].known /\ better \subseteq verified
        /\ Finds(suppressed, verified, better, odd, feature, size)
  <2> HIDE DEF Finds
  <2> QED BY <1>0
<1> DEFINE returned == (verified \ found[p]) \cup better
           fresh == odd \/ ~(returned \subseteq mem[p].known)
           line == [stat |-> IF mem[p].known = {} THEN feature ELSE NoValue, size |-> size]
           m == [mem[p] EXCEPT !.todo = suppressed \cup returned, !.fresh = fresh,
                               !.line = line, !.known = {}]
<1>4. /\ suppressed \subseteq mem[p].known /\ better \subseteq verified
      /\ found' = [found EXCEPT ![p] = @ \cup verified]
      /\ quarantined' = quarantined \cup suppressed
      /\ Remember(p, m)
  BY <1>1
<1>5. /\ UNCHANGED <<interrupts, known, status, synced, verdict, overlapped, raced>>
      /\ Goto(p, "fuzz", "record")
  BY DEF Intake, shared
<1>6. returned \subseteq Sigs /\ fresh \in BOOLEAN /\ line \in [stat : Nat, size : Nat]
  BY RoundAssumption DEF RoundTypes, NoValue
<1> HIDE DEF returned, fresh, line
<1>7. mem[p] \in Memory /\ mem[p].todo = {} /\ mem[p].copy = <<>> /\ mem[p].read = "?"
  BY <1>5 DEF RoundTypes, RecordsInPlace, ReadsInPlace, Goto
<1>8. /\ m \in Memory /\ m.known = {} /\ m.todo = suppressed \cup returned
      /\ m.copy = <<>> /\ m.read = "?" /\ m.fresh = fresh
  BY <1>6, <1>7 DEF Memory
<1> HIDE DEF m
<1>9. \A q \in Campaigns :
        /\ at'[q] = IF q = p THEN "record" ELSE at[q]
        /\ mem'[q] = IF q = p THEN m ELSE mem[q]
        /\ found'[q] = IF q = p THEN found[p] \cup verified ELSE found[q]
  BY <1>4, <1>5, OthersWait, OthersStay DEF RoundTypes
<1>10. Found' = Found \cup verified /\ verified \subseteq Found \cup returned
  <2>1. Found' = Found \cup verified
    BY <1>9 DEF Found
  <2> QED BY <2>1 DEF Found, returned
<1>11. returned \subseteq Found' /\ suppressed \subseteq Found /\ Found \subseteq Found'
  <2>1. suppressed \subseteq Found /\ Found \subseteq Found' /\ verified \subseteq Found'
    BY <1>4, <1>10 DEF OnlyFound
  <2> QED BY <1>4, <2>1 DEF returned
<1>12. RoundTypes'
  BY <1>4, <1>5, <1>8 DEF RoundTypes, Remember, Goto, Places, InRound
<1>13. OnlyFound'
  <2>1. known' \subseteq Found' /\ quarantined' \subseteq Found'
    BY <1>4, <1>5, <1>11 DEF OnlyFound
  <2>2. ASSUME NEW q \in Campaigns
        PROVE  /\ mem'[q].known \subseteq Found' /\ mem'[q].todo \subseteq Found'
               /\ mem'[q].copy # <<>> => mem'[q].copy[1] \subseteq Found'
    <3>1. CASE q = p
      BY <1>8, <1>9, <1>11, <3>1
    <3>2. CASE q # p
      <4>1. mem'[q] = mem[q]
        BY <1>9, <3>2
      <4> QED BY <1>11, <4>1 DEF OnlyFound
    <3> QED BY <3>1, <3>2
  <2> QED BY <2>1, <2>2 DEF OnlyFound
<1>14. RecordsInPlace' /\ OneCopy'
  BY <1>5, <1>8, <1>9 DEF RecordsInPlace, OneCopy
<1>15. FoundIsRecorded'
  <2> SUFFICES ASSUME interrupts = 0, ~overlapped, NEW s \in Found'
               PROVE  s \in known \/ \E q \in Campaigns : s \in mem'[q].todo
    BY <1>5 DEF FoundIsRecorded
  <2>1. CASE s \in Found
    BY <1>7, <1>9, <2>1 DEF FoundIsRecorded
  <2>2. CASE s \notin Found
    BY <1>8, <1>9, <1>10, <2>2
  <2> QED BY <2>1, <2>2
<1>16. FoundIsConfirming'
  <2> SUFFICES ASSUME interrupts = 0, Found' # {}, verdict = "none"
               PROVE  \E q \in Campaigns : Confirming(q)'
    BY <1>5 DEF FoundIsConfirming
  <2>1. CASE Found # {}
    <3>1. PICK q \in Campaigns : Confirming(q)
      BY <2>1 DEF FoundIsConfirming
    <3>2. q # p
      BY <1>5, <3>1 DEF Confirming, Goto
    <3> QED BY <1>9, <3>1, <3>2 DEF Confirming
  <2>2. CASE Found = {}
    <3>1. mem[p].known = {} /\ returned # {}
      BY <1>10, <2>2 DEF OnlyFound
    <3>2. fresh
      BY <3>1 DEF fresh
    <3> QED BY <1>8, <1>9, <3>2 DEF Confirming
  <2> QED BY <2>1, <2>2
<1>17. ReadsInPlace' /\ VerdictIsStatus'
  BY <1>5, <1>8, <1>9 DEF ReadsInPlace, VerdictIsStatus
<1> QED BY <1>12, <1>13, <1>14, <1>15, <1>16, <1>17

-----------------------------------------------------------------------------
(* Recording known crashes *)

\* A step within the round that neither moves the campaign nor touches what its
\* reads and its verdict depend on.
LEMMA RecordReadKeeps ==
  ASSUME RoundInv, NEW p \in Campaigns, RecordRead(p)
  PROVE  RoundInv'
<1> USE DEF RoundInv
<1> DEFINE m == [mem[p] EXCEPT !.copy = <<known>>]
<1>1. /\ UNCHANGED <<interrupts, known, status, found, at, synced, quarantined, verdict, raced>>
      /\ at[p] = "record" /\ mem[p].todo # {}
      /\ overlapped' = (overlapped \/ \E q \in Campaigns \ {p} : mem[q].copy # <<>>)
      /\ Remember(p, m)
  BY DEF RecordRead, shared
<1>2. mem[p] \in Memory /\ known \in SUBSET Sigs
  BY DEF RoundTypes
<1>3. /\ m \in Memory /\ m.copy = <<known>> /\ m.known = mem[p].known /\ m.todo = mem[p].todo
      /\ m.read = mem[p].read /\ m.fresh = mem[p].fresh
  BY <1>2 DEF Memory
<1> HIDE DEF m
<1>4. \A q \in Campaigns : mem'[q] = IF q = p THEN m ELSE mem[q]
  BY <1>1, OthersStay
<1>5. RoundTypes'
  BY <1>1, <1>3 DEF RoundTypes, Remember
<1>6. OnlyFound'
  BY <1>1, <1>3, <1>4, FoundStays DEF OnlyFound
<1>7. RecordsInPlace'
  BY <1>1, <1>3, <1>4 DEF RecordsInPlace
<1>8. OneCopy'
  <2>1. ~overlapped' => ~overlapped /\ \A q \in Campaigns \ {p} : mem[q].copy = <<>>
    BY <1>1 DEF RoundTypes
  <2>2. ASSUME ~overlapped', NEW q \in Campaigns, mem'[q].copy # <<>>
        PROVE  /\ q = p /\ mem'[q].copy[1] = known'
               /\ \A o \in Campaigns \ {q} : mem'[o].copy = <<>>
    BY <1>1, <1>3, <1>4, <2>1, <2>2
  <2> QED BY <2>2 DEF OneCopy
<1>9. FoundIsRecorded'
  BY <1>1, <1>3, <1>4, FoundStays DEF FoundIsRecorded
<1>10. FoundIsConfirming'
  BY <1>1, <1>3, <1>4, FoundStays DEF FoundIsConfirming, Confirming
<1>11. ReadsInPlace' /\ VerdictIsStatus'
  BY <1>1, <1>3, <1>4 DEF ReadsInPlace, VerdictIsStatus
<1> QED BY <1>5, <1>6, <1>7, <1>8, <1>9, <1>10, <1>11

\* Without an overlap the copy is the file, so only the new signature changes.
LEMMA RecordWriteKeeps ==
  ASSUME RoundInv, NEW p \in Campaigns, RecordWrite(p)
  PROVE  RoundInv'
<1> USE DEF RoundInv
<1>1. PICK s \in mem[p].todo :
        /\ known' = mem[p].copy[1] \cup {s}
        /\ Remember(p, [mem[p] EXCEPT !.copy = <<>>, !.todo = @ \ {s}])
  BY DEF RecordWrite, Written
<1> DEFINE m == [mem[p] EXCEPT !.copy = <<>>, !.todo = @ \ {s}]
<1>2. /\ UNCHANGED <<interrupts, status, found, at, synced, quarantined, verdict>>
      /\ UNCHANGED <<overlapped, raced>>
      /\ at[p] = "record" /\ mem[p].copy # <<>> /\ Remember(p, m)
  BY <1>1 DEF RecordWrite, history
<1>3. mem[p] \in Memory /\ mem[p].copy[1] \in SUBSET Sigs /\ s \in Sigs
  BY <1>2 DEF RoundTypes, Memory
<1>4. /\ m \in Memory /\ m.copy = <<>> /\ m.known = mem[p].known /\ m.todo = mem[p].todo \ {s}
      /\ m.read = mem[p].read /\ m.fresh = mem[p].fresh
  BY <1>3 DEF Memory
<1> HIDE DEF m
<1>5. \A q \in Campaigns : mem'[q] = IF q = p THEN m ELSE mem[q]
  BY <1>2, OthersStay
<1>6. RoundTypes'
  BY <1>1, <1>2, <1>3, <1>4 DEF RoundTypes, Remember
<1>7. OnlyFound'
  <2>1. mem[p].copy[1] \subseteq Found /\ s \in Found /\ mem[p].todo \subseteq Found
    BY <1>2 DEF OnlyFound
  <2> QED BY <1>1, <1>2, <1>4, <1>5, <2>1, FoundStays DEF OnlyFound
<1>8. RecordsInPlace'
  BY <1>2, <1>4, <1>5 DEF RecordsInPlace
<1>9. OneCopy'
  BY <1>2, <1>4, <1>5 DEF OneCopy
<1>10. FoundIsRecorded'
  <2>1. ~overlapped => known' = known \cup {s}
    BY <1>1, <1>2 DEF OneCopy
  <2> QED BY <1>2, <1>4, <1>5, <2>1, FoundStays DEF FoundIsRecorded
<1>11. FoundIsConfirming'
  BY <1>2, <1>4, <1>5, FoundStays DEF FoundIsConfirming, Confirming
<1>12. ReadsInPlace' /\ VerdictIsStatus'
  BY <1>2, <1>4, <1>5 DEF ReadsInPlace, VerdictIsStatus
<1> QED BY <1>6, <1>7, <1>8, <1>9, <1>10, <1>11, <1>12

LEMMA AssessKeeps ==
  ASSUME RoundInv, NEW p \in Campaigns, Assess(p)
  PROVE  RoundInv'
<1> USE DEF RoundInv
<1> DEFINE flat == Verdict(lines) = "plateaued"
           m == [mem[p] EXCEPT !.plateaued = flat]
<1>1. /\ UNCHANGED <<interrupts, known, status, found, synced, quarantined, verdict>>
      /\ UNCHANGED <<overlapped, raced>>
      /\ Goto(p, "record", "confirm") /\ mem[p].todo = {} /\ Remember(p, m)
  BY DEF Assess, shared, history
<1>2. mem[p] \in Memory /\ flat \in BOOLEAN
  BY DEF RoundTypes
<1> HIDE DEF flat
<1>3. /\ m \in Memory /\ m.copy = mem[p].copy /\ m.known = mem[p].known
      /\ m.todo = {} /\ m.read = mem[p].read /\ m.fresh = mem[p].fresh
  BY <1>1, <1>2 DEF Memory
<1> HIDE DEF m
<1>4. \A q \in Campaigns :
        /\ at'[q] = IF q = p THEN "confirm" ELSE at[q]
        /\ mem'[q] = IF q = p THEN m ELSE mem[q]
  BY <1>1, OthersWait, OthersStay
<1>5. RoundTypes'
  BY <1>1, <1>3 DEF RoundTypes, Remember, Goto, Places, InRound
<1>6. OnlyFound'
  BY <1>1, <1>3, <1>4, FoundStays DEF OnlyFound
<1>7. RecordsInPlace' /\ OneCopy'
  BY <1>1, <1>3, <1>4 DEF RecordsInPlace, OneCopy
<1>8. FoundIsRecorded'
  BY <1>1, <1>3, <1>4, FoundStays DEF FoundIsRecorded
<1>9. FoundIsConfirming'
  BY <1>1, <1>3, <1>4, FoundStays DEF FoundIsConfirming, Confirming
<1>10. ReadsInPlace' /\ VerdictIsStatus'
  BY <1>1, <1>3, <1>4 DEF ReadsInPlace, VerdictIsStatus, Goto
<1> QED BY <1>5, <1>6, <1>7, <1>8, <1>9, <1>10

-----------------------------------------------------------------------------
(* The candidate ledger *)

\* A check either remembers the status, which is not one that is kept, or goes
\* on; where a finding is waiting it goes on only if the candidate is confirmed.
LEMMA CheckKeeps ==
  ASSUME RoundInv, NEW p \in Campaigns, NEW place \in {"start", "confirm", "plateau"},
         NEW next \in {"begin", "plateau", "end"}, NEW wanted, NEW kept,
         Check(p, place, next, wanted, kept), "confirmed" \in kept,
         place = "confirm" => wanted = mem[p].fresh /\ kept = {"confirmed"}
  PROVE  RoundInv'
<1> USE DEF RoundInv
<1>1. /\ UNCHANGED <<interrupts, known, status, found, synced, quarantined, verdict>>
      /\ UNCHANGED <<overlapped, raced>>
      /\ at[p] = place /\ mem[p].read = "?"
  BY DEF Check, shared, history, Goto
<1>2. CASE wanted /\ status \notin kept
  <2> DEFINE m == [mem[p] EXCEPT !.read = status]
  <2>1. Remember(p, m) /\ UNCHANGED at
    BY <1>2 DEF Check
  <2>2. /\ m \in Memory /\ m.copy = mem[p].copy /\ m.known = mem[p].known
        /\ m.todo = mem[p].todo /\ m.read = status /\ m.fresh = mem[p].fresh
    <3>1. mem[p] \in Memory /\ status \in Statuses
      BY DEF RoundTypes
    <3> QED BY <3>1 DEF Memory
  <2> HIDE DEF m
  <2>3. \A q \in Campaigns : mem'[q] = IF q = p THEN m ELSE mem[q]
    BY <2>1, OthersStay
  <2>4. RoundTypes'
    BY <1>1, <2>1, <2>2 DEF RoundTypes, Remember
  <2>5. OnlyFound'
    BY <1>1, <2>2, <2>3, FoundStays DEF OnlyFound
  <2>6. RecordsInPlace' /\ OneCopy'
    BY <1>1, <2>1, <2>2, <2>3 DEF RecordsInPlace, OneCopy
  <2>7. FoundIsRecorded' /\ FoundIsConfirming'
    BY <1>1, <2>1, <2>2, <2>3, FoundStays DEF FoundIsRecorded, FoundIsConfirming, Confirming
  <2>8. ReadsInPlace' /\ VerdictIsStatus'
    BY <1>1, <1>2, <2>1, <2>2, <2>3 DEF ReadsInPlace, VerdictIsStatus
  <2> QED BY <2>4, <2>5, <2>6, <2>7, <2>8
<1>3. CASE ~(wanted /\ status \notin kept)
  <2>1. Goto(p, place, next) /\ UNCHANGED mem
    BY <1>3 DEF Check
  <2>2. \A q \in Campaigns : at'[q] = IF q = p THEN next ELSE at[q]
    BY <2>1, OthersWait
  <2>3. RoundTypes'
    BY <1>1, <2>1 DEF RoundTypes, Goto, Places, InRound
  <2>4. OnlyFound' /\ OneCopy' /\ FoundIsRecorded' /\ VerdictIsStatus'
    BY <1>1, <2>1 DEF OnlyFound, OneCopy, FoundIsRecorded, VerdictIsStatus, Found
  <2>5. RecordsInPlace' /\ ReadsInPlace'
    BY <1>1, <2>1, <2>2 DEF RecordsInPlace, ReadsInPlace
  <2>6. FoundIsConfirming'
    <3>1. Confirming(p) => verdict # "none"
      <4>1. Confirming(p) => status = "confirmed"
        BY <1>1, <1>3 DEF Confirming
      <4> QED BY <4>1 DEF VerdictIsStatus
    <3>2. \A q \in Campaigns \ {p} : Confirming(q) => Confirming(q)'
      BY <2>1, <2>2 DEF Confirming
    <3> QED BY <1>1, <3>1, <3>2, FoundStays DEF FoundIsConfirming
  <2> QED BY <2>3, <2>4, <2>5, <2>6
<1> QED BY <1>2, <1>3

\* What is appended after a check that still holds overrules no confirmation.
LEMMA AppendKeeps ==
  ASSUME RoundInv, NEW p \in Campaigns, NEW place \in {"start", "confirm", "plateau"},
         NEW next \in {"begin", "plateau", "end"}, NEW new \in Statuses,
         AppendStatus(p, place, next, new), place = "confirm" => new = "confirmed"
  PROVE  RoundInv'
<1> USE DEF RoundInv
<1> DEFINE m == [mem[p] EXCEPT !.read = "?"]
<1>1. /\ UNCHANGED <<interrupts, known, found, synced, quarantined, overlapped>>
      /\ mem[p].read # "?" /\ Goto(p, place, next) /\ status' = new
      /\ raced' = (raced \/ status # mem[p].read)
      /\ verdict' = IF new = "confirmed" THEN "confirmed" ELSE verdict
      /\ Remember(p, m)
  BY DEF AppendStatus
<1>2. /\ m \in Memory /\ m.copy = mem[p].copy /\ m.known = mem[p].known
      /\ m.todo = mem[p].todo /\ m.read = "?" /\ m.fresh = mem[p].fresh
  <2>1. mem[p] \in Memory
    BY DEF RoundTypes
  <2> QED BY <2>1 DEF Memory
<1> HIDE DEF m
<1>3. \A q \in Campaigns :
        /\ at'[q] = IF q = p THEN next ELSE at[q]
        /\ mem'[q] = IF q = p THEN m ELSE mem[q]
  BY <1>1, OthersWait, OthersStay
<1>4. at[p] = place /\ mem[p].read # "confirmed"
  BY <1>1 DEF Goto, ReadsInPlace
<1>5. RoundTypes'
  BY <1>1, <1>2 DEF RoundTypes, Remember, Goto, Places, InRound
<1>6. OnlyFound'
  BY <1>1, <1>2, <1>3, FoundStays DEF OnlyFound
<1>7. RecordsInPlace' /\ OneCopy'
  BY <1>1, <1>2, <1>3, <1>4 DEF RecordsInPlace, OneCopy
<1>8. FoundIsRecorded'
  BY <1>1, <1>2, <1>3, FoundStays DEF FoundIsRecorded
<1>9. FoundIsConfirming'
  <2>1. Confirming(p) => verdict' # "none"
    BY <1>1, <1>4 DEF Confirming
  <2>2. \A q \in Campaigns \ {p} : Confirming(q) => Confirming(q)'
    BY <1>3 DEF Confirming
  <2>3. verdict # "none" => verdict' # "none"
    BY <1>1
  <2> QED BY <1>1, <2>1, <2>2, <2>3, FoundStays DEF FoundIsConfirming
<1>10. ReadsInPlace'
  BY <1>1, <1>2, <1>3 DEF ReadsInPlace
<1>11. VerdictIsStatus'
  BY <1>1, <1>4 DEF VerdictIsStatus
<1> QED BY <1>5, <1>6, <1>7, <1>8, <1>9, <1>10, <1>11

LEMMA TransitionsKeep ==
  ASSUME RoundInv, NEW p \in Campaigns, Transitions(p)
  PROVE  RoundInv'
<1> USE DEF Statuses, Advanced
<1>1. CASE Check(p, "start", "begin", TRUE, KeptAtStart)
  BY <1>1, CheckKeeps DEF KeptAtStart
<1>2. CASE AppendStatus(p, "start", "begin", "fuzzing")
  BY <1>2, AppendKeeps
<1>3. CASE Check(p, "confirm", "plateau", mem[p].fresh, KeptByFinding)
  BY <1>3, CheckKeeps DEF KeptByFinding
<1>4. CASE AppendStatus(p, "confirm", "plateau", "confirmed")
  BY <1>4, AppendKeeps
<1>5. CASE Check(p, "plateau", "end", mem[p].plateaued, KeptByPlateau)
  BY <1>5, CheckKeeps DEF KeptByPlateau
<1>6. CASE AppendStatus(p, "plateau", "end", "plateaued")
  BY <1>6, AppendKeeps
<1> QED BY <1>1, <1>2, <1>3, <1>4, <1>5, <1>6 DEF Transitions

LEMMA OrderKeeps ==
  ASSUME RoundInv, NEW new \in Orders, Order(new)
  PROVE  RoundInv'
<1> USE DEF RoundInv
<1>1. /\ UNCHANGED <<known, found, at, mem, synced, quarantined, interrupts, overlapped, raced>>
      /\ status' = new
      /\ verdict' = IF verdict = "confirmed" THEN "overruled" ELSE verdict
  BY DEF Order
<1>2. new \in {"dead", "escalated"}
  BY RoundAssumption
<1>3. RoundTypes'
  BY <1>1, <1>2 DEF RoundTypes, Statuses, Advanced
<1>4. OnlyFound' /\ RecordsInPlace' /\ OneCopy' /\ FoundIsRecorded' /\ ReadsInPlace'
  BY <1>1 DEF OnlyFound, RecordsInPlace, OneCopy, FoundIsRecorded, ReadsInPlace, Found
<1>5. FoundIsConfirming'
  BY <1>1, FoundStays DEF FoundIsConfirming, Confirming
<1>6. VerdictIsStatus'
  BY <1>1, <1>2 DEF VerdictIsStatus, RoundTypes
<1> QED BY <1>3, <1>4, <1>5, <1>6

LEMMA SyncKeeps ==
  ASSUME RoundInv, SyncRead \/ SyncAppend
  PROVE  RoundInv'
<1> USE DEF RoundInv
<1>1. /\ UNCHANGED <<known, found, at, mem, quarantined, interrupts, overlapped, verdict>>
      /\ \/ /\ status \notin KeptBySync /\ synced' = status /\ UNCHANGED <<status, raced>>
         \/ /\ synced # "?" /\ synced' = "?" /\ status' = "validated"
            /\ raced' = (raced \/ status # synced)
  BY DEF SyncRead, SyncAppend, shared, history
<1>2. RoundTypes'
  BY <1>1 DEF RoundTypes, Statuses
<1>3. OnlyFound' /\ RecordsInPlace' /\ OneCopy' /\ FoundIsRecorded' /\ FoundIsConfirming'
  BY <1>1
     DEF OnlyFound, RecordsInPlace, OneCopy, FoundIsRecorded, FoundIsConfirming, Confirming, Found
<1>4. ReadsInPlace'
  BY <1>1 DEF ReadsInPlace, KeptBySync, Advanced
<1>5. VerdictIsStatus'
  BY <1>1 DEF VerdictIsStatus, ReadsInPlace
<1> QED BY <1>2, <1>3, <1>4, <1>5

-----------------------------------------------------------------------------
(* The theorems *)

LEMMA RoundInvInit == RoundInit => RoundInv
<1> SUFFICES ASSUME RoundInit PROVE RoundInv
  OBVIOUS
<1>1. /\ known = {} /\ quarantined = {} /\ Found = {} /\ synced = "?" /\ verdict = "none"
      /\ status \in {"none", "fuzzing"} /\ interrupts = 0 /\ ~overlapped /\ ~raced
      /\ \A p \in Campaigns : at[p] = "idle" /\ mem[p] = NewRound
  BY DEF RoundInit, Found
<1>2. RoundTypes
  BY NewRoundIsMemory DEF RoundInit, RoundTypes, Places, Statuses, Advanced
<1>3. OnlyFound /\ RecordsInPlace /\ OneCopy /\ FoundIsRecorded /\ FoundIsConfirming
  BY <1>1, NewRoundIsMemory
     DEF OnlyFound, RecordsInPlace, OneCopy, FoundIsRecorded, FoundIsConfirming
<1>4. ReadsInPlace /\ VerdictIsStatus
  BY <1>1, NewRoundIsMemory DEF ReadsInPlace, VerdictIsStatus
<1> QED BY <1>2, <1>3, <1>4 DEF RoundInv

LEMMA RoundInvStep == RoundInv /\ [RoundNext]_roundVars => RoundInv'
<1> SUFFICES ASSUME RoundInv, [RoundNext]_roundVars PROVE RoundInv'
  OBVIOUS
<1>1. ASSUME NEW p \in Campaigns, CampaignNext(p) PROVE RoundInv'
  <2>1. CASE EndRound(p) \/ Abort(p)
    <3>1. PICK to \in {"idle", "begin"} : at' = [at EXCEPT ![p] = to]
      BY <2>1 DEF EndRound, Abort, Goto
    <3>2. Remember(p, NewRound) /\ FilesStay /\ interrupts' = interrupts /\ at[p] \in {"end", "fuzz"}
      BY <2>1 DEF EndRound, Abort, Goto, FilesStay, history
    <3> QED BY <3>1, <3>2, LeavingKeeps
  <2>2. CASE Interrupt(p)
    <3>1. /\ at' = [at EXCEPT ![p] = "idle"] /\ Remember(p, NewRound)
          /\ FilesStay /\ interrupts' = interrupts + 1
      BY <2>2 DEF Interrupt, FilesStay
    <3> QED BY <3>1, LeavingKeeps
  <2> QED BY <1>1, <2>1, <2>2, StartKeeps, BeginKeeps, IntakeKeeps, RecordReadKeeps,
             RecordWriteKeeps, AssessKeeps, TransitionsKeep DEF CampaignNext
<1>2. CASE UNCHANGED roundVars
  <2>1. UNCHANGED <<known, status, found, at, mem, synced, quarantined, verdict, interrupts,
                    overlapped, raced>>
    BY <1>2 DEF roundVars, shared, history
  <2> QED BY <2>1
          DEF RoundInv, RoundTypes, OnlyFound, RecordsInPlace, OneCopy, FoundIsRecorded,
              FoundIsConfirming, Confirming, ReadsInPlace, VerdictIsStatus, Found
<1> QED BY <1>1, <1>2, OrderKeeps, SyncKeeps DEF RoundNext

LEMMA RoundInvariant == RoundSpec => []RoundInv
  BY RoundInvInit, RoundInvStep, PTL DEF RoundSpec

\* However campaigns on one target read and replace known-crashes.json over each
\* other, a crash is put aside only if a finding with its signature was recorded
\* ("Suppression must never eat a novel crash", known_crashes.py).
THEOREM SuppressedCrashWasFound == RoundSpec => []SuppressedWasFound
<1>1. RoundInv => SuppressedWasFound
  BY DEF RoundInv, OnlyFound, SuppressedWasFound
<1> QED BY <1>1, RoundInvariant, PTL

\* Every signature that was found is in known-crashes.json once no campaign is in
\* a round: record_known loses one only where two updates of the file overlap,
\* or where a campaign is interrupted before it has recorded what it found.
THEOREM FoundBecomesKnown == RoundSpec => []FoundIsKnown
<1>1. RoundInv => FoundIsKnown
  <2> SUFFICES ASSUME RoundInv, AllIdle, interrupts = 0, ~overlapped, NEW s \in Found
               PROVE  s \in known
    BY DEF FoundIsKnown
  <2>1. \A p \in Campaigns : mem[p].todo = {}
    BY DEF RoundInv, RecordsInPlace, AllIdle
  <2> QED BY <2>1 DEF RoundInv, FoundIsRecorded
<1> QED BY <1>1, RoundInvariant, PTL

\* A target with a finding has been confirmed in the candidate ledger once no
\* campaign is in a round, also where another campaign made the crash known
\* first, as long as none was interrupted.
THEOREM FoundBecomesConfirmed == RoundSpec => []FoundIsConfirmed
<1>1. RoundInv => FoundIsConfirmed
  <2> SUFFICES ASSUME RoundInv, AllIdle, interrupts = 0, Found # {}
               PROVE  verdict # "none"
    BY DEF FoundIsConfirmed
  <2>1. \A p \in Campaigns : ~Confirming(p)
    BY DEF Confirming, AllIdle
  <2> QED BY <2>1 DEF RoundInv, FoundIsConfirming
<1> QED BY <1>1, RoundInvariant, PTL

\* A confirmed candidate stays confirmed whatever other campaigns find, plateau
\* and start, and whatever candidates-sync validates, until an operator says
\* otherwise or a status is appended after an outdated check.
THEOREM ConfirmationStays == RoundSpec => []ConfirmedStays
<1>1. RoundInv => ConfirmedStays
  BY DEF RoundInv, VerdictIsStatus, ConfirmedStays
<1> QED BY <1>1, RoundInvariant, PTL

-----------------------------------------------------------------------------
(* The counts over rounds.jsonl *)

LEMMA InductionOverNat ==
  ASSUME NEW T, 0 \in T, \A n \in Nat : n \in T => n + 1 \in T
  PROVE  Nat \subseteq T
<1> SUFFICES ASSUME Nat \ T # {} PROVE FALSE
  OBVIOUS
<1> DEFINE R == OpToRel(<, Nat)
<1>1. IsWellFoundedOn(R, Nat)
  BY NatLessThanWellFounded
<1>3. \A i, j \in Nat : i < j => <<i, j>> \in R
  BY DEF OpToRel
<1> HIDE DEF R
<1>2. PICK x \in Nat \ T : \A y \in Nat \ T : ~ (<<y, x>> \in R)
  <2>1. Nat \ T \subseteq Nat OBVIOUS
  <2> QED BY <1>1, <2>1, WFMin
<1>4. x - 1 \in Nat \ T /\ x - 1 < x
  BY <1>2
<1> QED BY <1>2, <1>3, <1>4

\* A loop over n passes has one result: step(n, previous).
AfterStep(s, f, n) ==
  IF n = 1 THEN [max |-> s[1], flat |-> 0] ELSE Count(f[n - 1], s[n])

CountsUpTo(s, f, m) == f = [n \in 1..m |-> AfterStep(s, f, n)]

BackStep(s, f, n) ==
  IF n = 0 THEN [streak |-> 0, over |-> FALSE]
  ELSE StreakStep(s[Len(s) - n + 1], f[n - 1])

StreaksUpTo(s, f, m) == f = [n \in 0..m |-> BackStep(s, f, n)]

LEMMA CountsExist ==
  ASSUME NEW s, NEW m \in Nat
  PROVE  \E f : CountsUpTo(s, f, m)
<1> DEFINE U == {n \in Nat : \E f : CountsUpTo(s, f, n)}
<1>1. 0 \in U
  <2> DEFINE f == [n \in 1..0 |-> 0]
  <2>1. f = [n \in 1..0 |-> AfterStep(s, f, n)]
    OBVIOUS
  <2>2. CountsUpTo(s, f, 0)
    BY <2>1 DEF CountsUpTo
  <2> QED BY <2>2
<1>2. ASSUME NEW n \in Nat, n \in U PROVE n + 1 \in U
  <2>1. PICK f : CountsUpTo(s, f, n)
    BY <1>2
  <2> DEFINE g == [k \in 1..(n + 1) |-> IF k = n + 1 THEN AfterStep(s, f, n + 1) ELSE f[k]]
  <2>2. \A k \in 1..n : f[k] = AfterStep(s, f, k)
    BY <2>1 DEF CountsUpTo
  <2>3. \A k \in 1..n : g[k] = f[k]
    OBVIOUS
  <2>4. ASSUME NEW k \in 1..(n + 1) PROVE AfterStep(s, g, k) = AfterStep(s, f, k)
    BY <2>3 DEF AfterStep
  <2>5. ASSUME NEW k \in 1..(n + 1) PROVE g[k] = AfterStep(s, g, k)
    BY <2>2, <2>4
  <2>6. CountsUpTo(s, g, n + 1)
    BY <2>5 DEF CountsUpTo
  <2> QED BY <2>6
<1> HIDE DEF U
<1>3. Nat \subseteq U
  BY <1>1, <1>2, InductionOverNat
<1> QED BY <1>3 DEF U

LEMMA StreaksExist ==
  ASSUME NEW s, NEW m \in Nat
  PROVE  \E f : StreaksUpTo(s, f, m)
<1> DEFINE U == {n \in Nat : \E f : StreaksUpTo(s, f, n)}
<1>1. 0 \in U
  <2> DEFINE f == [n \in 0..0 |-> [streak |-> 0, over |-> FALSE]]
  <2>1. f = [n \in 0..0 |-> BackStep(s, f, n)]
    BY DEF BackStep
  <2>2. StreaksUpTo(s, f, 0)
    BY <2>1 DEF StreaksUpTo
  <2> QED BY <2>2
<1>2. ASSUME NEW n \in Nat, n \in U PROVE n + 1 \in U
  <2>1. PICK f : StreaksUpTo(s, f, n)
    BY <1>2
  <2> DEFINE g == [k \in 0..(n + 1) |-> IF k = n + 1 THEN BackStep(s, f, n + 1) ELSE f[k]]
  <2>2. \A k \in 0..n : f[k] = BackStep(s, f, k)
    BY <2>1 DEF StreaksUpTo
  <2>3. \A k \in 0..n : g[k] = f[k]
    OBVIOUS
  <2>4. ASSUME NEW k \in 0..(n + 1) PROVE BackStep(s, g, k) = BackStep(s, f, k)
    BY <2>3 DEF BackStep
  <2>5. ASSUME NEW k \in 0..(n + 1) PROVE g[k] = BackStep(s, g, k)
    BY <2>2, <2>4
  <2>6. StreaksUpTo(s, g, n + 1)
    BY <2>5 DEF StreaksUpTo
  <2> QED BY <2>6
<1> HIDE DEF U
<1>3. Nat \subseteq U
  BY <1>1, <1>2, InductionOverNat
<1> QED BY <1>3 DEF U

\* The flat stretch so far: from the first place of the maximum so far.
FirstMaximum(s, i, n) == i \in 1..n /\ \A j \in 1..n : s[j] <= s[i] /\ (j < i => s[j] < s[i])

CountFits(s, f, n) ==
  \E i \in 1..n : FirstMaximum(s, i, n) /\ f[n] = [max |-> s[i], flat |-> n - i]

LEMMA CountsMean ==
  ASSUME NEW s \in Seq(Nat), NEW f, CountsUpTo(s, f, Len(s))
  PROVE  \A n \in 1..Len(s) : CountFits(s, f, n)
<1> DEFINE U == {n \in Nat : n \in 1..Len(s) => CountFits(s, f, n)}
<1>1. Len(s) \in Nat /\ \A n \in 1..Len(s) : s[n] \in Nat
  OBVIOUS
<1>2. \A n \in 1..Len(s) : f[n] = AfterStep(s, f, n)
  BY <1>1 DEF CountsUpTo
<1>3. 0 \in U
  OBVIOUS
<1>4. ASSUME NEW n \in Nat, n \in U PROVE n + 1 \in U
  <2> SUFFICES ASSUME n + 1 \in 1..Len(s) PROVE CountFits(s, f, n + 1)
    OBVIOUS
  <2>1. CASE n = 0
    <3>1. f[1] = [max |-> s[1], flat |-> 0]
      BY <1>2, <2>1 DEF AfterStep
    <3>2. FirstMaximum(s, 1, 1)
      BY <1>1, <2>1 DEF FirstMaximum
    <3>3. f[1] = [max |-> s[1], flat |-> 1 - 1]
      BY <3>1
    <3> QED BY <2>1, <3>2, <3>3 DEF CountFits
  <2>2. CASE n > 0
    <3>1. CountFits(s, f, n)
      BY <1>1, <1>4, <2>2
    <3>2. PICK i \in 1..n : FirstMaximum(s, i, n) /\ f[n] = [max |-> s[i], flat |-> n - i]
      BY <3>1 DEF CountFits
    <3>3. f[n + 1] = Count(f[n], s[n + 1])
      BY <1>2, <2>2 DEF AfterStep
    <3>4. f[n].max = s[i] /\ f[n].flat = n - i
      BY <3>2
    <3>5. s[n + 1] \in Nat /\ s[i] \in Nat /\ \A j \in 1..n : s[j] \in Nat
      BY <1>1, <2>2
    <3>6. CASE s[n + 1] > s[i]
      <4>1. f[n + 1] = [max |-> s[n + 1], flat |-> (n + 1) - (n + 1)]
        BY <3>3, <3>4, <3>6 DEF Count
      <4>2. FirstMaximum(s, n + 1, n + 1)
        BY <3>2, <3>5, <3>6 DEF FirstMaximum
      <4>3. n + 1 \in 1..(n + 1)
        OBVIOUS
      <4> QED BY <4>1, <4>2, <4>3 DEF CountFits
    <3>7. CASE ~ (s[n + 1] > s[i])
      <4>1. f[n + 1] = [f[n] EXCEPT !.flat = @ + 1]
        BY <3>3, <3>4, <3>7 DEF Count
      <4>2. f[n + 1] = [max |-> s[i], flat |-> (n - i) + 1]
        BY <3>2, <4>1
      <4>3. (n - i) + 1 = (n + 1) - i
        OBVIOUS
      <4>4. FirstMaximum(s, i, n + 1)
        BY <3>2, <3>5, <3>7 DEF FirstMaximum
      <4>5. i \in 1..(n + 1)
        OBVIOUS
      <4> QED BY <4>2, <4>3, <4>4, <4>5 DEF CountFits
    <3> QED BY <3>6, <3>7
  <2> QED BY <2>1, <2>2
<1> HIDE DEF U
<1>5. Nat \subseteq U
  BY <1>3, <1>4, InductionOverNat
<1> QED BY <1>1, <1>5 DEF U

LEMMA FlatMeans ==
  ASSUME NEW s \in Seq(Nat), s # <<>>
  PROVE  FlatIsDistance(s)
<1>1. Len(s) \in Nat /\ Len(s) > 0 /\ DOMAIN s = 1..Len(s)
  OBVIOUS
<1> DEFINE f == CHOOSE f : f = [n \in 1..Len(s) |->
                  IF n = 1 THEN [max |-> s[1], flat |-> 0] ELSE Count(f[n - 1], s[n])]
<1>2. CountsUpTo(s, f, Len(s))
  <2>1. \E g : CountsUpTo(s, g, Len(s))
    BY <1>1, CountsExist
  <2> QED BY <2>1 DEF CountsUpTo, AfterStep
<1>3. Flat(s) = f[Len(s)].flat
  BY DEF Flat
<1> HIDE DEF f
<1>4. PICK i \in 1..Len(s) :
        FirstMaximum(s, i, Len(s)) /\ f[Len(s)] = [max |-> s[i], flat |-> Len(s) - i]
  <2>1. Len(s) \in 1..Len(s)
    BY <1>1
  <2> QED BY <1>2, <2>1, CountsMean DEF CountFits
<1>5. Flat(s) = Len(s) - i
  BY <1>3, <1>4
<1> QED BY <1>1, <1>4, <1>5 DEF FlatIsDistance, FirstMaximum

\* The rounds of the last n that count, and whether one of them ended the streak.
CountsIn(s, n) ==
  {i \in DOMAIN s : i > Len(s) - n /\ s[i] = "known"
     /\ \A j \in i..Len(s) : s[j] \in {"known", "quiet"}}

StreakFits(s, f, n) ==
  /\ f[n].streak = Cardinality(CountsIn(s, n))
  /\ f[n].over \in BOOLEAN
  /\ f[n].over <=> \E j \in DOMAIN s : j > Len(s) - n /\ s[j] \in {"missing", "new"}
  /\ DOMAIN f[n] = {"streak", "over"}

LEMMA StreaksMean ==
  ASSUME NEW s \in Seq(CrashKinds), NEW f, StreaksUpTo(s, f, Len(s))
  PROVE  \A n \in 0..Len(s) : StreakFits(s, f, n)
<1> DEFINE U == {n \in Nat : n \in 0..Len(s) => StreakFits(s, f, n)}
<1>1. Len(s) \in Nat /\ DOMAIN s = 1..Len(s) /\ \A n \in 1..Len(s) : s[n] \in CrashKinds
  OBVIOUS
<1>2. \A n \in 0..Len(s) : f[n] = BackStep(s, f, n)
  BY <1>1 DEF StreaksUpTo
<1>3. 0 \in U
  <2>1. f[0] = [streak |-> 0, over |-> FALSE]
    BY <1>1, <1>2 DEF BackStep
  <2>2. CountsIn(s, 0) = {} /\ ~ \E j \in DOMAIN s : j > Len(s) - 0 /\ s[j] \in {"missing", "new"}
    BY <1>1 DEF CountsIn
  <2>3. Cardinality(CountsIn(s, 0)) = 0
    BY <2>2, FS_EmptySet
  <2>4. StreakFits(s, f, 0)
    BY <2>1, <2>2, <2>3 DEF StreakFits
  <2> QED BY <2>4
<1>4. ASSUME NEW n \in Nat, n \in U PROVE n + 1 \in U
  <2> SUFFICES ASSUME n + 1 \in 0..Len(s) PROVE StreakFits(s, f, n + 1)
    OBVIOUS
  <2> DEFINE k == Len(s) - n
  <2>1. StreakFits(s, f, n)
    BY <1>1, <1>4
  <2>2. k \in DOMAIN s /\ k = Len(s) - (n + 1) + 1 /\ n = (n + 1) - 1 /\ n + 1 # 0
    BY <1>1
  <2>3. f[n + 1] = StreakStep(s[k], f[n])
    <3>1. f[n + 1] = StreakStep(s[Len(s) - (n + 1) + 1], f[(n + 1) - 1])
      BY <1>2, <2>2 DEF BackStep
    <3> QED BY <2>2, <3>1
  <2>4. \A i \in DOMAIN s : i > Len(s) - (n + 1) <=> i > Len(s) - n \/ i = k
    BY <1>1
  <2>5. \A i \in DOMAIN s : i > Len(s) - n <=> i > k
    BY <1>1
  <2>6. s[k] \in CrashKinds
    BY <1>1, <2>2
  <2> HIDE DEF k
  <2> DEFINE e == f[n]
  <2>7. /\ e.streak = Cardinality(CountsIn(s, n)) /\ DOMAIN e = {"streak", "over"}
        /\ e.over \in BOOLEAN
        /\ e.over <=> \E j \in DOMAIN s : j > k /\ s[j] \in {"missing", "new"}
    BY <2>1, <2>5 DEF StreakFits
  <2>8. /\ f[n + 1].over \in BOOLEAN
        /\ f[n + 1].over <=> e.over \/ s[k] \in {"missing", "new"}
        /\ DOMAIN f[n + 1] = {"streak", "over"}
        /\ ~ e.over /\ s[k] = "known" => f[n + 1].streak = e.streak + 1
        /\ e.over \/ s[k] # "known" => f[n + 1].streak = e.streak
    BY <2>3, <2>6, <2>7 DEF StreakStep, CrashKinds
  <2>9. f[n + 1].over <=> \E j \in DOMAIN s : j > Len(s) - (n + 1) /\ s[j] \in {"missing", "new"}
    BY <2>2, <2>4, <2>5, <2>7, <2>8
  <2>10. ~ e.over <=> \A j \in DOMAIN s : j > k => s[j] \in {"known", "quiet"}
    BY <1>1, <2>7 DEF CrashKinds
  <2>11. \A j \in k..Len(s) : j \in DOMAIN s /\ (j = k \/ j > k)
    <3>1. k \in 1..Len(s)
      BY <1>1, <2>2
    <3>2. \A j \in k..Len(s) : j \in 1..Len(s) /\ (j = k \/ j > k)
      BY <1>1, <3>1
    <3> QED BY <1>1, <3>2
  <2>12. \A j \in DOMAIN s : j > k => j \in k..Len(s)
    BY <1>1, <2>2
  <2>13. CASE ~ e.over /\ s[k] = "known"
    <3>1. \A j \in k..Len(s) : s[j] \in {"known", "quiet"}
      BY <2>10, <2>11, <2>13
    <3>2. CountsIn(s, n + 1) = CountsIn(s, n) \cup {k}
      BY <2>2, <2>4, <2>5, <2>13, <3>1 DEF CountsIn
    <3>3. k \notin CountsIn(s, n)
      BY <2>2, <2>5 DEF CountsIn
    <3>4. IsFiniteSet(CountsIn(s, n))
      <4>1. IsFiniteSet(1..Len(s))
        BY <1>1, FS_Interval
      <4>2. CountsIn(s, n) \subseteq 1..Len(s)
        BY <1>1 DEF CountsIn
      <4> QED BY <4>1, <4>2, FS_Subset
    <3>5. Cardinality(CountsIn(s, n + 1)) = Cardinality(CountsIn(s, n)) + 1
      BY <3>2, <3>3, <3>4, FS_AddElement
    <3> QED BY <2>7, <2>8, <2>9, <2>13, <3>5 DEF StreakFits
  <2>14. CASE e.over \/ s[k] # "known"
    <3>1. k \notin CountsIn(s, n + 1)
      <4>1. CASE s[k] # "known"
        BY <4>1 DEF CountsIn
      <4>2. CASE e.over
        <5>1. PICK j \in DOMAIN s : j > k /\ s[j] \in {"missing", "new"}
          BY <2>7, <4>2
        <5>2. j \in k..Len(s) /\ s[j] \notin {"known", "quiet"}
          BY <2>12, <5>1
        <5> QED BY <5>2 DEF CountsIn
      <4> QED BY <2>14, <4>1, <4>2
    <3>2. CountsIn(s, n + 1) = CountsIn(s, n)
      BY <2>4, <3>1 DEF CountsIn
    <3> QED BY <2>7, <2>8, <2>9, <2>14, <3>2 DEF StreakFits
  <2> QED BY <2>7, <2>13, <2>14
<1> HIDE DEF U
<1>5. Nat \subseteq U
  BY <1>3, <1>4, InductionOverNat
<1> QED BY <1>1, <1>5 DEF U

LEMMA StreakMeans ==
  ASSUME NEW s \in Seq(CrashKinds)
  PROVE  StreakIsKnownRounds(s)
<1>1. Len(s) \in Nat /\ DOMAIN s = 1..Len(s)
  OBVIOUS
<1> DEFINE f == CHOOSE f : f = [n \in 0..Len(s) |->
                  IF n = 0 THEN [streak |-> 0, over |-> FALSE]
                  ELSE StreakStep(s[Len(s) - n + 1], f[n - 1])]
<1>2. StreaksUpTo(s, f, Len(s))
  <2>1. \E g : StreaksUpTo(s, g, Len(s))
    BY <1>1, StreaksExist
  <2> QED BY <2>1 DEF StreaksUpTo, BackStep
<1>3. KnownOnlyStreak(s) = f[Len(s)].streak
  BY DEF KnownOnlyStreak
<1> HIDE DEF f
<1>4. StreakFits(s, f, Len(s))
  BY <1>1, <1>2, StreaksMean
<1>5. CountsIn(s, Len(s)) =
        {i \in DOMAIN s : s[i] = "known" /\ \A j \in i..Len(s) : s[j] \in {"known", "quiet"}}
  BY <1>1 DEF CountsIn
<1> QED BY <1>3, <1>4, <1>5 DEF StreakFits, StreakIsKnownRounds

\* Plateau: for any lines, the two loops over rounds.jsonl count what the
\* assessment says of them (_assess_target, _known_only_streak).
THEOREM CountsMeanWhatTheySay ==
  /\ \A s \in Seq(Nat) \ {<<>>} : FlatIsDistance(s)
  /\ \A s \in Seq(CrashKinds) : StreakIsKnownRounds(s)
BY FlatMeans, StreakMeans

=============================================================================
