----------------------------- MODULE CampaignRound -----------------------------
(***************************************************************************)
(* The round loop of campaigns on one target (campaign_rounds.py): crash   *)
(* intake with its fast path for known crashes (known_crashes.py), the     *)
(* import of the others (engine.py), the plateau assessment and the        *)
(* transitions of the candidate (campaign_metrics.py).                     *)
(*                                                                         *)
(* Each campaign has a run, and findings, of its own; known-crashes.json,  *)
(* rounds.jsonl and the candidate ledger are shared.  The known crashes    *)
(* are read and rewritten, and the ledger is checked and appended to,      *)
(* without a lock.                                                         *)
(***************************************************************************)
EXTENDS Plateau, FiniteSets

CONSTANTS
  Campaigns,      \* processes that run rounds on the target
  Sigs,           \* root signatures of crashes
  Features,       \* feature counts of rounds
  Sizes,          \* sizes of the corpus
  Earlier,        \* metrics lines that earlier campaigns may have left
  MaxRounds,      \* bound: rounds
  MaxInterrupts,  \* bound: campaigns that are killed or raise
  Orders,         \* statuses an operator gives the candidate
  MaxOrders       \* bound: updates of the candidate by an operator

ASSUME RoundAssumption ==
  /\ Features \subseteq Nat \ {0} /\ Sizes \subseteq Nat \ {0}
  /\ Orders \subseteq {"dead", "escalated"}
  /\ {MaxRounds, MaxInterrupts, MaxOrders} \subseteq Nat

VARIABLES
  known,        \* known-crashes.json: the signatures in it
  found,        \* the signatures of the findings in each campaign's run
  lines,        \* rounds.jsonl
  status,       \* candidates.jsonl: the last status of the target's candidate
  at,           \* where each campaign is
  mem,          \* what it remembers of its round
  synced,       \* the status a candidates-sync has read, or "?"
  quarantined,  \* history: signatures of crashes put aside as known
  verdict,      \* history: "confirmed" by the loop, "overruled" by an operator since
  begun,        \* history: rounds begun
  interrupts,   \* history: campaigns killed or ended by an exception
  orders,       \* history: updates of the operator
  overlapped,   \* history: two updates of known-crashes.json overlapped
  raced         \* history: a status was appended after a check that was outdated

shared == <<known, lines, status>>
history == <<quarantined, verdict, begun, interrupts, orders, overlapped, raced>>
roundVars == <<shared, found, at, mem, synced, history>>

Advanced == {"fuzzing", "plateaued", "confirmed", "dead", "escalated"}
Statuses == Advanced \cup {"none", "validated"}

\* Of a round: the known crashes at its start (until its intake), signatures still to record as
\* known, the copy of the file it is about to write, whether a new root cause
\* was recorded, the plateau verdict, the status it checked, and its line.
NewRound ==
  [known |-> {}, todo |-> {}, copy |-> <<>>, fresh |-> FALSE, plateaued |-> FALSE,
   read |-> "?",
   line |-> [stat |-> NoValue, size |-> NoValue]]

InRound == {"fuzz", "record", "confirm", "plateau", "end"}

Goto(p, from, to) == at[p] = from /\ at' = [at EXCEPT ![p] = to]
Remember(p, m) == mem' = [mem EXCEPT ![p] = m]

-----------------------------------------------------------------------------
(* The candidate ledger: check, then append *)

\* A transition that is not wanted, or that the status forbids, is skipped.
Check(p, place, next, wanted, kept) ==
  /\ at[p] = place /\ mem[p].read = "?"
  /\ IF wanted /\ status \notin kept
       THEN Remember(p, [mem[p] EXCEPT !.read = status]) /\ UNCHANGED at
       ELSE Goto(p, place, next) /\ UNCHANGED mem
  /\ UNCHANGED <<shared, found, synced, history>>

AppendStatus(p, place, next, new) ==
  /\ mem[p].read # "?"
  /\ Goto(p, place, next)
  /\ status' = new
  /\ raced' = (raced \/ status # mem[p].read)
  /\ verdict' = IF new = "confirmed" THEN "confirmed" ELSE verdict
  /\ Remember(p, [mem[p] EXCEPT !.read = "?"])
  /\ UNCHANGED <<known, lines, found, synced, quarantined, begun, interrupts, orders,
                 overlapped>>

-----------------------------------------------------------------------------
(* A round *)

Start(p) ==
  /\ begun < MaxRounds
  /\ Goto(p, "idle", "start")
  /\ UNCHANGED <<shared, found, mem, synced, history>>

Begin(p) ==
  /\ begun < MaxRounds /\ begun' = begun + 1
  /\ Goto(p, "begin", "fuzz")
  /\ Remember(p, [NewRound EXCEPT !.known = known])
  /\ UNCHANGED <<shared, found, synced, quarantined, verdict, interrupts, orders,
                 overlapped, raced>>

\* Mutant: every crash is recorded as known, not only those with a finding.
ToRecordAll(suppressed, returned, seen) == suppressed \cup seen

ToRecord(suppressed, returned, seen) == suppressed \cup returned

\* The fuzzers leave crashes (seen).  Those whose one probe shows a signature
\* known at the start of the round are quarantined; the rest, failed probes and
\* crashes without a parseable identity (odd) among them, are replayed and
\* graded.  A verified one is recorded in the run, unless it repeats a finding
\* of the run without being better.  With crashes known at its start the round
\* fuzzes in fork mode, whose output has no feature count that is parsed.
Intake(p) ==
  /\ Goto(p, "fuzz", "record")
  /\ \E seen \in SUBSET Sigs, odd \in BOOLEAN, feature \in Features, size \in Sizes :
     \E suppressed \in SUBSET (seen \cap mem[p].known), verified \in SUBSET seen :
     \E better \in SUBSET (verified \cap found[p]) :
       LET returned == (verified \ found[p]) \cup better
       IN /\ verified \cap suppressed = {}
          /\ found' = [found EXCEPT ![p] = @ \cup verified]
          /\ quarantined' = quarantined \cup suppressed
          /\ Remember(p, [mem[p] EXCEPT
               !.todo = ToRecord(suppressed, returned, seen),
               !.fresh = odd \/ ~(returned \subseteq mem[p].known),
               !.line = [stat |-> IF mem[p].known = {} THEN feature ELSE NoValue,
                         size |-> size],
               !.known = {}])
  /\ UNCHANGED <<shared, synced, verdict, begun, interrupts, orders, overlapped, raced>>

\* record_known: the file is read, changed and replaced.
RecordRead(p) ==
  /\ at[p] = "record" /\ mem[p].todo # {} /\ mem[p].copy = <<>>
  /\ Remember(p, [mem[p] EXCEPT !.copy = <<known>>])
  /\ overlapped' = (overlapped \/ \E q \in Campaigns \ {p} : mem[q].copy # <<>>)
  /\ UNCHANGED <<shared, found, at, synced, quarantined, verdict, begun, interrupts,
                 orders, raced>>

\* Mutant: the file holds the new signature only.
WrittenAnew(copy, s) == {s}

Written(copy, s) == copy \cup {s}

RecordWrite(p) ==
  /\ at[p] = "record" /\ mem[p].copy # <<>>
  /\ \E s \in mem[p].todo :
       /\ known' = Written(mem[p].copy[1], s)
       /\ Remember(p, [mem[p] EXCEPT !.copy = <<>>, !.todo = @ \ {s}])
  /\ UNCHANGED <<lines, status, found, at, synced, history>>

\* plateau_status, on the lines of the rounds before this one.
Assess(p) ==
  /\ Goto(p, "record", "confirm") /\ mem[p].todo = {}
  /\ Remember(p, [mem[p] EXCEPT !.plateaued = Verdict(lines) = "plateaued"])
  /\ UNCHANGED <<shared, found, synced, history>>

KeptAtStart == {"fuzzing", "plateaued", "confirmed", "dead", "escalated"}

\* Mutant: a candidate that has plateaued is not confirmed.
KeptByFindingPlateau == {"confirmed", "plateaued"}

KeptByFinding == {"confirmed"}

\* Mutant: a confirmed candidate is not spared.
KeptByPlateauShort == {"plateaued", "dead", "escalated"}

KeptByPlateau == {"plateaued", "confirmed", "dead", "escalated"}

Transitions(p) ==
  \/ Check(p, "start", "begin", TRUE, KeptAtStart)
  \/ AppendStatus(p, "start", "begin", "fuzzing")
  \/ Check(p, "confirm", "plateau", mem[p].fresh, KeptByFinding)
  \/ AppendStatus(p, "confirm", "plateau", "confirmed")
  \/ Check(p, "plateau", "end", mem[p].plateaued, KeptByPlateau)
  \/ AppendStatus(p, "plateau", "end", "plateaued")

\* The line of the round; another round follows or the campaign is over.
EndRound(p) ==
  /\ \E next \in {"begin", "idle"} : Goto(p, "end", next)
  /\ lines' = Append(lines, mem[p].line)
  /\ Remember(p, NewRound)
  /\ UNCHANGED <<known, status, found, synced, history>>

\* Too little free disk: the round ends at once, and the campaign with it.
Abort(p) ==
  /\ Goto(p, "fuzz", "idle")
  /\ lines' = Append(lines, mem[p].line)
  /\ Remember(p, NewRound)
  /\ UNCHANGED <<known, status, found, synced, history>>

LeavesLine(p) == at[p] \in InRound

\* An exception leaves the line of the round as far as it got, a kill leaves none.
Interrupt(p) ==
  /\ at[p] # "idle"
  /\ at' = [at EXCEPT ![p] = "idle"]
  /\ interrupts < MaxInterrupts /\ interrupts' = interrupts + 1
  /\ \/ UNCHANGED lines
     \/ LeavesLine(p) /\ lines' = Append(lines, mem[p].line)
  /\ Remember(p, NewRound)
  /\ UNCHANGED <<known, status, found, synced, quarantined, verdict, begun, orders,
                 overlapped, raced>>

-----------------------------------------------------------------------------
(* candidates-update and candidates-sync *)

Order(new) ==
  /\ orders < MaxOrders /\ orders' = orders + 1
  /\ status' = new
  /\ verdict' = IF verdict = "confirmed" THEN "overruled" ELSE verdict
  /\ UNCHANGED <<known, lines, found, at, mem, synced, quarantined, begun, interrupts,
                 overlapped, raced>>

KeptBySync == Advanced \cup {"validated"}

SyncRead ==
  /\ synced = "?" /\ status \notin KeptBySync
  /\ synced' = status
  /\ UNCHANGED <<shared, found, at, mem, history>>

SyncAppend ==
  /\ synced # "?" /\ synced' = "?"
  /\ status' = "validated" /\ raced' = (raced \/ status # synced)
  /\ UNCHANGED <<known, lines, found, at, mem, quarantined, verdict, begun, interrupts,
                 orders, overlapped>>

RoundInit ==
  /\ known = {} /\ found = [p \in Campaigns |-> {}]
  /\ lines \in Earlier /\ status = IF lines = <<>> THEN "none" ELSE "fuzzing"
  /\ at = [p \in Campaigns |-> "idle"] /\ mem = [p \in Campaigns |-> NewRound]
  /\ synced = "?" /\ quarantined = {} /\ verdict = "none"
  /\ begun = 0 /\ interrupts = 0 /\ orders = 0 /\ overlapped = FALSE /\ raced = FALSE

CampaignNext(p) ==
  \/ Start(p) \/ Begin(p) \/ Intake(p) \/ RecordRead(p) \/ RecordWrite(p)
  \/ Assess(p) \/ Transitions(p) \/ EndRound(p) \/ Abort(p) \/ Interrupt(p)

RoundNext ==
  \/ \E p \in Campaigns : CampaignNext(p)
  \/ \E new \in Orders : Order(new)
  \/ SyncRead \/ SyncAppend

RoundSpec == RoundInit /\ [][RoundNext]_roundVars

-----------------------------------------------------------------------------
(* Properties *)

AllIdle == \A p \in Campaigns : at[p] = "idle"
Found == UNION {found[p] : p \in Campaigns}

\* "Suppression must never eat a novel crash" (known_crashes.py): whatever
\* campaigns record at the same time, a crash is put aside as known only if a
\* finding with its signature was recorded.
SuppressedWasFound == quarantined \subseteq Found

\* When no campaign is in a round, the root signature of every finding is known,
\* unless a campaign was interrupted or two updates of the file overlapped.
FoundIsKnown ==
  AllIdle /\ interrupts = 0 /\ ~overlapped => Found \subseteq known

\* When no campaign is in a round, a target with a finding has been confirmed,
\* unless a campaign was interrupted: a crash that another campaign made known
\* first is confirmed by that one.
FoundIsConfirmed ==
  AllIdle /\ interrupts = 0 /\ Found # {} => verdict # "none"

\* Only an operator takes a candidate out of confirmed: neither the plateau of
\* another campaign, nor its start, nor a sync does, unless it appended after an
\* outdated check.
ConfirmedStays == verdict = "confirmed" /\ ~raced => status = "confirmed"

\* Not so: a target whose corpus grew in every one of its last rounds is not
\* called plateaued, in fork mode too ("which plateau detection tolerates by
\* falling back to corpus_size", campaign_rounds.py).
GrowthIsNotPlateau ==
  LET tail == Len(lines) - FlatRounds..Len(lines) IN
  /\ Len(lines) > FlatRounds
  /\ \A i \in tail : lines[i].stat = NoValue /\ lines[i].size # NoValue
  /\ \A i \in tail \ {Len(lines)} : lines[i].size < lines[i + 1].size
  => Verdict(lines) # "plateaued"

=============================================================================
