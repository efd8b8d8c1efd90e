-------------------------------- MODULE Records --------------------------------
(***************************************************************************)
(* The records of what was found (state.py, engine.py, findings_index.py,  *)
(* finding_lifecycle.py) and their retention (gc.py).                      *)
(*                                                                         *)
(* A run directory holds a ledger of findings and a log of events; a       *)
(* finding is appended to the ledger, then announced in the log, then      *)
(* mirrored in the index of the workspace.  The directory may be archived  *)
(* and deleted by the garbage collector of another process at any time,    *)
(* and an append creates it again.  Nothing is locked.                     *)
(***************************************************************************)
EXTENDS Naturals, FiniteSets, Sequences

CONSTANTS
  Runs,           \* run directories
  Sigs,           \* signatures of crashes; each has one PoV artifact
  Clerks,         \* processes in which the engine handles a call
  Budgets         \* bounds: how often what may happen (see Bounded)

\* Calls that may record a finding, calls that only replay one, calls of
\* finding_dedupe, killed processes and appends to the index that fail, runs and
\* archives taken up by the garbage collector, rebuilds of the database,
\* documents rewritten.
Bounded == {"calls", "replays", "dedupes", "failures", "prunes", "syncs", "rewrites"}

ASSUME RecordsAssumption == Budgets \subseteq [Bounded -> Nat]

VARIABLES
  ledger,      \* findings.jsonl of each run
  log,         \* events.jsonl of each run; empty when the directory is not there
  index,       \* findings-index.jsonl: the <<run, signature>> pairs recorded
  archive,     \* the archive of each run: there or not, and the signatures in its ledger
  clerk,       \* what each process is doing
  dedupe,      \* what the process that serves finding_dedupe is doing
  gc,          \* what the garbage collector is doing
  made,        \* history: <<run, signature>> pairs appended to a ledger
  unmirrored,  \* history: those of which a copy did not reach the index
  uncopied,    \* history: those that an archive left out or that went with it
  left         \* what is left of the budget

files == <<ledger, log, index, archive>>
past == <<made, unmirrored, uncopied>>
recordsVars == <<files, clerk, dedupe, gc, past, left>>

Idle == "idle"

\* at: idle, classified (log the verdict), verified (log the replay), record
\* (append the finding), announce, mirror.  cut: its run was deleted meanwhile;
\* stale: the ledger has changed since the verdict.
NoCall == [at |-> Idle, run |-> "", sig |-> "", verified |-> FALSE, verdict |-> "",
           cut |-> FALSE, stale |-> FALSE]
NoDedupe == [at |-> Idle, run |-> "", lines |-> 0, late |-> FALSE]
NoPrune == [at |-> Idle, run |-> "", copy |-> {}]
NoArchive == [there |-> FALSE, sigs |-> {}]

\* The order of the appends.
After(step) ==
  CASE step = "classified" -> "verified" [] step = "verified" -> "record"
    [] step = "record" -> "announce"     [] step = "announce" -> "mirror"

Event(type, s, ok) == [type |-> type, sig |-> s, ok |-> ok]

Exists(r) == log[r] # <<>> \/ ledger[r] # <<>>
Listed(r) == {ledger[r][i].sig : i \in DOMAIN ledger[r]}

Spend(what) == left[what] > 0 /\ left' = [left EXCEPT ![what] = @ - 1]
Logged(r, e) == log' = [log EXCEPT ![r] = Append(@, e)]
Set(c, rec) == clerk' = [clerk EXCEPT ![c] = rec]

-----------------------------------------------------------------------------
(* The engine records a finding *)

\* A signature that is listed is recorded again if the PoV is materially better
\* or the source is a fixture.
Verdicts(r, s) == IF s \in Listed(r) THEN {"DUP_SKIP", "AGAIN"} ELSE {"NEW", "AGAIN"}

Recordable == {"NEW", "AGAIN"}

\* A candidate whose replay is done (crash_import, harness_run, finding_grade)
\* is judged by the ledger of the run.
Classify(c, r, s, v) ==
  /\ clerk[c].at = Idle /\ Spend("calls")
  /\ \E verdict \in Verdicts(r, s) :
       Set(c, [NoCall EXCEPT !.at = "classified", !.run = r, !.sig = s, !.verified = v,
                             !.verdict = verdict])
  /\ UNCHANGED <<files, dedupe, gc, past>>

LogVerdict(c) ==
  /\ clerk[c].at = "classified"
  /\ Logged(clerk[c].run, Event("verdict", clerk[c].sig, clerk[c].verdict \in Recordable))
  /\ Set(c, [clerk[c] EXCEPT !.at = After("classified")])
  /\ UNCHANGED <<ledger, index, archive, dedupe, gc, past, left>>

LogReplay(c) ==
  /\ clerk[c].at = "verified"
  /\ Logged(clerk[c].run, Event("replay", clerk[c].sig, clerk[c].verified))
  /\ Set(c, IF clerk[c].verdict \in Recordable
              THEN [clerk[c] EXCEPT !.at = After("verified")] ELSE NoCall)
  /\ UNCHANGED <<ledger, index, archive, dedupe, gc, past, left>>

\* harness_run and finding_grade that are not asked to record.
Replay(r, s, v) ==
  /\ Exists(r) /\ Spend("replays")
  /\ Logged(r, Event("replay", s, v))
  /\ UNCHANGED <<ledger, index, archive, clerk, dedupe, gc, past>>

\* A positive replay of the PoV before position n of the log.
Evidence(events, s, n) ==
  \E i \in DOMAIN events :
    i <= n /\ events[i].type = "replay" /\ events[i].sig = s /\ events[i].ok

\* Mutant: a claim is believed when the PoV was replayed, whatever the outcome.
AcceptedIfReplayed(r, s, v) ==
  v => \E i \in DOMAIN log[r] : log[r][i].type = "replay" /\ log[r][i].sig = s

Accepted(r, s, v) == v => Evidence(log[r], s, Len(log[r]))

\* finding_record: a caller may claim a finding verified only with evidence.
Claim(c, r, s, v) ==
  /\ clerk[c].at = Idle /\ Spend("calls")
  /\ IF Accepted(r, s, v)
       THEN /\ Set(c, [NoCall EXCEPT !.at = "record", !.run = r, !.sig = s, !.verified = v,
                                     !.verdict = "CLAIM"])
            /\ UNCHANGED log
       ELSE Logged(r, Event("rejected", s, FALSE)) /\ UNCHANGED clerk
  /\ UNCHANGED <<ledger, index, archive, dedupe, gc, past>>

-----------------------------------------------------------------------------
(* The three appends of a finding *)

\* position: the events of the log that are older than the finding.
Finding(c) ==
  [sig |-> clerk[c].sig, verified |-> clerk[c].verified, verdict |-> clerk[c].verdict,
   position |-> Len(log[clerk[c].run]), cut |-> clerk[c].cut, stale |-> clerk[c].stale]

RecordLine(c) ==
  LET r == clerk[c].run
      m == <<r, clerk[c].sig>>
  IN /\ clerk[c].at = "record"
     /\ ledger' = [ledger EXCEPT ![r] = Append(@, Finding(c))]
     /\ clerk' = [d \in Clerks |->
          IF d = c THEN [clerk[c] EXCEPT !.at = After("record")]
          ELSE IF clerk[d].at # Idle /\ clerk[d].run = r THEN [clerk[d] EXCEPT !.stale = TRUE]
          ELSE clerk[d]]
     /\ dedupe' = IF dedupe.at # Idle /\ dedupe.run = r
                    THEN [dedupe EXCEPT !.late = TRUE] ELSE dedupe
     /\ made' = made \cup {m}
     /\ uncopied' = IF gc.at # Idle /\ gc.run = r THEN uncopied \cup {m} ELSE uncopied
     /\ UNCHANGED <<log, index, archive, gc, unmirrored, left>>

Announce(c) ==
  /\ clerk[c].at = "announce"
  /\ Logged(clerk[c].run, Event("recorded", clerk[c].sig, TRUE))
  /\ Set(c, [clerk[c] EXCEPT !.at = After("announce")])
  /\ UNCHANGED <<ledger, index, archive, dedupe, gc, past, left>>

Mirror(c) ==
  /\ clerk[c].at = "mirror"
  /\ index' = index \cup {<<clerk[c].run, clerk[c].sig>>}
  /\ Set(c, NoCall)
  /\ UNCHANGED <<ledger, log, archive, dedupe, gc, past, left>>

\* The process is killed, or, in its last step, the append to the index fails.
Abandon(c) ==
  /\ clerk[c].at # Idle /\ Spend("failures")
  /\ unmirrored' = IF clerk[c].at \in {"announce", "mirror"}
                     THEN unmirrored \cup {<<clerk[c].run, clerk[c].sig>>} ELSE unmirrored
  /\ Set(c, NoCall)
  /\ UNCHANGED <<files, dedupe, gc, made, uncopied>>

-----------------------------------------------------------------------------
(* Grouping and audit *)

DedupeRead(r) ==
  /\ dedupe.at = Idle /\ Spend("dedupes")
  /\ dedupe' = [NoDedupe EXCEPT !.at = "read", !.run = r, !.lines = Len(ledger[r])]
  /\ UNCHANGED <<files, clerk, gc, past>>

\* lines and late are not in the event: how many findings were grouped, and
\* whether one was recorded since they were read.
DedupeLog ==
  /\ dedupe.at = "read"
  /\ Logged(dedupe.run, [type |-> "dedupe", lines |-> dedupe.lines, late |-> dedupe.late])
  /\ dedupe' = NoDedupe
  /\ UNCHANGED <<ledger, index, archive, clerk, gc, past, left>>

Latest(events, type) ==
  LET places == {i \in DOMAIN events : events[i].type = type}
  IN IF places = {} THEN 0 ELSE CHOOSE i \in places : \A j \in places : j <= i

\* The finding has evidence and a verdict that are older than it.
Sound(events, f) ==
  /\ f.verified
  /\ Evidence(events, f.sig, f.position)
  /\ \E i \in DOMAIN events :
       /\ i <= f.position
       /\ events[i].type = "verdict" /\ events[i].sig = f.sig /\ events[i].ok

\* Mutant: the audit only asks whether finding_dedupe was ever run.
GroupedEver(events) == Latest(events, "dedupe") > 0

Grouped(events) == Latest(events, "dedupe") > Latest(events, "recorded")

\* audit_finding_lifecycle finds no blocker in a run that has findings.
AuditOk(r) ==
  /\ \A i \in DOMAIN ledger[r] : Sound(log[r], ledger[r][i])
  /\ Grouped(log[r])

-----------------------------------------------------------------------------
(* Retention *)

\* A run directory is never refused because somebody uses it: its age is that
\* of its last new entry.  An archive of the same name refuses it.
GcCopy(r) ==
  /\ gc.at = Idle /\ Exists(r) /\ ~archive[r].there /\ Spend("prunes")
  /\ \E fits \in BOOLEAN :
       /\ gc' = [at |-> "copied", run |-> r, copy |-> IF fits THEN Listed(r) ELSE {}]
       /\ uncopied' = IF fits THEN uncopied ELSE uncopied \cup ({r} \X Listed(r))
  /\ UNCHANGED <<files, clerk, dedupe, made, unmirrored>>

GcInstall ==
  /\ gc.at = "copied"
  /\ archive' = [archive EXCEPT ![gc.run] = [there |-> TRUE, sigs |-> gc.copy]]
  /\ gc' = [gc EXCEPT !.at = "installed"]
  /\ UNCHANGED <<ledger, log, index, clerk, dedupe, past, left>>

\* Mutant: the run is deleted before its archive is installed.
MayDeleteEarly == gc.at \in {"copied", "installed"}

MayDelete == gc.at = "installed"

GcDelete ==
  /\ MayDelete
  /\ ledger' = [ledger EXCEPT ![gc.run] = <<>>]
  /\ log' = [log EXCEPT ![gc.run] = <<>>]
  /\ gc' = NoPrune
  /\ clerk' = [c \in Clerks |->
       IF clerk[c].at # Idle /\ clerk[c].run = gc.run
         THEN [clerk[c] EXCEPT !.cut = TRUE] ELSE clerk[c]]
  /\ UNCHANGED <<index, archive, dedupe, past, left>>

GcKilled ==
  /\ gc.at # Idle /\ Spend("failures")
  /\ gc' = NoPrune
  /\ UNCHANGED <<files, clerk, dedupe, past>>

\* Only the newest archives are kept.
DropArchive(r) ==
  /\ archive[r].there /\ Spend("prunes")
  /\ archive' = [archive EXCEPT ![r] = NoArchive]
  /\ uncopied' = uncopied \cup ({r} \X archive[r].sigs)
  /\ UNCHANGED <<ledger, log, index, clerk, dedupe, gc, made, unmirrored>>

-----------------------------------------------------------------------------
\* Runs have been started: campaign_start logs its first event.
RecordsInit ==
  /\ ledger = [r \in Runs |-> <<>>]
  /\ log = [r \in Runs |-> <<[type |-> "campaign_started"]>>]
  /\ index = {}
  /\ archive = [r \in Runs |-> NoArchive]
  /\ clerk = [c \in Clerks |-> NoCall]
  /\ dedupe = NoDedupe /\ gc = NoPrune
  /\ made = {} /\ unmirrored = {} /\ uncopied = {}
  /\ left \in Budgets

ClerkNext(c) ==
  \/ \E r \in Runs, s \in Sigs, v \in BOOLEAN : Classify(c, r, s, v) \/ Claim(c, r, s, v)
  \/ LogVerdict(c) \/ LogReplay(c)
  \/ RecordLine(c) \/ Announce(c) \/ Mirror(c)
  \/ Abandon(c)

GcNext == (\E r \in Runs : GcCopy(r) \/ DropArchive(r)) \/ GcInstall \/ GcDelete \/ GcKilled

RecordsNext ==
  \/ \E c \in Clerks : ClerkNext(c)
  \/ \E r \in Runs, s \in Sigs, v \in BOOLEAN : Replay(r, s, v)
  \/ \E r \in Runs : DedupeRead(r)
  \/ DedupeLog
  \/ GcNext

-----------------------------------------------------------------------------
(* Properties *)

\* collect_target_findings and the index: what is still known of all runs.
Known == index \cup UNION {{r} \X (Listed(r) \cup archive[r].sigs) : r \in Runs}

\* What was recorded stays known across pruning: a finding is in a live ledger,
\* in an archive, in the index or about to be mirrored; it takes two mishaps to
\* lose one, a mirror that failed and an archive that does not hold it.
NothingLost ==
  \A m \in made :
    \/ m \in Known
    \/ \E c \in Clerks : clerk[c].at \in {"announce", "mirror"} /\ m = <<clerk[c].run, clerk[c].sig>>
    \/ m \in unmirrored /\ m \in uncopied

\* A finding that is listed as verified follows a positive replay in the log of
\* its run (_verified_record_rejection, _classify_verify_and_record), unless
\* the run was deleted while the finding was being recorded.
VerifiedHasEvidence ==
  \A r \in Runs : \A i \in DOMAIN ledger[r] :
    ledger[r][i].verified /\ ~ledger[r][i].cut
      => Evidence(log[r], ledger[r][i].sig, ledger[r][i].position)

\* A run that passes the audit had all its findings grouped: the last
\* finding_dedupe read every line, except one that was appended after its read
\* or that is not announced.
AuditedIsGrouped ==
  \A r \in Runs :
    /\ ledger[r] # <<>> /\ AuditOk(r)
    /\ \A i \in DOMAIN ledger[r] :
         \E j \in ledger[r][i].position + 1..Len(log[r]) :
           log[r][j].type = "recorded" /\ log[r][j].sig = ledger[r][i].sig
    => LET d == log[r][Latest(log[r], "dedupe")] IN d.lines = Len(ledger[r]) \/ d.late

=============================================================================
