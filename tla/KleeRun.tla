-------------------------------- MODULE KleeRun --------------------------------
(***************************************************************************)
(* Symbolic runs in a container (_run_klee_ng in runtime_backends.py).     *)
(*                                                                         *)
(* The client of the container is a bounded command, but the container is  *)
(* the daemon's: it goes on when the client is ended, until it is removed. *)
(* All runs of a workspace write their tests to one directory, from which  *)
(* each then takes the tests that are new enough, a file at a time, up to  *)
(* a number of files and of bytes.  What it could not take is no blocker:  *)
(* the report counts it.                                                   *)
(***************************************************************************)
EXTENDS Naturals, FiniteSets

CONSTANTS
  KleeRuns,    \* calls
  MaxTests,    \* files looked at: MAX_KLEE_EXTRACTED_TESTS
  Slack,       \* how much older than the call a test may be
  MadeBound,   \* bound: tests made
  TimeBound    \* bound of the clock

ASSUME KleeAssumption == {MaxTests, Slack, MadeBound, TimeBound} \subseteq Nat

VARIABLES
  made,       \* the tests on disk: number, container, time of the last write
  now,
  box,        \* the container of each run
  klee,       \* where each call is: its start, what it has yet to read, its result
  harvest     \* the tests each call has written as seeds

kleeVars == <<made, now, box, klee, harvest>>

\* Of its report: blocked is a blocker of the extraction, rejected whether tests or
\* inputs were, spent whether the bytes to read are.
NoKlee == [stage |-> "idle", started |-> 0, todo |-> {}, ok |-> TRUE, crowded |-> FALSE,
           blocked |-> FALSE, rejected |-> FALSE, spent |-> FALSE]

Goes(s, stage) == klee' = [klee EXCEPT ![s].stage = stage]

\* The config, image, workspace and disk are checked; a call that fails there
\* has done nothing.  The name of the container is its own.
StartKlee(s) ==
  /\ klee[s].stage = "idle"
  /\ klee' = [klee EXCEPT ![s] = [NoKlee EXCEPT !.stage = "client", !.started = now]]
  /\ box' = [box EXCEPT ![s] = "running"]
  /\ UNCHANGED <<made, now, harvest>>

\* A container makes a test file, and finishes it.
OpenTest(s) ==
  /\ box[s] = "running" /\ Cardinality(made) < MadeBound
  /\ \A t \in made : t.by = s => t.whole
  /\ made' = made \cup {[n |-> Cardinality(made), by |-> s, at |-> now, whole |-> FALSE]}
  /\ UNCHANGED <<now, box, klee, harvest>>

FinishTest(t) ==
  /\ t \in made /\ ~t.whole /\ box[t.by] = "running"
  /\ made' = (made \ {t}) \cup {[t EXCEPT !.whole = TRUE, !.at = now]}
  /\ UNCHANGED <<now, box, klee, harvest>>

BoxExits(s) ==
  /\ box[s] = "running" /\ box' = [box EXCEPT ![s] = "exited"]
  /\ \A t \in made : t.by = s => t.whole
  /\ UNCHANGED <<made, now, klee, harvest>>

\* The client passes on the exit code; or it is ended, or cannot reach the
\* daemon, which is not known of the container.
ClientReturns(s) ==
  /\ klee[s].stage = "client" /\ box[s] = "exited"
  /\ \E code \in BOOLEAN : klee' = [klee EXCEPT ![s].stage = "cleanup", ![s].ok = code]
  /\ UNCHANGED <<made, now, box, harvest>>

ClientEnded(s) ==
  /\ klee[s].stage = "client"
  /\ klee' = [klee EXCEPT ![s].stage = "cleanup", ![s].ok = FALSE]
  /\ UNCHANGED <<made, now, box, harvest>>

RemoveBox(s) ==
  /\ klee[s].stage = "cleanup" /\ Goes(s, "list")
  /\ box' = [box EXCEPT ![s] = "none"]
  /\ UNCHANGED <<made, now, harvest>>

RemoveFails(s) ==
  /\ klee[s].stage = "cleanup"
  /\ klee' = [klee EXCEPT ![s].stage = "list", ![s].ok = FALSE]
  /\ UNCHANGED <<made, now, box, harvest>>

\* Whatever tests the directory gives first, of old runs too.
ListTests(s) ==
  /\ klee[s].stage = "list"
  /\ \E some \in SUBSET made :
       /\ Cardinality(some) = IF Cardinality(made) < MaxTests THEN Cardinality(made) ELSE MaxTests
       /\ klee' = [klee EXCEPT ![s].stage = "read", ![s].todo = {t.n : t \in some},
                               ![s].crowded = Cardinality(made) > MaxTests]
  /\ UNCHANGED <<made, now, box, harvest>>

\* A directory is missing, or is not what it was: a blocker of the extraction and
\* none of the run.
ListFails(s) ==
  /\ klee[s].stage = "list"
  /\ klee' = [klee EXCEPT ![s].stage = "reported", ![s].blocked = TRUE]
  /\ UNCHANGED <<made, now, box, harvest>>

\* Mutant: new is what is as new as the reading.
CutoffLate(s) == now

Cutoff(s) == klee[s].started - Slack

\* A test that is being written, or changes while it is read, is rejected.
Readable(t) == t.whole

\* Of any other too: it or an input of it is too large or malformed, the seeds
\* taken are large enough together, or a seed cannot be written.  What is read
\* counts, whatever comes of it, so that any test can be the last there are bytes
\* for; an old test is let go without a count.
ReadTest(s, t) ==
  /\ klee[s].stage = "read" /\ t \in made /\ t.n \in klee[s].todo /\ ~klee[s].spent
  /\ \E outcome \in {"taken", "old", "rejected"}, spent \in BOOLEAN :
       /\ outcome = "taken" => Readable(t) /\ t.at >= Cutoff(s)
       /\ outcome = "old" => t.at < Cutoff(s)
       /\ klee' = [klee EXCEPT ![s].todo = @ \ {t.n}, ![s].spent = spent,
                               ![s].rejected = @ \/ outcome = "rejected"]
       /\ harvest' = IF outcome = "taken" THEN [harvest EXCEPT ![s] = @ \cup {t.n}] ELSE harvest
  /\ UNCHANGED <<made, now, box>>

Report(s) ==
  /\ klee[s].stage = "read" /\ Goes(s, "reported")
  /\ klee[s].todo = {} \/ klee[s].spent
  /\ UNCHANGED <<made, now, box, harvest>>

\* The caller dies: its container is nobody's.
CallerDies(s) ==
  /\ klee[s].stage \in {"client", "cleanup", "list", "read"}
  /\ klee' = [klee EXCEPT ![s] = [NoKlee EXCEPT !.stage = "dead"]]
  /\ UNCHANGED <<made, now, box, harvest>>

Tick == now < TimeBound /\ now' = now + 1 /\ UNCHANGED <<made, box, klee, harvest>>

KleeInit ==
  /\ made = {} /\ now = Slack /\ box = [s \in KleeRuns |-> "none"]
  /\ klee = [s \in KleeRuns |-> NoKlee] /\ harvest = [s \in KleeRuns |-> {}]

KleeNext ==
  \/ \E s \in KleeRuns :
       \/ StartKlee(s) \/ OpenTest(s) \/ BoxExits(s) \/ ClientReturns(s) \/ ClientEnded(s)
       \/ RemoveBox(s) \/ RemoveFails(s) \/ ListTests(s) \/ ListFails(s)
       \/ \E t \in made : ReadTest(s, t)
       \/ Report(s) \/ CallerDies(s)
  \/ \E t \in made : FinishTest(t)
  \/ Tick

KleeSpec == KleeInit /\ [][KleeNext]_kleeVars

-----------------------------------------------------------------------------
(* Properties *)

\* The report of the extraction has nothing to own up to.
ExtractedAll(s) ==
  ~klee[s].blocked /\ ~klee[s].rejected /\ ~klee[s].spent

\* A run that is reported without blockers has left no container behind.  It has
\* taken every test its own container made, whatever other runs write there
\* meanwhile and however long the run took, unless its report says otherwise, by
\* a blocker of the extraction, a count of rejected tests or inputs, or bytes read
\* that are at their limit, or the directory held more tests, old ones included, than
\* are looked at: no test is let go in silence for being too old.
ReportedIsHarvested ==
  \A s \in KleeRuns :
    klee[s].stage = "reported" /\ klee[s].ok =>
      /\ box[s] = "none"
      /\ ExtractedAll(s) /\ ~klee[s].crowded =>
           {t.n : t \in {u \in made : u.by = s}} \subseteq harvest[s]

=============================================================================
