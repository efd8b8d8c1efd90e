----------------------------- MODULE DifferentialRun -----------------------------
(***************************************************************************)
(* Comparison of implementations on a corpus (differential.py): every      *)
(* input is replayed by each of them, an input they disagree on is kept as *)
(* an exemplar and listed with the verdicts.  A single command may be      *)
(* given too: it lists the inputs it crashes on.                           *)
(*                                                                         *)
(* The inputs are read by path, by each replay and once more for the       *)
(* exemplar, while the corpus belongs to others; and a replay may run out  *)
(* of time or fail for reasons of its own.                                 *)
(***************************************************************************)
EXTENDS Naturals, FiniteSets, FiniteSetsExt

CONSTANTS
  Implementations,
  Paths,             \* inputs of the corpus
  Contents, Gone,    \* contents of inputs; of a path where nothing is any more
  Behaves,           \* class and output of each implementation on each content
  ByOutput,          \* compare is "output", not "behavior"
  Size,              \* of each content
  MaxHits,           \* MAX_EXEMPLAR_FILES
  MaxHitBytes,       \* MAX_EXEMPLAR_TOTAL_BYTES
  TopCap,            \* top: divergences a report shows
  CorpusEdits        \* bound: changes of the corpus

ASSUME DifferentialAssumption ==
  /\ Gone \notin Contents /\ IsFiniteSet(Implementations) /\ IsFiniteSet(Paths)
  /\ ByOutput \in BOOLEAN /\ {MaxHits, MaxHitBytes, CorpusEdits} \subseteq Nat
  /\ Size \in [Contents -> Nat] /\ TopCap \in Nat \ {0}

VARIABLES
  corpus,      \* the content at each path
  binaries,    \* implementations that are built
  exemplars,   \* contents in differential-hits
  compare,     \* the call: its stage, inputs to do, and what it has found
  edited       \* changes of the corpus so far, and history: inputs they touched
               \* while the call was looking at them

differentialVars == <<corpus, binaries, exemplars, compare, edited>>

NoCompare ==
  [stage |-> "idle", impls |-> {}, todo |-> {}, input |-> {}, got |-> <<>>, scanned |-> 0,
   agreed |-> 0, split |-> 0, failed |-> 0, skipped |-> 0, listed |-> {}, reported |-> {}]

\* No verdict: a time-out, or a failure of the replay itself.
NoVerdict == [class |-> "none", out |-> "none"]
Classes(got) == {got[i].class : i \in DOMAIN got}

-----------------------------------------------------------------------------

\* Nothing runs without an input.
Run(impls) ==
  LET inputs == {x \in Paths : corpus[x] # Gone} IN
  IF inputs = {} THEN NoCompare
  ELSE [NoCompare EXCEPT !.stage = "run", !.impls = impls, !.todo = inputs]

\* auto: what has no binary is built, if it can be; two are needed to compare.
Resolve ==
  /\ compare.stage = "idle"
  /\ \E built \in SUBSET (Implementations \ binaries) :
       /\ binaries' = binaries \cup built
       /\ compare' = IF Cardinality(binaries') < 2 THEN NoCompare ELSE Run(binaries')
  /\ UNCHANGED <<corpus, exemplars, edited>>

\* The caller gives the commands: one is enough.
Explicit(impls) ==
  /\ compare.stage = "idle" /\ impls # {} /\ compare' = Run(impls)
  /\ UNCHANGED <<corpus, binaries, exemplars, edited>>

TakeInput(x) ==
  /\ compare.stage = "run" /\ x \in compare.todo
  /\ compare' = [compare EXCEPT !.stage = "replay", !.todo = @ \ {x}, !.input = {x},
                   !.got = <<>>, !.scanned = @ + 1]
  /\ UNCHANGED <<corpus, binaries, exemplars, edited>>

Input == CHOOSE x \in compare.input : TRUE

ReplayOn(i) ==
  /\ compare.stage = "replay" /\ i \in compare.impls \ DOMAIN compare.got
  /\ \E verdict \in {Behaves[i][corpus[Input]], NoVerdict} :
       compare' = [compare EXCEPT !.got =
         [j \in {i} \cup DOMAIN compare.got |-> IF j = i THEN verdict ELSE compare.got[j]]]
  /\ UNCHANGED <<corpus, binaries, exemplars, edited>>

\* Mutant: a time-out is a verdict like any other.
UsableAll(got) == TRUE

Usable(got) == "none" \notin Classes(got)

Diverges(got) ==
  /\ Usable(got)
  /\ \/ Cardinality(DOMAIN got) = 1 /\ Classes(got) = {"crash"}
     \/ Cardinality(Classes(got)) > 1
     \/ ByOutput /\ Classes(got) = {"ok"} /\ \E i, j \in DOMAIN got : got[i].out # got[j].out

\* KIND_SEVERITY: self-check and crash-split, validity-split, output-split.
Severity(got) ==
  IF "crash" \in Classes(got) THEN 0 ELSE IF Cardinality(Classes(got)) > 1 THEN 1 ELSE 2

Compared == compare.stage = "replay" /\ DOMAIN compare.got = compare.impls

Failed(got) == IF "none" \in Classes(got) THEN 1 ELSE 0

\* All of one class agree, on a time-out too.
Agree ==
  /\ Compared /\ ~Diverges(compare.got)
  /\ compare' = [compare EXCEPT !.stage = "run", !.input = {}, !.failed = @ + Failed(compare.got),
                   !.agreed = IF Cardinality(Classes(compare.got)) = 1 THEN @ + 1 ELSE @]
  /\ UNCHANGED <<corpus, binaries, exemplars, edited>>

Split ==
  /\ Compared /\ Diverges(compare.got)
  /\ compare' = [compare EXCEPT !.stage = "exemplar", !.split = @ + 1,
                                !.failed = @ + Failed(compare.got)]
  /\ UNCHANGED <<corpus, binaries, exemplars, edited>>

\* There is room for one exemplar more, in files and in bytes.
Fitting(content) ==
  /\ Cardinality(exemplars) < MaxHits
  /\ MapThenSumSet(LAMBDA c : Size[c], exemplars) + Size[content] <= MaxHitBytes

\* The exemplar is what is at the path now, under a name made of its content.
KeepExemplar ==
  LET content == corpus[Input] IN
  /\ compare.stage = "exemplar" /\ content # Gone
  /\ content \in exemplars \/ Fitting(content)
  /\ exemplars' = exemplars \cup {content}
  /\ compare' = [compare EXCEPT !.stage = "run", !.input = {},
       !.listed = @ \cup {[path |-> Input, exemplar |-> content, verdicts |-> compare.got]}]
  /\ UNCHANGED <<corpus, binaries, edited>>

\* Counted, and not listed.
NoRoom ==
  /\ compare.stage = "exemplar" /\ corpus[Input] \notin exemplars \cup {Gone}
  /\ ~Fitting(corpus[Input])
  /\ compare' = [compare EXCEPT !.stage = "run", !.input = {}, !.skipped = @ + 1]
  /\ UNCHANGED <<corpus, binaries, exemplars, edited>>

\* Without a report: the input cannot be copied, or the report cannot be written.
CompareBlocked ==
  /\ compare.stage \in {"exemplar", "run"} /\ compare' = NoCompare
  /\ UNCHANGED <<corpus, binaries, exemplars, edited>>

\* All inputs are done, or the time is up: the report shows the most severe.
ReportSplits ==
  /\ compare.stage = "run"
  /\ \E shown \in SUBSET compare.listed :
       /\ Cardinality(shown) = IF Cardinality(compare.listed) < TopCap
                               THEN Cardinality(compare.listed) ELSE TopCap
       /\ \A d \in shown, e \in compare.listed \ shown :
            Severity(d.verdicts) <= Severity(e.verdicts)
       /\ compare' = [compare EXCEPT !.stage = "idle", !.reported = shown]
  /\ UNCHANGED <<corpus, binaries, exemplars, edited>>

\* The collector, a fuzzer or a person changes what is at a path.
ChangeInput(x, content) ==
  /\ edited.n < CorpusEdits /\ corpus[x] # content
  /\ corpus' = [corpus EXCEPT ![x] = content]
  /\ edited' = [n |-> edited.n + 1,
                under |-> IF x \in compare.input THEN edited.under \cup {x} ELSE edited.under]
  /\ UNCHANGED <<binaries, exemplars, compare>>

DifferentialInit ==
  /\ corpus \in [Paths -> Contents] /\ binaries = {} /\ exemplars = {}
  /\ compare = NoCompare /\ edited = [n |-> 0, under |-> {}]

DifferentialNext ==
  \/ Resolve \/ (\E impls \in SUBSET Implementations : Explicit(impls))
  \/ Agree \/ Split \/ KeepExemplar \/ NoRoom \/ CompareBlocked \/ ReportSplits
  \/ \E x \in Paths : TakeInput(x) \/ \E content \in Contents \cup {Gone} : ChangeInput(x, content)
  \/ \E i \in Implementations : ReplayOn(i)

DifferentialSpec == DifferentialInit /\ [][DifferentialNext]_differentialVars

-----------------------------------------------------------------------------
(* Properties *)

\* Every listed divergence can be replayed from its exemplar: each implementation
\* that was compared gave a verdict, on that content, and they differ, or the only
\* one crashed; unless the input was changed under the comparison.  The counts of a
\* report add up: each input was agreed on, split, or not usable; each split is
\* shown, or was skipped for want of room, or the report is full.
DivergencesReplay ==
  /\ \A d \in compare.listed :
       /\ d.exemplar \in exemplars /\ DOMAIN d.verdicts = compare.impls
       /\ d.path \notin edited.under =>
            /\ \A i \in compare.impls : d.verdicts[i] = Behaves[i][d.exemplar]
            /\ \/ Cardinality({d.verdicts[i] : i \in compare.impls}) > 1
               \/ \E i \in compare.impls : compare.impls = {i} /\ d.verdicts[i].class = "crash"
  /\ compare.stage = "idle" =>
       /\ compare.scanned <= compare.agreed + compare.split + compare.failed
       /\ compare.reported \subseteq compare.listed
       /\ \/ compare.split = compare.skipped + Cardinality(compare.reported)
          \/ /\ Cardinality(compare.reported) = TopCap
             /\ compare.split > compare.skipped + TopCap

=============================================================================
