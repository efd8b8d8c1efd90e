---------------------------- MODULE SanitizerSweep ----------------------------
(***************************************************************************)
(* Sweeps of a corpus with a sanitizer variant (sanitizer_sweep in         *)
(* sanitizer_variants.py).  Each input is replayed some times; reports are *)
(* grouped by signature, with one exemplar input for each group in a       *)
(* directory of limited size that all sweeps of a target share.            *)
(*                                                                         *)
(* What a replay reports depends on its schedule: any set of signatures.   *)
(***************************************************************************)
EXTENDS Naturals, Sequences, FiniteSets

CONSTANTS
  Corpora,        \* the inputs that are listed, in order; contents are all different
  Signatures,
  Repetitions,    \* runs_per_input
  MaxExemplars,   \* MAX_EXEMPLAR_FILES
  Sweeps          \* calls

ASSUME SweepAssumption ==
  /\ IsFiniteSet(Signatures)
  /\ \A inputs \in Corpora :
       /\ inputs \in Seq({inputs[i] : i \in DOMAIN inputs})
       /\ \A i, j \in DOMAIN inputs : inputs[i] = inputs[j] => i = j

VARIABLES
  hits,     \* the exemplars on disk
  sweep     \* what each call is doing

sweepVars == <<hits, sweep>>

NoSweep ==
  [stage |-> "idle", inputs |-> <<>>, rep |-> 0, base |-> {}, seen |-> {}, todo |-> <<>>,
   groups |-> <<>>, files |-> <<>>, skipped |-> 0, shown |-> {}]

CurrentInput(p) == sweep[p].inputs[1]
Sets(p, new) == sweep' = [sweep EXCEPT ![p] = new]

\* The replay of an empty input gives the reports that no input is needed for; a
\* sweep whose baseline fails has done nothing.
Baseline(p, base, inputs) ==
  /\ sweep[p].stage = "idle"
  /\ sweep' = [sweep EXCEPT ![p] = [NoSweep EXCEPT !.stage = "run", !.base = base, !.inputs = inputs]]
  /\ UNCHANGED hits

\* Mutant: a signature counts in each replay.
CountedAnew(p, sigs) == sigs \ sweep[p].base

Counted(p, sigs) == (sigs \ sweep[p].base) \ sweep[p].seen

\* One replay; its new signatures are taken in the order of the output.
Replays(p, sigs) ==
  /\ sweep[p].stage = "run" /\ sweep[p].inputs # <<>>
  /\ sweep[p].rep < Repetitions /\ sweep[p].todo = <<>>
  /\ \E order \in [1..Cardinality(Counted(p, sigs)) -> Counted(p, sigs)] :
       /\ \A s \in Counted(p, sigs) : \E i \in DOMAIN order : order[i] = s
       /\ Sets(p, [sweep[p] EXCEPT !.rep = @ + 1, !.todo = order, !.seen = @ \cup Counted(p, sigs),
                    !.shown = @ \cup ({CurrentInput(p)} \X (sigs \ sweep[p].base))])
  /\ UNCHANGED hits

LeavesInput(p) == Sets(p, [sweep[p] EXCEPT !.inputs = Tail(@), !.rep = 0, !.seen = {}])

\* A replay that times out, or fails without a report, is the last of its input;
\* what it may have reported is dropped.
ReplayFails(p) ==
  /\ sweep[p].stage = "run" /\ sweep[p].inputs # <<>>
  /\ sweep[p].rep < Repetitions /\ sweep[p].todo = <<>>
  /\ LeavesInput(p) /\ UNCHANGED hits

NextInput(p) ==
  /\ sweep[p].stage = "run" /\ sweep[p].inputs # <<>>
  /\ sweep[p].rep = Repetitions /\ sweep[p].todo = <<>>
  /\ LeavesInput(p) /\ UNCHANGED hits

-----------------------------------------------------------------------------
(* Groups and their exemplars *)

FirstOf(p) == [exemplar |-> CurrentInput(p), n |-> 1]
Sig(p) == Head(sweep[p].todo)

Grouped(p) ==
  /\ sweep[p].todo # <<>> /\ sweep[p].stage = "run" /\ Sig(p) \in DOMAIN sweep[p].groups
  /\ Sets(p, [sweep[p] EXCEPT !.groups[Sig(p)].n = @ + 1, !.todo = Tail(@)])
  /\ UNCHANGED hits

\* What a call knows of the size of the directory: what was there when it first
\* needed it, and what it has added.
FilesKnown(p) == IF sweep[p].files = <<>> THEN Cardinality(hits) ELSE sweep[p].files[1]

NewGroup(p) == sweep[p].todo # <<>> /\ sweep[p].stage = "run" /\ Sig(p) \notin DOMAIN sweep[p].groups

WithGroup(p, files) ==
  LET groups == sweep[p].groups IN
  [sweep[p] EXCEPT !.todo = Tail(@), !.files = <<files>>, !.stage = "run",
    !.groups = [s \in {Sig(p)} \cup DOMAIN groups |-> IF s = Sig(p) THEN FirstOf(p) ELSE groups[s]]]

ExemplarThere(p) ==
  /\ NewGroup(p) /\ CurrentInput(p) \in hits
  /\ Sets(p, WithGroup(p, FilesKnown(p))) /\ UNCHANGED hits

\* No room: the signature has no group yet; a later input may give it one.
OverCap(p) ==
  Sets(p, [sweep[p] EXCEPT !.todo = Tail(@), !.files = <<FilesKnown(p)>>, !.skipped = @ + 1])

ExemplarSkipped(p) ==
  /\ NewGroup(p) /\ CurrentInput(p) \notin hits /\ FilesKnown(p) >= MaxExemplars
  /\ OverCap(p) /\ UNCHANGED hits

WriteExemplar(p) ==
  /\ NewGroup(p) /\ CurrentInput(p) \notin hits /\ FilesKnown(p) < MaxExemplars
  /\ Sets(p, [sweep[p] EXCEPT !.stage = "link", !.files = <<FilesKnown(p)>>])
  /\ UNCHANGED hits

\* Linked into place, unless another call has done that since.
LinkExemplar(p) ==
  /\ sweep[p].stage = "link"
  /\ hits' = hits \cup {CurrentInput(p)}
  /\ Sets(p, WithGroup(p, IF CurrentInput(p) \in hits THEN FilesKnown(p) ELSE FilesKnown(p) + 1))

\* An input that changes or cannot be copied ends the sweep without a report.
ExemplarFails(p) ==
  /\ sweep[p].stage = "link" \/ NewGroup(p)
  /\ sweep' = [sweep EXCEPT ![p] = NoSweep]
  /\ UNCHANGED hits

\* The corpus is through, or the time is up.
SweepReports(p) ==
  /\ sweep[p].stage = "run" /\ sweep[p].rep = 0 /\ sweep[p].todo = <<>>
  /\ Sets(p, [sweep[p] EXCEPT !.stage = "reported"])
  /\ UNCHANGED hits

SweepInit == hits = {} /\ sweep = [p \in Sweeps |-> NoSweep]

SweepNext ==
  \E p \in Sweeps :
    \/ \E base \in SUBSET Signatures, inputs \in Corpora : Baseline(p, base, inputs)
    \/ \E sigs \in SUBSET Signatures : Replays(p, sigs)
    \/ ReplayFails(p) \/ NextInput(p) \/ Grouped(p)
    \/ ExemplarThere(p) \/ ExemplarSkipped(p) \/ WriteExemplar(p) \/ LinkExemplar(p)
    \/ ExemplarFails(p) \/ SweepReports(p)

SweepSpec == SweepInit /\ [][SweepNext]_sweepVars

-----------------------------------------------------------------------------
(* Properties *)

ShownBy(p, s) == {x[1] : x \in {y \in sweep[p].shown : y[2] = s}}

\* A report has a group for nothing the baseline shows, and each group an exemplar
\* that is on disk and showed the signature; its inputs are counted once each,
\* however often they are replayed, and all of them unless the exemplar directory
\* was full when one came.  What has no group was skipped.
ReportIsWhatWasSeen ==
  \A p \in Sweeps :
    sweep[p].stage = "reported" =>
      LET groups == sweep[p].groups IN
      /\ DOMAIN groups \cap sweep[p].base = {}
      /\ \A s \in DOMAIN groups :
           /\ groups[s].exemplar \in hits \cap ShownBy(p, s)
           /\ groups[s].n <= Cardinality(ShownBy(p, s))
      /\ sweep[p].skipped = 0 =>
           \A x \in sweep[p].shown :
             x[2] \in DOMAIN groups /\ groups[x[2]].n = Cardinality(ShownBy(p, x[2]))

=============================================================================
