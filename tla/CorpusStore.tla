------------------------------ MODULE CorpusStore ------------------------------
(***************************************************************************)
(* The corpus of one target, work/<target>/seeds, from the campaign that   *)
(* fills it to the garbage collection that swaps it for a smaller one      *)
(* (campaign_rounds.py, concolic_sync.py, gc.py).                          *)
(*                                                                         *)
(* A minimisation may take several passes, each by another process: the    *)
(* control file of the fuzzer's merge says one is under way, merge.meta    *)
(* when it began.  A finished merge is swapped in by two renames.  Any     *)
(* process may die between two changes of the disk, and the fuzzers of     *)
(* other processes add units at any time.                                  *)
(***************************************************************************)
EXTENDS Naturals, FiniteSets

CONSTANTS
  Units,       \* contents of corpus files; a file is named by its contents
  Features,    \* what units can cover
  Covers,      \* the features a merge observes when it runs a unit
  Authored,    \* units of the target's own seeds directory
  Linked,      \* bound: the units that slices link back
  MinFiles,    \* policy gc_corpus_min_files
  MaxCrashes   \* bound: processes that die

ASSUME CorpusAssumption ==
  /\ Covers \in [Units -> SUBSET Features]
  /\ Authored \subseteq Units
  /\ MinFiles \in Nat /\ MaxCrashes \in Nat

VARIABLES
  dir,       \* the directories that exist, with their units
  control,   \* whether merge.ctl exists
  listed,    \* the units merge.ctl lists
  young,     \* units modified after the time stamp in merge.meta
  seen,      \* units with a seen marker of the concolic lane
  pc,        \* where the process at work on the target is
  todo,      \* the units it listed and has not dealt with
  explored,  \* history: units the concolic lane has run
  kept,      \* history: units written while no collection was at work, as of now
  crashes    \* history: processes that died

disk == <<dir, control, listed, young, seen>>
corpusVars == <<disk, pc, todo, explored, kept, crashes>>

-----------------------------------------------------------------------------
(* Directories *)

Exists(d) == d \in DOMAIN dir
Corpus == IF Exists("seeds") THEN dir["seeds"] ELSE {}
Staged == IF Exists("new") THEN dir["new"] ELSE {}

With(d, units) ==
  [e \in DOMAIN dir \cup {d} |-> IF e = d THEN units ELSE dir[e]]
Without(d) == [e \in DOMAIN dir \ {d} |-> dir[e]]
Rename(d, e) ==
  [f \in (DOMAIN dir \ {d}) \cup {e} |-> IF f = e THEN dir[d] ELSE dir[f]]

Coverage(units) == UNION {Covers[u] : u \in units}

Collecting == pc \in {"stage", "stamp", "merge", "preserve", "drop", "retire",
                      "promote", "control", "meta", "markers", "clean"}

\* A unit appears in the corpus under the name of its contents, once.
Write(u) ==
  /\ Exists("seeds")
  /\ u \notin Corpus
  /\ dir' = With("seeds", Corpus \cup {u})
  /\ young' = young \cup {u}
  /\ kept' = IF Collecting THEN kept ELSE kept \cup {u}

Goto(from, to) == pc = from /\ pc' = to

-----------------------------------------------------------------------------
(* A campaign *)

\* run_campaign_rounds makes the directory, then _merge_seeds reads every
\* authored seed before it publishes the first; a seed it refuses is a blocker
\* and ends the campaign.
StartCampaign ==
  /\ pc = "idle"
  /\ dir' = With("seeds", Corpus)
  /\ \/ pc' = "import" /\ todo' = Authored
     \/ pc' = "idle" /\ todo' = {}
  /\ UNCHANGED <<control, listed, young, seen, explored, kept, crashes>>

PublishSeed(u) ==
  /\ pc = "import" /\ u \in todo
  /\ todo' = todo \ {u}
  /\ IF u \in Corpus THEN UNCHANGED <<dir, young, kept>> ELSE Write(u)
  /\ UNCHANGED <<control, listed, seen, pc, explored, crashes>>

Imported ==
  /\ Goto("import", "round") /\ todo = {}
  /\ UNCHANGED <<disk, todo, explored, kept, crashes>>

\* libFuzzer, the focus and directed slices and the crossover lane.
LaneWrites(u) ==
  /\ pc = "round"
  /\ Write(u)
  /\ UNCHANGED <<control, listed, seen, pc, todo, explored, crashes>>

\* run_corpus_sync lists what it has not seen; what the pass itself writes
\* waits for the next one.
SyncBegin ==
  /\ Goto("round", "symcc") /\ Exists("seeds")
  /\ todo' = Corpus \ seen
  /\ UNCHANGED <<disk, explored, kept, crashes>>

\* Mutant: the whole queue is marked before the first input is run.
SyncMarkAll(u) ==
  /\ Goto("symcc", "solve") /\ u \in todo
  /\ seen' = seen \cup todo
  /\ UNCHANGED <<dir, control, listed, young, todo, explored, kept, crashes>>

SyncMark(u) ==
  /\ Goto("symcc", "solve") /\ u \in todo
  /\ seen' = seen \cup {u}
  /\ UNCHANGED <<dir, control, listed, young, todo, explored, kept, crashes>>

\* The binary has run on the marked unit; a solved variant may be new.
SyncSolve ==
  /\ Goto("solve", "symcc")
  /\ explored' = explored \cup (todo \cap seen)
  /\ todo' = todo \ seen
  /\ \/ \E u \in Units : Write(u)
     \/ UNCHANGED <<dir, young, kept>>
  /\ UNCHANGED <<control, listed, seen, crashes>>

\* Nothing is left, or an input, time, file or disk budget is used up.
SyncEnd ==
  /\ Goto("symcc", "round")
  /\ todo' = {}
  /\ UNCHANGED <<disk, explored, kept, crashes>>

EndCampaign ==
  /\ Goto("round", "idle")
  /\ UNCHANGED <<disk, todo, explored, kept, crashes>>

-----------------------------------------------------------------------------
(* Collection: run_campaign_gc, by a round or as a command of its own *)

\* Lists the corpus.  Without a corpus directory, or below the thresholds while
\* no merge is under way, the target is skipped.
GcBegin ==
  /\ pc \in {"idle", "round"}
  /\ Exists("seeds")
  /\ control \/ Cardinality(Corpus) > MinFiles
  /\ todo' = Corpus
  /\ IF control
       THEN pc' = "merge" /\ dir' = With("new", Staged)
       ELSE pc' = "stage" /\ UNCHANGED dir
  /\ UNCHANGED <<control, listed, young, seen, explored, kept, crashes>>

\* A fresh merge session: an empty staging directory, then the time stamp.
Stage ==
  /\ Goto("stage", "stamp")
  /\ dir' = With("new", {})
  /\ UNCHANGED <<control, listed, young, seen, todo, explored, kept, crashes>>

Stamp ==
  /\ Goto("stamp", "merge")
  /\ young' = {}
  /\ UNCHANGED <<dir, control, listed, seen, todo, explored, kept, crashes>>

\* What the fuzzer merges: the units its control file lists, or, in a session of
\* its own, the corpus it finds.
MergeInputs == {Corpus} \cup (IF control THEN {listed} ELSE {})

\* Mutant: the exit code of an unfinished merge is not looked at.
MergePartialSwaps ==
  /\ pc = "merge"
  /\ \E inputs \in MergeInputs : \E out \in SUBSET (inputs \cap Corpus) :
       /\ out # {}
       /\ control' = TRUE /\ listed' = inputs
       /\ dir' = With("new", Staged \cup out)
       /\ young' = young \cup out
  /\ pc' = "preserve"
  /\ UNCHANGED <<seen, todo, explored, kept, crashes>>

\* Timed out, or aborted by a crashing unit: nothing is swapped.
MergePartial ==
  /\ Goto("merge", "idle") /\ todo' = {}
  /\ \E inputs \in MergeInputs : \E out \in SUBSET (inputs \cap Corpus) :
       /\ control' = TRUE /\ listed' = inputs
       /\ dir' = With("new", Staged \cup out)
       /\ young' = young \cup out
  /\ UNCHANGED <<seen, explored, kept, crashes>>

\* The fuzzer could not run at all.
MergeFails ==
  /\ Goto("merge", "idle") /\ todo' = {}
  /\ ~control /\ Staged = {}
  /\ dir' = Without("new")
  /\ UNCHANGED <<control, listed, young, seen, explored, kept, crashes>>

\* Exit code zero: staging covers all the merge listed; if it holds no unit, the
\* pass counts as unfinished all the same.
MergeDone ==
  /\ pc = "merge"
  /\ \E inputs \in MergeInputs : \E out \in SUBSET (inputs \cap Corpus) :
       /\ Coverage(inputs \cap Corpus) \subseteq Coverage(Staged \cup out)
       /\ control' = TRUE /\ listed' = inputs
       /\ dir' = With("new", Staged \cup out)
       /\ young' = young \cup out
       /\ IF Staged \cup out = {}
            THEN pc' = "idle" /\ todo' = {}
            ELSE pc' = "preserve" /\ UNCHANGED todo
  /\ UNCHANGED <<seen, explored, kept, crashes>>

\* Units the pass listed that are younger than the session are copied over.
Preserve(u) ==
  /\ pc = "preserve" /\ u \in todo
  /\ todo' = todo \ {u}
  /\ dir' = IF u \in young THEN With("new", Staged \cup {u}) ELSE dir
  /\ UNCHANGED <<control, listed, young, seen, pc, explored, kept, crashes>>

Preserved ==
  /\ Goto("preserve", "drop") /\ todo = {}
  /\ UNCHANGED <<disk, todo, explored, kept, crashes>>

\* The swap: one change of the disk at a time.
DropOld ==
  /\ \/ Goto("drop", "retire")
     \/ Goto("clean", "idle")
  /\ dir' = Without("old")
  /\ UNCHANGED <<control, listed, young, seen, todo, explored, kept, crashes>>

Retire ==
  /\ Goto("retire", "promote")
  /\ dir' = Rename("seeds", "old")
  /\ UNCHANGED <<control, listed, young, seen, todo, explored, kept, crashes>>

Promote ==
  /\ Goto("promote", "control")
  /\ dir' = Rename("new", "seeds")
  /\ UNCHANGED <<control, listed, young, seen, todo, explored, kept, crashes>>

ForgetControl ==
  /\ Goto("control", "meta")
  /\ control' = FALSE /\ listed' = {}
  /\ UNCHANGED <<dir, young, seen, todo, explored, kept, crashes>>

\* Without a time stamp every file counts as younger.
ForgetMeta ==
  /\ Goto("meta", "markers")
  /\ young' = Units
  /\ UNCHANGED <<dir, control, listed, seen, todo, explored, kept, crashes>>

ForgetMarkers ==
  /\ Goto("markers", "clean")
  /\ seen' = {}
  /\ UNCHANGED <<dir, control, listed, young, todo, explored, kept, crashes>>

-----------------------------------------------------------------------------
(* Around the process *)

\* The fuzzer of another campaign or worker.
OthersWrite(u) ==
  /\ Write(u)
  /\ UNCHANGED <<control, listed, seen, pc, todo, explored, crashes>>

\* merge_back_focus links a unit from the scratch directory of a slice: it keeps
\* the modification time it has there, which may be older than the time stamp.
LinkBack(u) ==
  /\ Exists("seeds") /\ u \in Linked \ Corpus
  /\ dir' = With("seeds", Corpus \cup {u})
  /\ UNCHANGED <<control, listed, young, seen, pc, todo, explored, kept, crashes>>

Crash ==
  /\ crashes < MaxCrashes /\ crashes' = crashes + 1
  /\ pc # "idle" /\ pc' = "idle"
  /\ todo' = {}
  /\ UNCHANGED <<disk, explored, kept>>

CorpusInit ==
  /\ dir = [d \in {} |-> {}] /\ control = FALSE /\ listed = {} /\ young = Units /\ seen = {}
  /\ pc = "idle" /\ todo = {} /\ explored = {} /\ kept = {} /\ crashes = 0

CampaignNext ==
  \/ StartCampaign \/ Imported \/ SyncBegin \/ SyncSolve \/ SyncEnd \/ EndCampaign
  \/ \E u \in Units : PublishSeed(u) \/ LaneWrites(u) \/ SyncMark(u)

MinimizeNext ==
  \/ GcBegin \/ Stage \/ Stamp \/ MergePartial \/ MergeFails \/ MergeDone
  \/ Preserved \/ DropOld \/ Retire \/ Promote
  \/ ForgetControl \/ ForgetMeta \/ ForgetMarkers
  \/ \E u \in Units : Preserve(u)

CorpusNext ==
  \/ CampaignNext \/ MinimizeNext \/ Crash
  \/ \E u \in Units : OthersWrite(u) \/ LinkBack(u)

CorpusSpec == CorpusInit /\ [][CorpusNext]_corpusVars

-----------------------------------------------------------------------------
(* Properties *)

\* Types of the variables.
CorpusTypeOK ==
  /\ DOMAIN dir \subseteq {"seeds", "new", "old"}
  /\ \A d \in DOMAIN dir : dir[d] \subseteq Units
  /\ control \in BOOLEAN
  /\ {listed, young, seen, todo, explored, kept} \subseteq SUBSET Units
  /\ crashes \in 0..MaxCrashes

\* No step of a collection, and no crash between two of them, loses what the
\* units written outside a collection cover: the corpus has it, or the staging
\* directory of a merge the next pass will take up (gc.py: "never swap a
\* partial merge", units added between two passes are preserved).  Units linked
\* back with an older modification time are not among them: between two passes
\* of a merge they are not preserved.
CoverageKept ==
  Coverage(kept) \subseteq Coverage(Corpus \cup (IF control THEN Staged ELSE {}))

\* Once there was a corpus, a target without a corpus directory has the control
\* file and the staged units by which the next collection restores it, so no
\* order of crashes leaves a target that only starts afresh (the two renames of
\* _minimize_corpus).
MissingCorpusIsStaged ==
  kept # {} /\ ~Exists("seeds") => control /\ Staged # {}

\* The concolic lane skips a unit it has not run only where a process died
\* between marking it and running it (run_corpus_sync marks first), and no more
\* units than that.
SkippedOnlyByCrash ==
  Cardinality(seen \ explored) <= crashes + (IF pc = "solve" THEN 1 ELSE 0)

=============================================================================
