-------------------------- MODULE CorpusStore_proofs --------------------------
(***************************************************************************)
(* Proofs about CorpusStore, for any units, any coverage and any number of *)
(* crashes.                                                                *)
(***************************************************************************)
EXTENDS CorpusStore, FiniteSetTheorems, TLAPS

-----------------------------------------------------------------------------
(* The inductive invariant *)

Places == {"idle", "import", "round", "symcc", "solve", "stage", "stamp", "merge",
           "preserve", "drop", "retire", "promote", "control", "meta", "markers",
           "clean"}

\* Which directories there are, and that the control file says a merge is under
\* way, at each step of a collection.
InPlace ==
  /\ pc \in Places
  /\ pc \in {"stage", "stamp", "merge", "preserve", "drop", "retire", "control"}
       => Exists("seeds")
  /\ pc \in {"stamp", "merge", "preserve", "drop", "retire", "promote"} => Exists("new")
  /\ pc \in {"stage", "stamp", "meta"} => ~control
  /\ pc \in {"preserve", "drop", "retire", "promote"} => control /\ Staged # {}
  /\ pc \in {"stamp", "merge"} /\ ~control => Staged = {}
  /\ pc = "control" => control /\ Staged = {}

\* What a merge has staged is younger than its time stamp.
StagedIsYoung == control => Staged \subseteq young

\* Units the next pass of a merge will look at: those its control file lists and
\* those it preserves.
Reachable(units) == units \cap (listed \cup young)

\* Where the coverage of the units written outside collections is.
Covered ==
  /\ ~control => Coverage(kept) \subseteq Coverage(Corpus)
  /\ control => Coverage(kept) \subseteq Coverage(Staged \cup Reachable(Corpus))

\* Where the pass at work will take it from.
Carried ==
  /\ pc \in {"stage", "stamp", "merge"} => todo \subseteq Corpus
  /\ pc \in {"stage", "stamp", "merge"} /\ ~control
       => Coverage(kept) \subseteq Coverage(todo)
  /\ pc = "merge" /\ control
       => Coverage(kept) \subseteq Coverage(Staged \cup Reachable(todo))
  /\ pc = "preserve" => Coverage(kept) \subseteq Coverage(Staged \cup (todo \cap young))
  /\ pc \in {"drop", "retire", "promote"} => Coverage(kept) \subseteq Coverage(Staged)

\* What holds of the disk whatever the process does.
Recoverable == MissingCorpusIsStaged /\ StagedIsYoung /\ Covered

CorpusInv == InPlace /\ Recoverable /\ Carried

-----------------------------------------------------------------------------
(* Coverage *)

LEMMA CoverageOf ==
  ASSUME NEW S, NEW c
  PROVE  c \in Coverage(S) <=> \E u \in S : c \in Covers[u]
  BY DEF Coverage

LEMMA CoverageGrows ==
  ASSUME NEW S, NEW T, S \subseteq T
  PROVE  Coverage(S) \subseteq Coverage(T)
  BY CoverageOf

LEMMA CoverageJoins ==
  ASSUME NEW S, NEW T
  PROVE  Coverage(S \cup T) = Coverage(S) \cup Coverage(T)
  BY CoverageOf

-----------------------------------------------------------------------------
(* What the changes of the directories do to the corpus and the staged units *)

LEMMA SeedsWritten ==
  ASSUME NEW X, dir' = With("seeds", X)
  PROVE  /\ Corpus' = X /\ Exists("seeds")'
         /\ Staged' = Staged /\ Exists("new")' = Exists("new")
  BY DEF With, Corpus, Staged, Exists

LEMMA StagedWritten ==
  ASSUME NEW X, dir' = With("new", X)
  PROVE  /\ Staged' = X /\ Exists("new")'
         /\ Corpus' = Corpus /\ Exists("seeds")' = Exists("seeds")
  BY DEF With, Corpus, Staged, Exists

LEMMA OldDropped ==
  ASSUME dir' = Without("old")
  PROVE  /\ Corpus' = Corpus /\ Exists("seeds")' = Exists("seeds")
         /\ Staged' = Staged /\ Exists("new")' = Exists("new")
  BY DEF Without, Corpus, Staged, Exists

LEMMA StagingDropped ==
  ASSUME dir' = Without("new")
  PROVE  /\ Corpus' = Corpus /\ Exists("seeds")' = Exists("seeds")
         /\ Staged' = {} /\ ~Exists("new")'
  BY DEF Without, Corpus, Staged, Exists

LEMMA SeedsRetired ==
  ASSUME dir' = Rename("seeds", "old")
  PROVE  /\ Corpus' = {} /\ ~Exists("seeds")'
         /\ Staged' = Staged /\ Exists("new")' = Exists("new")
  BY DEF Rename, Corpus, Staged, Exists

LEMMA StagedPromoted ==
  ASSUME dir' = Rename("new", "seeds"), Exists("new")
  PROVE  /\ Corpus' = Staged /\ Exists("seeds")'
         /\ Staged' = {} /\ ~Exists("new")'
  BY DEF Rename, Corpus, Staged, Exists

-----------------------------------------------------------------------------
(* The disk, whatever the process does *)

LEMMA SameDisk ==
  ASSUME Recoverable, UNCHANGED <<dir, control, listed, young, kept>>
  PROVE  /\ Recoverable'
         /\ Corpus' = Corpus /\ Staged' = Staged
         /\ Exists("seeds")' = Exists("seeds") /\ Exists("new")' = Exists("new")
<1>1. /\ Corpus' = Corpus /\ Staged' = Staged
      /\ Exists("seeds")' = Exists("seeds") /\ Exists("new")' = Exists("new")
  BY DEF Corpus, Staged, Exists
<1> QED
  BY <1>1 DEF Recoverable, MissingCorpusIsStaged, StagedIsYoung, Covered, Reachable

\* The corpus grows by a unit.
LEMMA WriteKeeps ==
  ASSUME Recoverable, NEW u, Write(u), UNCHANGED <<control, listed>>
  PROVE  /\ Recoverable'
         /\ Corpus' = Corpus \cup {u} /\ Staged' = Staged
         /\ Exists("seeds") /\ Exists("seeds")' /\ Exists("new")' = Exists("new")
         /\ young' = young \cup {u}
         /\ Collecting => kept' = kept
<1>1. /\ Corpus' = Corpus \cup {u} /\ Exists("seeds")'
      /\ Staged' = Staged /\ Exists("new")' = Exists("new")
  BY SeedsWritten DEF Write
<1>2. Exists("seeds") /\ young' = young \cup {u} /\ (Collecting => kept' = kept)
  BY DEF Write
<1>3. MissingCorpusIsStaged' /\ StagedIsYoung'
  BY <1>1, <1>2 DEF Recoverable, MissingCorpusIsStaged, StagedIsYoung
<1>4. kept' = kept \/ kept' = kept \cup {u}
  BY DEF Write
<1>5. Coverage(kept') \subseteq Coverage(kept) \cup Coverage({u})
  BY <1>4, CoverageJoins
<1>6. CASE ~control
  <2>1. Coverage(kept) \subseteq Coverage(Corpus)
    BY <1>6 DEF Recoverable, Covered
  <2>2. Coverage(Corpus') = Coverage(Corpus) \cup Coverage({u})
    BY <1>1, CoverageJoins
  <2> QED BY <1>1, <1>2, <1>3, <1>5, <1>6, <2>1, <2>2 DEF Recoverable, Covered
<1>7. CASE control
  <2>1. Coverage(kept) \subseteq Coverage(Staged \cup Reachable(Corpus))
    BY <1>7 DEF Recoverable, Covered
  <2>2. (Staged \cup Reachable(Corpus)) \cup {u} \subseteq Staged' \cup Reachable(Corpus)'
    BY <1>1, <1>2 DEF Reachable
  <2>3. Coverage((Staged \cup Reachable(Corpus)) \cup {u})
          \subseteq Coverage(Staged' \cup Reachable(Corpus)')
    BY <2>2, CoverageGrows
  <2>4. Coverage((Staged \cup Reachable(Corpus)) \cup {u})
          = Coverage(Staged \cup Reachable(Corpus)) \cup Coverage({u})
    BY CoverageJoins
  <2> QED BY <1>1, <1>2, <1>3, <1>5, <1>7, <2>1, <2>3, <2>4 DEF Recoverable, Covered
<1> QED BY <1>1, <1>2, <1>6, <1>7

\* Where the process has nothing of its own to keep.
Free == {"idle", "import", "round", "symcc", "solve", "markers", "clean"}

LEMMA FreeKeeps ==
  ASSUME Recoverable', pc' \in Free
  PROVE  CorpusInv'
  BY DEF CorpusInv, InPlace, Carried, Free, Places

-----------------------------------------------------------------------------
(* The steps of a campaign, and of others *)

LEMMA CampaignSteps ==
  ASSUME CorpusInv, CampaignNext
  PROVE  CorpusInv'
<1> USE DEF Goto, disk, Free
<1>0. Recoverable
  BY DEF CorpusInv
<1>1. ASSUME StartCampaign PROVE CorpusInv'
  <2>1. Corpus' = Corpus /\ Staged' = Staged /\ Exists("seeds")'
    BY <1>1, SeedsWritten DEF StartCampaign
  <2>2. Recoverable'
    BY <1>0, <1>1, <2>1
       DEF StartCampaign, Recoverable, MissingCorpusIsStaged, StagedIsYoung, Covered, Reachable
  <2> QED BY <1>1, <2>2, FreeKeeps DEF StartCampaign
<1>2. ASSUME Imported \/ SyncBegin \/ SyncEnd \/ EndCampaign
      PROVE  CorpusInv'
  BY <1>0, <1>2, SameDisk, FreeKeeps DEF Imported, SyncBegin, SyncEnd, EndCampaign
<1>3. ASSUME SyncSolve PROVE CorpusInv'
  <2>1. pc' \in Free /\ UNCHANGED <<control, listed>>
    BY <1>3 DEF SyncSolve
  <2>2. (\E u \in Units : Write(u)) \/ UNCHANGED <<dir, young, kept>>
    BY <1>3 DEF SyncSolve
  <2>3. Recoverable'
    BY <1>0, <2>1, <2>2, WriteKeeps, SameDisk
  <2> QED BY <2>1, <2>3, FreeKeeps
<1>4. ASSUME NEW u \in Units, PublishSeed(u) PROVE CorpusInv'
  <2>1. pc' \in Free /\ UNCHANGED <<control, listed>>
    BY <1>4 DEF PublishSeed
  <2>2. Write(u) \/ UNCHANGED <<dir, young, kept>>
    BY <1>4 DEF PublishSeed
  <2>3. Recoverable'
    BY <1>0, <2>1, <2>2, WriteKeeps, SameDisk
  <2> QED BY <2>1, <2>3, FreeKeeps
<1>5. ASSUME NEW u \in Units, LaneWrites(u) PROVE CorpusInv'
  BY <1>0, <1>5, WriteKeeps, FreeKeeps DEF LaneWrites
<1>6. ASSUME NEW u \in Units, SyncMark(u) PROVE CorpusInv'
  BY <1>0, <1>6, SameDisk, FreeKeeps DEF SyncMark
<1> QED BY <1>1, <1>2, <1>3, <1>4, <1>5, <1>6 DEF CampaignNext

LEMMA OtherSteps ==
  ASSUME CorpusInv, NEW u \in Units, OthersWrite(u) \/ LinkBack(u)
  PROVE  CorpusInv'
<1>0. Recoverable /\ UNCHANGED <<control, listed, pc, todo>>
  BY DEF CorpusInv, OthersWrite, LinkBack
<1>1. /\ Recoverable'
      /\ Corpus \subseteq Corpus' /\ Staged' = Staged
      /\ Exists("seeds")' /\ Exists("new")' = Exists("new")
      /\ young \subseteq young' /\ (Collecting => kept' = kept)
  <2>1. CASE OthersWrite(u)
    BY <1>0, <2>1, WriteKeeps DEF OthersWrite
  <2>2. CASE LinkBack(u)
    <3>1. /\ Corpus' = Corpus \cup {u} /\ Exists("seeds")'
          /\ Staged' = Staged /\ Exists("new")' = Exists("new")
      BY <2>2, SeedsWritten DEF LinkBack
    <3>2. UNCHANGED <<young, kept>>
      BY <2>2 DEF LinkBack
    <3>3. /\ Coverage(Corpus) \subseteq Coverage(Corpus')
          /\ Coverage(Staged \cup Reachable(Corpus))
               \subseteq Coverage(Staged' \cup Reachable(Corpus)')
      BY <1>0, <3>1, <3>2, CoverageGrows DEF Reachable
    <3> QED
      BY <1>0, <3>1, <3>2, <3>3
         DEF Recoverable, MissingCorpusIsStaged, StagedIsYoung, Covered
  <2> QED BY <2>1, <2>2
<1>2. InPlace'
  BY <1>0, <1>1 DEF CorpusInv, InPlace
<1>3. Carried'
  <2>1. /\ Coverage(Staged \cup Reachable(todo))
            \subseteq Coverage(Staged' \cup Reachable(todo)')
        /\ Coverage(Staged \cup (todo \cap young))
            \subseteq Coverage(Staged' \cup (todo' \cap young'))
    BY <1>0, <1>1, CoverageGrows DEF Reachable
  <2> QED BY <1>0, <1>1, <2>1 DEF CorpusInv, Carried, Collecting
<1> QED BY <1>1, <1>2, <1>3 DEF CorpusInv

-----------------------------------------------------------------------------
(* The steps of a collection *)

LEMMA MergeSteps ==
  ASSUME CorpusInv, GcBegin \/ Stage \/ Stamp \/ MergePartial \/ MergeFails \/ MergeDone
  PROVE  CorpusInv'
<1> USE DEF Goto, disk, Free
<1>0. Recoverable /\ InPlace /\ Carried
  BY DEF CorpusInv
<1>1. ASSUME GcBegin, control PROVE CorpusInv'
  <2>1. Staged' = Staged /\ Corpus' = Corpus /\ Exists("seeds")' /\ Exists("new")'
    BY <1>1, StagedWritten DEF GcBegin
  <2>2. /\ pc' = "merge" /\ todo' = Corpus
        /\ UNCHANGED <<control, listed, young, kept>>
    BY <1>1 DEF GcBegin
  <2>3. Recoverable'
    BY <1>0, <1>1, <2>1, <2>2
       DEF Recoverable, MissingCorpusIsStaged, StagedIsYoung, Covered, Reachable
  <2>4. InPlace' /\ Carried'
    BY <1>0, <1>1, <2>1, <2>2 DEF InPlace, Carried, Places, Recoverable, Covered, Reachable
  <2> QED BY <2>3, <2>4 DEF CorpusInv
<1>2. ASSUME GcBegin, ~control PROVE CorpusInv'
  <2>1. /\ pc' = "stage" /\ todo' = Corpus /\ Exists("seeds")
        /\ UNCHANGED <<dir, control, listed, young, kept>>
    BY <1>2 DEF GcBegin
  <2> QED
    BY <1>0, <1>2, <2>1, SameDisk
       DEF CorpusInv, InPlace, Carried, Places, Recoverable, Covered
<1>3. ASSUME Stage PROVE CorpusInv'
  <2>1. /\ pc = "stage" /\ pc' = "stamp" /\ ~control
        /\ UNCHANGED <<control, listed, young, kept, todo>>
    BY <1>0, <1>3 DEF Stage, InPlace
  <2>2. /\ Staged' = {} /\ Corpus' = Corpus
        /\ Exists("seeds")' = Exists("seeds") /\ Exists("new")'
    BY <1>3, StagedWritten DEF Stage
  <2> QED
    BY <1>0, <2>1, <2>2
       DEF CorpusInv, InPlace, Carried, Places, Recoverable, MissingCorpusIsStaged,
           StagedIsYoung, Covered
<1>4. ASSUME Stamp PROVE CorpusInv'
  <2>1. /\ pc = "stamp" /\ pc' = "merge" /\ ~control /\ Staged = {}
        /\ UNCHANGED <<dir, control, listed, kept, todo>>
    BY <1>0, <1>4 DEF Stamp, InPlace
  <2>2. /\ Staged' = Staged /\ Corpus' = Corpus
        /\ Exists("seeds")' = Exists("seeds")
    BY <2>1 DEF Staged, Corpus, Exists
  <2>3. Exists("new") => Exists("new")'
    BY <2>1 DEF Exists
  <2>4. Exists("new")
    BY <1>0, <2>1 DEF InPlace
  <2> QED
    BY <1>0, <2>1, <2>2, <2>3, <2>4
       DEF CorpusInv, InPlace, Carried, Places, Recoverable, MissingCorpusIsStaged,
           StagedIsYoung, Covered
<1>5. ASSUME MergePartial \/ MergeDone PROVE CorpusInv'
  <2> DEFINE Merged(inputs, out) ==
          /\ control' /\ listed' = inputs
          /\ dir' = With("new", Staged \cup out)
          /\ young' = young \cup out
          /\ \/ pc' = "idle"
             \/ /\ pc' = "preserve" /\ UNCHANGED todo
                /\ Staged \cup out # {}
                /\ Coverage(inputs \cap Corpus) \subseteq Coverage(Staged \cup out)
  <2>1. PICK inputs \in MergeInputs :
               \E out \in SUBSET (inputs \cap Corpus) : Merged(inputs, out)
    BY <1>5 DEF MergePartial, MergeDone
  <2>2. PICK out \in SUBSET (inputs \cap Corpus) : Merged(inputs, out)
    BY <2>1
  <2>3. pc = "merge" /\ UNCHANGED kept /\ Exists("seeds")
    BY <1>0, <1>5 DEF MergePartial, MergeDone, InPlace
  <2>4. /\ Staged' = Staged \cup out /\ Exists("new")'
        /\ Corpus' = Corpus /\ Exists("seeds")'
    BY <2>2, <2>3, StagedWritten
  <2>5. inputs = Corpus \/ (control /\ inputs = listed)
    BY DEF MergeInputs
  <2>6. Coverage(kept) \subseteq Coverage(Staged' \cup Reachable(Corpus)')
    <3>1. CASE inputs = Corpus
      <4>1. /\ Corpus \subseteq Staged' \cup Reachable(Corpus)'
            /\ Staged \cup Reachable(Corpus) \subseteq Staged' \cup Reachable(Corpus)'
        BY <2>2, <2>4, <3>1 DEF Reachable
      <4> QED BY <1>0, <4>1, CoverageGrows DEF Recoverable, Covered
    <3>2. CASE control /\ inputs = listed
      <4>1. Staged \cup Reachable(Corpus) \subseteq Staged' \cup Reachable(Corpus)'
        BY <2>2, <2>4, <3>2 DEF Reachable
      <4> QED BY <1>0, <3>2, <4>1, CoverageGrows DEF Recoverable, Covered
    <3> QED BY <2>5, <3>1, <3>2
  <2>7. Staged' \subseteq young'
    BY <1>0, <2>2, <2>3, <2>4 DEF Recoverable, StagedIsYoung, InPlace
  <2>8. Recoverable'
    BY <2>2, <2>3, <2>4, <2>6, <2>7
       DEF Recoverable, MissingCorpusIsStaged, StagedIsYoung, Covered
  <2>9. CASE pc' = "idle"
    BY <2>8, <2>9, FreeKeeps
  <2>10. CASE pc' = "preserve"
    <3>1. /\ UNCHANGED todo /\ Staged' # {} /\ todo \subseteq Corpus
          /\ Coverage(inputs \cap Corpus) \subseteq Coverage(Staged')
      BY <1>0, <2>2, <2>3, <2>4, <2>10 DEF Carried
    <3>2. /\ Coverage(Staged) \subseteq Coverage(Staged')
          /\ Coverage(todo \cap listed) \subseteq Coverage(listed \cap Corpus)
          /\ Coverage(todo \cap young) \subseteq Coverage(todo' \cap young')
          /\ Coverage(todo) \subseteq Coverage(Corpus)
          /\ Corpus \cap Corpus = Corpus
      BY <2>2, <2>4, <3>1, CoverageGrows
    <3>3. Coverage(Staged' \cup (todo' \cap young'))
            = Coverage(Staged') \cup Coverage(todo' \cap young')
      BY CoverageJoins
    <3>4. Coverage(kept) \subseteq Coverage(Staged') \cup Coverage(todo' \cap young')
      <4>1. CASE control /\ inputs = listed
        <5>1. Coverage(kept) \subseteq Coverage(Staged \cup Reachable(todo))
          BY <1>0, <2>3, <4>1 DEF Carried
        <5>2. Staged \cup Reachable(todo)
                = Staged \cup ((todo \cap listed) \cup (todo \cap young))
          BY DEF Reachable
        <5>3. Coverage(Staged \cup Reachable(todo))
                = Coverage(Staged) \cup Coverage((todo \cap listed) \cup (todo \cap young))
          BY <5>2, CoverageJoins
        <5>4. Coverage((todo \cap listed) \cup (todo \cap young))
                = Coverage(todo \cap listed) \cup Coverage(todo \cap young)
          BY CoverageJoins
        <5> QED BY <3>1, <3>2, <4>1, <5>1, <5>3, <5>4
      <4>2. CASE inputs = Corpus
        <5>1. Coverage(Corpus) \subseteq Coverage(Staged')
          BY <3>1, <3>2, <4>2
        <5>2. CASE ~control
          <6>1. Coverage(kept) \subseteq Coverage(todo)
            BY <1>0, <2>3, <5>2 DEF Carried
          <6> QED BY <3>2, <5>1, <6>1
        <5>3. CASE control
          <6>1. Coverage(kept) \subseteq Coverage(Staged \cup Reachable(Corpus))
            BY <1>0, <5>3 DEF Recoverable, Covered
          <6>2. Coverage(Staged \cup Reachable(Corpus))
                  = Coverage(Staged) \cup Coverage(Reachable(Corpus))
            BY CoverageJoins
          <6>3. Coverage(Reachable(Corpus)) \subseteq Coverage(Corpus)
            BY CoverageGrows DEF Reachable
          <6> QED BY <3>2, <5>1, <6>1, <6>2, <6>3
        <5> QED BY <5>2, <5>3
      <4> QED BY <2>5, <4>1, <4>2
    <3>5. InPlace' /\ Carried'
      BY <2>2, <2>3, <2>4, <2>10, <3>1, <3>3, <3>4 DEF InPlace, Carried, Places
    <3> QED BY <2>8, <3>5 DEF CorpusInv
  <2> QED BY <2>2, <2>9, <2>10
<1>6. ASSUME MergeFails PROVE CorpusInv'
  <2>1. /\ Corpus' = Corpus /\ Exists("seeds")' = Exists("seeds") /\ Staged' = {}
    BY <1>6, StagingDropped DEF MergeFails
  <2>2. ~control /\ pc' = "idle" /\ UNCHANGED <<control, listed, young, kept>>
    BY <1>6 DEF MergeFails
  <2>3. Recoverable'
    BY <1>0, <2>1, <2>2
       DEF Recoverable, MissingCorpusIsStaged, StagedIsYoung, Covered
  <2> QED BY <2>2, <2>3, FreeKeeps
<1> QED BY <1>1, <1>2, <1>3, <1>4, <1>5, <1>6

LEMMA SwapSteps ==
  ASSUME CorpusInv,
         \/ Preserved \/ DropOld \/ Retire \/ Promote
         \/ ForgetControl \/ ForgetMeta \/ ForgetMarkers
         \/ \E u \in Units : Preserve(u)
  PROVE  CorpusInv'
<1> USE DEF Goto, disk, Free
<1>0. Recoverable /\ InPlace /\ Carried
  BY DEF CorpusInv
<1>1. ASSUME NEW u \in Units, Preserve(u) PROVE CorpusInv'
  <2> DEFINE X == IF u \in young THEN Staged \cup {u} ELSE Staged
  <2>1. /\ pc = "preserve" /\ pc' = pc /\ todo' = todo \ {u}
        /\ UNCHANGED <<control, listed, young, kept>>
        /\ control /\ Staged # {} /\ Exists("seeds") /\ Exists("new")
    BY <1>0, <1>1 DEF Preserve, InPlace
  <2>2. /\ Staged' = X /\ Exists("new")'
        /\ Corpus' = Corpus /\ Exists("seeds")'
    <3>1. CASE u \in young
      BY <1>1, <2>1, <3>1, StagedWritten DEF Preserve
    <3>2. CASE u \notin young
      BY <1>0, <1>1, <2>1, <3>2 DEF Preserve, Staged, Corpus, Exists
    <3> QED BY <3>1, <3>2
  <2>3. /\ Staged \cup (todo \cap young) \subseteq Staged' \cup (todo' \cap young')
        /\ Staged \cup Reachable(Corpus) \subseteq Staged' \cup Reachable(Corpus)'
        /\ Staged \subseteq Staged'
    BY <2>1, <2>2 DEF Reachable
  <2>4. /\ Coverage(kept) \subseteq Coverage(Staged' \cup (todo' \cap young'))
        /\ Coverage(kept) \subseteq Coverage(Staged' \cup Reachable(Corpus)')
    BY <1>0, <2>1, <2>3, CoverageGrows DEF Carried, Recoverable, Covered
  <2>5. Staged' \subseteq young'
    BY <1>0, <2>1, <2>2 DEF Recoverable, StagedIsYoung
  <2> QED
    BY <2>1, <2>2, <2>3, <2>4, <2>5
       DEF CorpusInv, InPlace, Carried, Places, Recoverable, MissingCorpusIsStaged,
           StagedIsYoung, Covered
<1>2. ASSUME Preserved PROVE CorpusInv'
  <2>1. /\ pc = "preserve" /\ pc' = "drop" /\ todo = {}
        /\ UNCHANGED <<dir, control, listed, young, kept>>
    BY <1>2 DEF Preserved
  <2>2. Staged \cup (todo \cap young) = Staged
    BY <2>1
  <2>3. Coverage(kept) \subseteq Coverage(Staged)
    BY <1>0, <2>1, <2>2 DEF Carried
  <2> QED BY <1>0, <2>1, <2>3, SameDisk DEF CorpusInv, InPlace, Carried, Places
<1>3. ASSUME DropOld PROVE CorpusInv'
  <2>1. /\ Corpus' = Corpus /\ Exists("seeds")' = Exists("seeds")
        /\ Staged' = Staged /\ Exists("new")' = Exists("new")
    BY <1>3, OldDropped DEF DropOld
  <2>2. /\ UNCHANGED <<control, listed, young, kept, todo>>
        /\ (pc = "drop" /\ pc' = "retire") \/ pc' = "idle"
    BY <1>3 DEF DropOld
  <2>3. Recoverable'
    BY <1>0, <2>1, <2>2
       DEF Recoverable, MissingCorpusIsStaged, StagedIsYoung, Covered, Reachable
  <2> QED
    BY <1>0, <2>1, <2>2, <2>3, FreeKeeps DEF CorpusInv, InPlace, Carried, Places
<1>4. ASSUME Retire PROVE CorpusInv'
  <2>1. /\ Corpus' = {} /\ ~Exists("seeds")'
        /\ Staged' = Staged /\ Exists("new")' = Exists("new")
    BY <1>4, SeedsRetired DEF Retire
  <2>2. /\ pc = "retire" /\ pc' = "promote"
        /\ UNCHANGED <<control, listed, young, kept, todo>>
    BY <1>4 DEF Retire
  <2>3. /\ control /\ Staged # {} /\ Exists("new")
        /\ Coverage(kept) \subseteq Coverage(Staged)
    BY <1>0, <2>2 DEF InPlace, Carried
  <2>4. Coverage(Staged) \subseteq Coverage(Staged' \cup Reachable(Corpus)')
    BY <2>1, CoverageGrows
  <2> QED
    BY <1>0, <2>1, <2>2, <2>3, <2>4
       DEF CorpusInv, InPlace, Carried, Places, Recoverable, MissingCorpusIsStaged,
           StagedIsYoung, Covered
<1>5. ASSUME Promote PROVE CorpusInv'
  <2>1. /\ pc = "promote" /\ pc' = "control" /\ control /\ Exists("new")
        /\ Coverage(kept) \subseteq Coverage(Staged) /\ Staged \subseteq young
        /\ UNCHANGED <<control, listed, young, kept, todo>>
    BY <1>0, <1>5 DEF Promote, InPlace, Carried, Recoverable, StagedIsYoung
  <2>2. /\ Corpus' = Staged /\ Exists("seeds")' /\ Staged' = {}
    BY <1>5, <2>1, StagedPromoted DEF Promote
  <2>3. Staged' \cup Reachable(Corpus)' = Staged
    BY <2>1, <2>2 DEF Reachable
  <2> QED
    BY <2>1, <2>2, <2>3
       DEF CorpusInv, InPlace, Carried, Places, Recoverable, MissingCorpusIsStaged,
           StagedIsYoung, Covered
<1>6. ASSUME ForgetControl PROVE CorpusInv'
  <2>1. /\ pc = "control" /\ pc' = "meta" /\ ~control' /\ control
        /\ Staged = {} /\ Exists("seeds") /\ UNCHANGED <<dir, young, kept>>
    BY <1>0, <1>6 DEF ForgetControl, InPlace
  <2>2. Corpus' = Corpus /\ Exists("seeds")'
    BY <2>1 DEF Corpus, Exists
  <2>3. Coverage(Staged \cup Reachable(Corpus)) \subseteq Coverage(Corpus)
    BY <2>1, CoverageGrows DEF Reachable
  <2>4. Recoverable'
    BY <1>0, <2>1, <2>2, <2>3
       DEF Recoverable, MissingCorpusIsStaged, StagedIsYoung, Covered
  <2> QED BY <2>1, <2>4 DEF CorpusInv, InPlace, Carried, Places
<1>7. ASSUME ForgetMeta PROVE CorpusInv'
  <2>1. /\ pc' = "markers" /\ ~control /\ UNCHANGED <<dir, control, listed, kept>>
    BY <1>0, <1>7 DEF ForgetMeta, InPlace
  <2>2. Corpus' = Corpus /\ Exists("seeds")' = Exists("seeds")
    BY <2>1 DEF Corpus, Exists
  <2>3. Recoverable'
    BY <1>0, <2>1, <2>2
       DEF Recoverable, MissingCorpusIsStaged, StagedIsYoung, Covered
  <2> QED BY <2>1, <2>3, FreeKeeps
<1>8. ASSUME ForgetMarkers PROVE CorpusInv'
  BY <1>0, <1>8, SameDisk, FreeKeeps DEF ForgetMarkers
<1> QED BY <1>1, <1>2, <1>3, <1>4, <1>5, <1>6, <1>7, <1>8

-----------------------------------------------------------------------------
(* The theorems *)

LEMMA CorpusInvInit == CorpusInit => CorpusInv
<1> SUFFICES ASSUME CorpusInit PROVE CorpusInv
  OBVIOUS
<1>1. Coverage(kept) = {}
  BY CoverageOf DEF CorpusInit
<1> QED
  BY <1>1 DEF CorpusInit, CorpusInv, InPlace, Places, Recoverable, MissingCorpusIsStaged,
              StagedIsYoung, Covered, Carried

LEMMA CorpusInvStep == CorpusInv /\ [CorpusNext]_corpusVars => CorpusInv'
<1> SUFFICES ASSUME CorpusInv, [CorpusNext]_corpusVars
             PROVE  CorpusInv'
  OBVIOUS
<1>1. CASE CampaignNext
  BY <1>1, CampaignSteps
<1>2. CASE MinimizeNext
  BY <1>2, MergeSteps, SwapSteps DEF MinimizeNext
<1>3. CASE \E u \in Units : OthersWrite(u) \/ LinkBack(u)
  BY <1>3, OtherSteps
<1>4. CASE Crash
  BY <1>4, SameDisk, FreeKeeps DEF Crash, disk, Free, CorpusInv
<1>5. CASE UNCHANGED corpusVars
  <2>1. Recoverable' /\ UNCHANGED <<pc, todo, control, listed, young, kept>>
    BY <1>5, SameDisk DEF corpusVars, disk, CorpusInv
  <2>2. /\ Corpus' = Corpus /\ Staged' = Staged
        /\ Exists("seeds")' = Exists("seeds") /\ Exists("new")' = Exists("new")
    BY <1>5, SameDisk DEF corpusVars, disk, CorpusInv
  <2> QED BY <2>1, <2>2 DEF CorpusInv, InPlace, Carried, Reachable
<1> QED BY <1>1, <1>2, <1>3, <1>4, <1>5 DEF CorpusNext

LEMMA CorpusInvariant == CorpusSpec => []CorpusInv
  BY CorpusInvInit, CorpusInvStep, PTL DEF CorpusSpec

\* Whatever is written meanwhile, and wherever a process dies, the corpus or the
\* staging directory of a merge under way covers what the units written outside
\* collections cover (_minimize_corpus).
THEOREM CollectionKeepsCoverage == CorpusSpec => []CoverageKept
<1>1. CorpusInv => CoverageKept
  <2> SUFFICES ASSUME CorpusInv PROVE CoverageKept
    OBVIOUS
  <2>1. CASE control
    <3>1. Coverage(Staged \cup Reachable(Corpus)) \subseteq Coverage(Corpus \cup Staged)
      BY CoverageGrows DEF Reachable
    <3> QED BY <2>1, <3>1 DEF CorpusInv, Recoverable, Covered, CoverageKept
  <2>2. CASE ~control
    <3>1. Corpus \cup {} = Corpus
      OBVIOUS
    <3> QED BY <2>2, <3>1 DEF CorpusInv, Recoverable, Covered, CoverageKept
  <2> QED BY <2>1, <2>2
<1> QED BY <1>1, CorpusInvariant, PTL

\* A target that had a corpus and has no corpus directory has what the next
\* collection restores it from (the two renames of _minimize_corpus).
THEOREM CorpusIsRestorable == CorpusSpec => []MissingCorpusIsStaged
<1>1. CorpusInv => MissingCorpusIsStaged
  BY DEF CorpusInv, Recoverable
<1> QED BY <1>1, CorpusInvariant, PTL

-----------------------------------------------------------------------------
(* Types *)

\* Directories there can be, each with its units.
DirOK(d) ==
  DOMAIN d \subseteq {"seeds", "new", "old"} /\ \A e \in DOMAIN d : d[e] \subseteq Units

LEMMA DirChanges ==
  ASSUME DirOK(dir)
  PROVE  /\ \A e \in {"seeds", "new", "old"}, X \in SUBSET Units : DirOK(With(e, X))
         /\ \A e : DirOK(Without(e))
         /\ \A e \in {"seeds", "new", "old"}, d \in DOMAIN dir : DirOK(Rename(d, e))
         /\ Corpus \subseteq Units /\ Staged \subseteq Units
<1>1. \A e \in {"seeds", "new", "old"}, X \in SUBSET Units : DirOK(With(e, X))
  BY DEF DirOK, With
<1>2. \A e : DirOK(Without(e))
  BY DEF DirOK, Without
<1>3. \A e \in {"seeds", "new", "old"}, d \in DOMAIN dir : DirOK(Rename(d, e))
  BY DEF DirOK, Rename
<1>4. Corpus \subseteq Units /\ Staged \subseteq Units
  BY DEF DirOK, Corpus, Staged, Exists
<1> QED BY <1>1, <1>2, <1>3, <1>4

LEMMA CorpusTypeStep ==
  CorpusTypeOK /\ InPlace /\ [CorpusNext]_corpusVars => CorpusTypeOK'
<1> SUFFICES ASSUME CorpusTypeOK, InPlace, [CorpusNext]_corpusVars
             PROVE  CorpusTypeOK'
  OBVIOUS
<1>0. /\ DirOK(dir) /\ Corpus \subseteq Units /\ Staged \subseteq Units
      /\ control \in BOOLEAN /\ crashes \in 0..MaxCrashes
      /\ listed \subseteq Units /\ young \subseteq Units /\ seen \subseteq Units
      /\ todo \subseteq Units /\ explored \subseteq Units /\ kept \subseteq Units
  BY DirChanges DEF CorpusTypeOK, DirOK
<1>1. ASSUME DirOK(dir'), control' \in BOOLEAN, crashes' \in 0..MaxCrashes,
             listed' \subseteq Units, young' \subseteq Units, seen' \subseteq Units,
             todo' \subseteq Units, explored' \subseteq Units, kept' \subseteq Units
      PROVE  CorpusTypeOK'
  BY <1>1 DEF CorpusTypeOK, DirOK
<1>2. ASSUME NEW u \in Units, Write(u)
      PROVE  DirOK(dir') /\ young' \subseteq Units /\ kept' \subseteq Units
  BY <1>0, <1>2, DirChanges DEF Write
<1>3. CASE CampaignNext
  <2> USE DEF Goto, disk
  <2>1. ASSUME StartCampaign PROVE CorpusTypeOK'
    BY <1>0, <1>1, <2>1, DirChanges, CorpusAssumption DEF StartCampaign
  <2>2. ASSUME Imported \/ SyncBegin \/ SyncEnd \/ EndCampaign PROVE CorpusTypeOK'
    BY <1>0, <1>1, <2>2 DEF Imported, SyncBegin, SyncEnd, EndCampaign
  <2>3. ASSUME SyncSolve PROVE CorpusTypeOK'
    BY <1>0, <1>1, <1>2, <2>3 DEF SyncSolve
  <2>4. ASSUME NEW u \in Units, PublishSeed(u) \/ LaneWrites(u) \/ SyncMark(u)
        PROVE  CorpusTypeOK'
    BY <1>0, <1>1, <1>2, <2>4 DEF PublishSeed, LaneWrites, SyncMark
  <2> QED BY <1>3, <2>1, <2>2, <2>3, <2>4 DEF CampaignNext
<1>4. CASE MinimizeNext
  <2> USE DEF Goto, disk
  <2>1. ASSUME GcBegin \/ Stage \/ MergeFails \/ DropOld PROVE CorpusTypeOK'
    BY <1>0, <1>1, <2>1, DirChanges DEF GcBegin, Stage, MergeFails, DropOld
  <2>2. ASSUME MergePartial \/ MergeDone PROVE CorpusTypeOK'
    <3>1. \E inputs \in MergeInputs : \E out \in SUBSET (inputs \cap Corpus) :
            /\ control' = TRUE /\ listed' = inputs
            /\ dir' = With("new", Staged \cup out) /\ young' = young \cup out
      BY <2>2 DEF MergePartial, MergeDone
    <3>2. \A inputs \in MergeInputs : inputs \subseteq Units
      BY <1>0 DEF MergeInputs
    <3>3. DirOK(dir') /\ control' \in BOOLEAN /\ listed' \subseteq Units /\ young' \subseteq Units
      BY <1>0, <3>1, <3>2, DirChanges
    <3>4. todo' \subseteq Units /\ UNCHANGED <<seen, explored, kept, crashes>>
      BY <1>0, <2>2 DEF MergePartial, MergeDone
    <3> QED BY <1>0, <1>1, <3>3, <3>4
  <2>3. ASSUME Stamp \/ Preserved \/ ForgetControl \/ ForgetMeta \/ ForgetMarkers
        PROVE  CorpusTypeOK'
    BY <1>0, <1>1, <2>3 DEF Stamp, Preserved, ForgetControl, ForgetMeta, ForgetMarkers
  <2>4. ASSUME Retire \/ Promote PROVE CorpusTypeOK'
    <3>1. /\ Retire => "seeds" \in DOMAIN dir
          /\ Promote => "new" \in DOMAIN dir
      BY DEF Retire, Promote, InPlace, Exists
    <3> QED BY <1>0, <1>1, <2>4, <3>1, DirChanges DEF Retire, Promote
  <2>5. ASSUME NEW u \in Units, Preserve(u) PROVE CorpusTypeOK'
    <3>1. DirOK(dir')
      <4>1. CASE u \in young
        BY <1>0, <2>5, <4>1, DirChanges DEF Preserve
      <4>2. CASE u \notin young
        BY <1>0, <2>5, <4>2 DEF Preserve
      <4> QED BY <4>1, <4>2
    <3> QED BY <1>0, <1>1, <2>5, <3>1 DEF Preserve
  <2> QED BY <1>4, <2>1, <2>2, <2>3, <2>4, <2>5 DEF MinimizeNext
<1>5. CASE Crash
  BY <1>0, <1>1, <1>5, CorpusAssumption DEF Crash, disk
<1>6. ASSUME NEW u \in Units, OthersWrite(u) \/ LinkBack(u) PROVE CorpusTypeOK'
  BY <1>0, <1>1, <1>2, <1>6, DirChanges DEF OthersWrite, LinkBack
<1>7. CASE UNCHANGED corpusVars
  BY <1>0, <1>1, <1>7 DEF corpusVars, disk
<1> QED BY <1>3, <1>4, <1>5, <1>6, <1>7 DEF CorpusNext

\* Only the three directories exist, and units are all they hold.
THEOREM CorpusTypeCorrect == CorpusSpec => []CorpusTypeOK
<1>1. CorpusInit => CorpusTypeOK
  <2> SUFFICES ASSUME CorpusInit PROVE CorpusTypeOK
    OBVIOUS
  <2>1. DOMAIN dir = {}
    BY DEF CorpusInit
  <2>2. control \in BOOLEAN /\ {listed, young, seen, todo, explored, kept} \subseteq SUBSET Units
    BY DEF CorpusInit
  <2>3. crashes = 0 /\ MaxCrashes \in Nat
    BY CorpusAssumption DEF CorpusInit
  <2>4. crashes \in 0..MaxCrashes
    BY <2>3
  <2> QED BY <2>1, <2>2, <2>4 DEF CorpusTypeOK
<1>2. CorpusInv => InPlace
  BY DEF CorpusInv
<1> QED BY <1>1, <1>2, CorpusInvariant, CorpusTypeStep, PTL DEF CorpusSpec

-----------------------------------------------------------------------------
(* Units the concolic lane skips *)

\* Between marking a unit and running it, that unit alone is waiting; each death
\* there leaves one unit marked and not run.
Waiting == IF pc = "solve" THEN todo ELSE {}

MarkerInv ==
  /\ crashes \in Nat
  /\ IsFiniteSet(seen \ explored)
  /\ Cardinality((seen \ explored) \ Waiting) <= crashes
  /\ pc = "symcc" => todo \cap seen = {}
  /\ pc = "solve" => \E u \in todo : todo \cap seen = {u}

LEMMA OneMore ==
  ASSUME NEW S, NEW T, NEW u, IsFiniteSet(S), T \subseteq S \cup {u}
  PROVE  IsFiniteSet(T) /\ Cardinality(T) <= Cardinality(S) + 1
<1>1. /\ IsFiniteSet(S \cup {u}) /\ Cardinality(S) \in Nat
      /\ Cardinality(S \cup {u}) <= Cardinality(S) + 1
  BY FS_AddElement, FS_CardinalityType
<1>2. IsFiniteSet(T) /\ Cardinality(T) <= Cardinality(S \cup {u}) /\ Cardinality(T) \in Nat
  BY <1>1, FS_Subset, FS_CardinalityType
<1>3. Cardinality(S \cup {u}) \in Nat
  BY <1>1, FS_CardinalityType
<1> QED BY <1>1, <1>2, <1>3

LEMMA NoMore ==
  ASSUME NEW S, NEW T, IsFiniteSet(S), T \subseteq S, NEW n \in Nat, Cardinality(S) <= n
  PROVE  IsFiniteSet(T) /\ Cardinality(T) <= n
<1>1. IsFiniteSet(T) /\ Cardinality(T) <= Cardinality(S)
  BY FS_Subset
<1>2. Cardinality(T) \in Nat /\ Cardinality(S) \in Nat
  BY <1>1, FS_CardinalityType
<1> QED BY <1>1, <1>2

LEMMA MarkerInvStep == MarkerInv /\ [CorpusNext]_corpusVars => MarkerInv'
<1> SUFFICES ASSUME MarkerInv, [CorpusNext]_corpusVars
             PROVE  MarkerInv'
  OBVIOUS
<1> DEFINE Skipped == (seen \ explored) \ Waiting
<1>1. IsFiniteSet(Skipped) /\ Cardinality(Skipped) \in Nat
  BY FS_Subset, FS_CardinalityType DEF MarkerInv
\* Steps that leave markers alone, or forget them.
<1>2. ASSUME seen' \subseteq seen, UNCHANGED <<explored, crashes>>, pc # "solve",
             pc' # "solve", pc' = "symcc" => todo' \cap seen' = {}
      PROVE  MarkerInv'
  <2>1. /\ (seen \ explored)' \subseteq seen \ explored
        /\ (seen \ explored)' = ((seen \ explored) \ Waiting)'
        /\ seen \ explored = (seen \ explored) \ Waiting
    BY <1>2 DEF Waiting
  <2> QED BY <1>2, <2>1, NoMore DEF MarkerInv
<1>3. ASSUME NEW u \in Units, SyncMark(u) PROVE MarkerInv'
  <2>1. /\ pc = "symcc" /\ pc' = "solve" /\ u \in todo /\ seen' = seen \cup {u}
        /\ UNCHANGED <<todo, explored, crashes>> /\ todo \cap seen = {}
    BY <1>3 DEF SyncMark, Goto, MarkerInv
  <2>2. todo' \cap seen' = {u}
    BY <2>1
  <2>3. /\ (seen \ explored)' \subseteq (seen \ explored) \cup {u}
        /\ ((seen \ explored) \ Waiting)' \subseteq (seen \ explored) \ Waiting
    BY <2>1 DEF Waiting
  <2>4. IsFiniteSet((seen \ explored)')
    BY <2>3, OneMore DEF MarkerInv
  <2>5. Cardinality(((seen \ explored) \ Waiting)') <= crashes
    BY <1>1, <2>3, NoMore DEF MarkerInv
  <2> QED BY <2>1, <2>2, <2>4, <2>5 DEF MarkerInv
<1>4. ASSUME SyncSolve PROVE MarkerInv'
  <2>1. /\ pc = "solve" /\ pc' = "symcc" /\ explored' = explored \cup (todo \cap seen)
        /\ todo' = todo \ seen /\ UNCHANGED <<seen, crashes>>
    BY <1>4 DEF SyncSolve, Goto
  <2>2. /\ (seen \ explored)' \subseteq Skipped
        /\ ((seen \ explored) \ Waiting)' = (seen \ explored)'
        /\ todo' \cap seen' = {}
    BY <2>1 DEF Waiting
  <2>3. IsFiniteSet((seen \ explored)') /\ Cardinality((seen \ explored)') <= crashes
    BY <1>1, <2>2, NoMore DEF MarkerInv
  <2> QED BY <2>1, <2>2, <2>3 DEF MarkerInv
<1>5. ASSUME Crash PROVE MarkerInv'
  <2>1. /\ pc' = "idle" /\ crashes' = crashes + 1 /\ UNCHANGED <<seen, explored>>
    BY <1>5 DEF Crash, disk
  <2>2. \E u : seen \ explored \subseteq Skipped \cup {u}
    BY DEF Waiting, MarkerInv
  <2>3. Cardinality(seen \ explored) <= Cardinality(Skipped) + 1
    BY <1>1, <2>2, OneMore
  <2>4. ((seen \ explored) \ Waiting)' = seen \ explored
    BY <2>1 DEF Waiting
  <2>5. Cardinality(seen \ explored) \in Nat
    BY FS_CardinalityType DEF MarkerInv
  <2> QED BY <1>1, <2>1, <2>3, <2>4, <2>5 DEF MarkerInv
\* Other processes, also while a marked unit is running.
<1>6. ASSUME UNCHANGED <<pc, todo, seen, explored, crashes>> PROVE MarkerInv'
  BY <1>6 DEF MarkerInv, Waiting
<1>7. CASE CampaignNext
  <2>1. ASSUME \/ StartCampaign \/ Imported \/ SyncBegin \/ SyncEnd \/ EndCampaign
               \/ \E u \in Units : PublishSeed(u) \/ LaneWrites(u)
        PROVE  MarkerInv'
    BY <1>2, <2>1
       DEF StartCampaign, Imported, SyncBegin, SyncEnd, EndCampaign, PublishSeed,
           LaneWrites, Goto, disk
  <2> QED BY <1>3, <1>4, <1>7, <2>1 DEF CampaignNext
<1>8. CASE MinimizeNext
  BY <1>2, <1>8
     DEF MinimizeNext, GcBegin, Stage, Stamp, MergePartial, MergeFails, MergeDone,
         Preserved, DropOld, Retire, Promote, ForgetControl, ForgetMeta, ForgetMarkers,
         Preserve, Goto, disk
<1>9. CASE \E u \in Units : OthersWrite(u) \/ LinkBack(u)
  BY <1>6, <1>9 DEF OthersWrite, LinkBack
<1>10. CASE UNCHANGED corpusVars
  BY <1>6, <1>10 DEF corpusVars, disk
<1> QED BY <1>5, <1>7, <1>8, <1>9, <1>10 DEF CorpusNext

\* The concolic lane skips at most as many units as there were deaths between a
\* marker and its run (run_corpus_sync).
THEOREM SkipsAreCrashes == CorpusSpec => []SkippedOnlyByCrash
<1>1. CorpusInit => MarkerInv
  BY FS_EmptySet DEF CorpusInit, MarkerInv, Waiting
<1>2. MarkerInv => SkippedOnlyByCrash
  <2> SUFFICES ASSUME MarkerInv PROVE SkippedOnlyByCrash
    OBVIOUS
  <2>1. CASE pc = "solve"
    <3>1. PICK u : seen \ explored \subseteq ((seen \ explored) \ Waiting) \cup {u}
      BY <2>1 DEF MarkerInv, Waiting
    <3>2. IsFiniteSet((seen \ explored) \ Waiting)
      BY FS_Subset DEF MarkerInv
    <3>3. Cardinality(seen \ explored) <= Cardinality((seen \ explored) \ Waiting) + 1
      BY <3>1, <3>2, OneMore
    <3>4. /\ Cardinality(seen \ explored) \in Nat
          /\ Cardinality((seen \ explored) \ Waiting) \in Nat
      BY <3>2, FS_CardinalityType DEF MarkerInv
    <3> QED BY <2>1, <3>3, <3>4 DEF MarkerInv, SkippedOnlyByCrash
  <2>2. CASE pc # "solve"
    <3>1. (seen \ explored) \ Waiting = seen \ explored
      BY <2>2 DEF Waiting
    <3>2. Cardinality(seen \ explored) \in Nat
      BY FS_CardinalityType DEF MarkerInv
    <3> QED BY <2>2, <3>1, <3>2 DEF MarkerInv, SkippedOnlyByCrash
  <2> QED BY <2>1, <2>2
<1> QED BY <1>1, <1>2, MarkerInvStep, PTL DEF CorpusSpec

=============================================================================
