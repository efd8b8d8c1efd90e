------------------------------ MODULE Tools_proofs ------------------------------
(***************************************************************************)
(* Proofs about the tools of MCTools, each from the specification of its   *)
(* own module and for any inputs, calls and sessions.                      *)
(***************************************************************************)
EXTENDS BoundedRun, CandidateScores, VariantDeps, KleeRun, OwnedBuild, SinkFrontier, PatchPool,
        CodecGate, SeedWeights, SinkInventory, PackPublish, DifferentialRun, SanitizerSweep,
        FiniteSetTheorems, TLAPS

-----------------------------------------------------------------------------
(* Bounded commands *)

\* The command is waited for until it ends or the time is up, and what is left
\* of its group is signalled before the call returns.
BoundedInv ==
  /\ outcome \in [timed : BOOLEAN, ended : {"running", "itself", "signal", "never ran"}]
  /\ waiter \in {"idle", "waiting", "grace", "end group", "killed", "returned"}
  /\ waiter = "idle" => alive = {} /\ outcome = Unfinished
  /\ waiter = "waiting" =>
       /\ ~outcome.timed /\ outcome.ended \in {"running", "itself"}
       /\ Leader \notin alive => outcome.ended = "itself"
  /\ waiter = "grace" => outcome.timed
  /\ waiter \in {"end group", "killed"} /\ ~outcome.timed => outcome.ended = "itself"
  /\ NothingOutlivesTheCall

LEMMA BoundedInvStep == BoundedInv /\ [BoundedNext]_boundedVars => BoundedInv'
<1> SUFFICES ASSUME BoundedInv, [BoundedNext]_boundedVars PROVE BoundedInv'
  OBVIOUS
<1> USE DEF BoundedInv, NothingOutlivesTheCall
<1>1. CASE SpawnFails
  BY <1>1 DEF SpawnFails
<1>2. CASE Spawn
  <2>1. outcome' = Unfinished /\ alive' = {Leader} /\ waiter' = "waiting"
    BY <1>2 DEF Spawn
  <2> QED BY <2>1 DEF Unfinished
<1>3. CASE WaitReturns \/ GraceReturns
  BY <1>3 DEF WaitReturns, GraceReturns
<1>4. CASE WaitExpires
  BY <1>4 DEF WaitExpires
<1>5. CASE GraceExpires
  BY <1>5 DEF GraceExpires
<1>6. CASE EndGroup
  BY <1>6 DEF EndGroup
<1>7. CASE NobodyLeft
  BY <1>7 DEF NobodyLeft
<1>8. CASE KillGroup
  BY <1>8 DEF KillGroup, Signalled
<1>9. ASSUME NEW k \in Kids, Fork(k) PROVE BoundedInv'
  BY <1>9 DEF Fork
<1>10. ASSUME NEW k \in Kids, Leave(k) PROVE BoundedInv'
  BY <1>10 DEF Leave
<1>11. ASSUME NEW p \in Kids \cup {Leader}, Exits(p) PROVE BoundedInv'
  BY <1>11 DEF Exits, Unfinished
<1>12. CASE UNCHANGED boundedVars
  BY <1>12 DEF boundedVars
<1> QED BY <1>1, <1>2, <1>3, <1>4, <1>5, <1>6, <1>7, <1>8, <1>9, <1>10, <1>11, <1>12
        DEF BoundedNext

\* Whatever the command and its descendants start, ignore and outlive, nothing of
\* its group runs when bounded_run returns, and without a time-out the exit code
\* is the command's own.
THEOREM NothingOutlives == BoundedSpec => []NothingOutlivesTheCall
<1>1. BoundedInit => BoundedInv
  BY DEF BoundedInit, BoundedInv, NothingOutlivesTheCall, Unfinished
<1>2. BoundedInv => NothingOutlivesTheCall
  BY DEF BoundedInv
<1> QED BY <1>1, <1>2, BoundedInvStep, PTL DEF BoundedSpec

-----------------------------------------------------------------------------
(* Sets of judgments *)

Holding(p) == call[p] \in {"locked", "writing"}

\* One session at a time looks for other judgments and writes its own.
ScoresInv ==
  /\ call \in [Recorders -> {"idle", "judged", "locked", "writing", "stored"}]
  /\ DOMAIN judging = Recorders
  /\ \A p \in Recorders : Holding(p) <=> p \in locked
  /\ \A p, q \in Recorders : p \in locked /\ q \in locked => p = q
  /\ \A p \in Recorders : call[p] = "writing" => Prior(judging[p]) = {}
  /\ \A r, s \in store : r.hypothesis = s.hypothesis /\ r.revision = s.revision => r = s

LEMMA EndCallKeeps ==
  ASSUME ScoresInv, NEW p \in Recorders, NEW place \in {"idle", "stored"}, EndCall(p, place),
         \/ UNCHANGED store
         \/ call[p] = "writing" /\ store' = store \cup {judging[p]}
  PROVE  ScoresInv'
<1> USE DEF ScoresInv
<1>1. /\ call' \in [Recorders -> {"idle", "judged", "locked", "writing", "stored"}]
      /\ DOMAIN judging' = Recorders
      /\ \A q \in Recorders : q # p => call'[q] = call[q] /\ judging'[q] = judging[q]
      /\ call'[p] = place /\ locked' = locked \ {p}
  BY DEF EndCall
<1>2. \A q \in Recorders : Holding(q)' <=> q \in locked'
  BY <1>1 DEF Holding
<1>3. \A q, o \in Recorders : q \in locked' /\ o \in locked' => q = o
  BY <1>1
<1>4. CASE UNCHANGED store
  BY <1>1, <1>2, <1>3, <1>4 DEF Prior
<1>5. CASE call[p] = "writing" /\ store' = store \cup {judging[p]}
  <2>1. \A q \in Recorders : q # p => call[q] # "writing"
    BY <1>5 DEF Holding
  <2>2. \A r \in store : r.hypothesis = judging[p].hypothesis /\ r.revision = judging[p].revision
                         => r = judging[p]
    BY <1>5 DEF Prior
  <2>3. \A r, s \in store' : r.hypothesis = s.hypothesis /\ r.revision = s.revision => r = s
    BY <1>5, <2>2
  <2> QED BY <1>1, <1>2, <1>3, <2>1, <2>3
<1> QED BY <1>4, <1>5

LEMMA ScoresInvStep == ScoresInv /\ [ScoresNext]_scoresVars => ScoresInv'
<1> SUFFICES ASSUME ScoresInv, [ScoresNext]_scoresVars PROVE ScoresInv'
  OBVIOUS
<1>1. ASSUME NEW p \in Recorders, NEW j, Decide(p, j) PROVE ScoresInv'
  BY <1>1 DEF Decide, ScoresInv, Holding, Prior
<1>2. ASSUME NEW p \in Recorders, Lock(p) PROVE ScoresInv'
  BY <1>2 DEF Lock, Free, ScoresInv, Holding, Prior
<1>3. ASSUME NEW p \in Recorders, Repeat(p) PROVE ScoresInv'
  BY <1>3, EndCallKeeps DEF Repeat
<1>4. ASSUME NEW p \in Recorders, Refuse(p) PROVE ScoresInv'
  BY <1>4, EndCallKeeps DEF Refuse
<1>5. ASSUME NEW p \in Recorders, Accept(p) PROVE ScoresInv'
  BY <1>5 DEF Accept, ScoresInv, Holding, Prior
<1>6. ASSUME NEW p \in Recorders, Store(p) PROVE ScoresInv'
  BY <1>6, EndCallKeeps DEF Store
<1>7. ASSUME NEW p \in Recorders, Answer(p) \/ NoAnswer(p) \/ Die(p) PROVE ScoresInv'
  BY <1>7, EndCallKeeps DEF Answer, NoAnswer, Die
<1>8. ASSUME NEW new \in Policies, EditPolicy(new) PROVE ScoresInv'
  BY <1>8 DEF EditPolicy, ScoresInv, Holding, Prior
<1>9. CASE Damage
  BY <1>9 DEF Damage, ScoresInv, Holding, Prior
<1>10. CASE UNCHANGED scoresVars
  BY <1>10 DEF scoresVars, ScoresInv, Holding, Prior
<1> QED BY <1>1, <1>2, <1>3, <1>4, <1>5, <1>6, <1>7, <1>8, <1>9, <1>10 DEF ScoresNext

\* However many sessions record judgments, and whatever the policy and the
\* damage on disk, no revision of a hypothesis ever has two of them, so no report
\* stops on a conflict (candidate_scoring.py).
THEOREM NoConflict == ScoresSpec => []OneJudgment
<1>1. ScoresInit => ScoresInv
  BY DEF ScoresInit, ScoresInv, Holding
<1>2. ScoresInv => OneJudgment
  BY DEF ScoresInv, OneJudgment, Conflicts
<1> QED BY <1>1, <1>2, ScoresInvStep, PTL DEF ScoresSpec

-----------------------------------------------------------------------------
(* Dependencies of variant builds *)

DepTree == [tree : [DepFiles -> Nat \cup {Uncopied}], built : BOOLEAN]

Stages == {"idle", "copy", "make", "look", "rename", "sync", "link"}

AllCopied(t) == t \in DepTree /\ \A f \in DepFiles : t.tree[f] # Uncopied
Complete(t) == AllCopied(t) /\ t.built

DepsInv ==
  /\ source \in [DepFiles -> Nat]
  /\ stage \in [VariantBuilders -> Stages] /\ DOMAIN depStaging = VariantBuilders
  /\ \A b \in VariantBuilders :
       /\ stage[b] = "copy" => depStaging[b] \in DepTree
       /\ stage[b] = "make" => AllCopied(depStaging[b])
       /\ stage[b] \in {"look", "rename"} => Complete(depStaging[b])
  /\ dest # Nothing => Complete(dest)

\* One call goes on, with another staged tree or the one it had.
LEMMA BuilderMoves ==
  ASSUME DepsInv, NEW b \in VariantBuilders, NEW to \in Stages, NEW t,
         stage' = [stage EXCEPT ![b] = to],
         \/ depStaging' = [depStaging EXCEPT ![b] = t]
         \/ UNCHANGED depStaging /\ t = depStaging[b],
         UNCHANGED source, UNCHANGED dest \/ dest' = Nothing \/ Complete(dest'),
         to = "copy" => t \in DepTree, to = "make" => AllCopied(t),
         to \in {"look", "rename"} => Complete(t)
  PROVE  DepsInv'
<1>1. \A c \in VariantBuilders :
        /\ stage'[c] = IF c = b THEN to ELSE stage[c]
        /\ depStaging'[c] = IF c = b THEN t ELSE depStaging[c]
  BY DEF DepsInv
<1>2. stage' \in [VariantBuilders -> Stages] /\ DOMAIN depStaging' = VariantBuilders
  BY DEF DepsInv
<1>3. \A t1 : AllCopied(t1)' = AllCopied(t1) /\ Complete(t1)' = Complete(t1)
  BY DEF AllCopied, Complete, DepTree
<1>4. dest' # Nothing => Complete(dest')
  BY DEF DepsInv, Nothing, NoTree
<1> QED BY <1>1, <1>2, <1>3, <1>4 DEF DepsInv

LEMMA CopiedTree ==
  ASSUME NEW t \in DepTree, NEW f \in DepFiles, NEW v \in Nat
  PROVE  [t EXCEPT !.tree[f] = v] \in DepTree
  BY DEF DepTree

LEMMA BuiltTree ==
  ASSUME NEW t, AllCopied(t)
  PROVE  Complete([t EXCEPT !.built = TRUE])
  BY DEF DepTree, AllCopied, Complete

LEMMA DepsInvStep == DepsInv /\ [DepsNext]_depVars => DepsInv'
<1> SUFFICES ASSUME DepsInv, [DepsNext]_depVars PROVE DepsInv'
  OBVIOUS
<1>1. ASSUME NEW b \in VariantBuilders, DepPresent(b) \/ Link(b) \/ BuilderDies(b) \/ Published(b)
      PROVE  DepsInv'
  <2>1. \E to \in {"link", "idle"} : stage' = [stage EXCEPT ![b] = to]
    BY <1>1 DEF DepPresent, Link, BuilderDies, Published, BStep
  <2>2. UNCHANGED <<source, dest, depStaging>>
    BY <1>1 DEF DepPresent, Link, BuilderDies, Published
  <2> QED BY <2>1, <2>2, BuilderMoves DEF Stages
<1>2. ASSUME NEW b \in VariantBuilders, StageDep(b) PROVE DepsInv'
  <2>1. NoTree \in DepTree
    BY DEF NoTree, DepTree
  <2> QED BY <1>2, <2>1, BuilderMoves DEF StageDep, BStep, Stages
<1>3. ASSUME NEW b \in VariantBuilders, NEW f \in DepFiles, CopyDepFile(b, f) PROVE DepsInv'
  <2> DEFINE t == [depStaging[b] EXCEPT !.tree[f] = source[f]]
  <2>1. /\ depStaging' = [depStaging EXCEPT ![b] = t] /\ stage[b] = "copy"
        /\ stage' = [stage EXCEPT ![b] = "copy"] /\ UNCHANGED <<source, dest>>
    BY <1>3 DEF CopyDepFile, DepsInv
  <2>2. t \in DepTree
    BY <2>1, CopiedTree DEF DepsInv
  <2> HIDE DEF t
  <2> QED BY <2>1, <2>2, BuilderMoves DEF Stages
<1>4. ASSUME NEW b \in VariantBuilders, DepCopied(b) PROVE DepsInv'
  <2>1. AllCopied(depStaging[b])
    BY <1>4 DEF DepCopied, AllCopied, DepsInv
  <2> QED BY <1>4, <2>1, BuilderMoves DEF DepCopied, BStep, Stages
<1>5. ASSUME NEW b \in VariantBuilders, DepBuilt(b) PROVE DepsInv'
  <2> DEFINE t == [depStaging[b] EXCEPT !.built = TRUE]
  <2>1. depStaging' = [depStaging EXCEPT ![b] = t] /\ stage[b] = "make" /\ BStep(b, "look")
    BY <1>5 DEF DepBuilt
  <2>2. Complete(t)
    BY <2>1, BuiltTree DEF DepsInv
  <2> HIDE DEF t
  <2> QED BY <1>5, <2>1, <2>2, BuilderMoves DEF DepBuilt, BStep, Stages
<1>6. ASSUME NEW b \in VariantBuilders, DepFails(b) \/ RenameFails(b) PROVE DepsInv'
  BY <1>6, BuilderMoves DEF DepFails, RenameFails, BStep, Stages
<1>7. ASSUME NEW b \in VariantBuilders, DestinationFree(b) PROVE DepsInv'
  <2>1. Complete(depStaging[b])
    BY <1>7 DEF DestinationFree, DepsInv
  <2> QED BY <1>7, <2>1, BuilderMoves DEF DestinationFree, BStep, Stages
<1>8. ASSUME NEW b \in VariantBuilders, Publish(b) PROVE DepsInv'
  <2>1. Complete(depStaging[b]) /\ dest' = depStaging[b]
    BY <1>8 DEF Publish, DepsInv
  <2> QED BY <1>8, <2>1, BuilderMoves DEF Publish, BStep, Stages
<1>9. ASSUME NEW b \in VariantBuilders, Unpublish(b) PROVE DepsInv'
  BY <1>9, BuilderMoves DEF Unpublish, BStep, Stages
<1>10. ASSUME NEW f \in DepFiles, EditDep(f) PROVE DepsInv'
  <2>1. source' \in [DepFiles -> Nat] /\ UNCHANGED <<dest, depStaging, stage>>
    BY <1>10 DEF EditDep, DepsInv
  <2> QED BY <2>1 DEF DepsInv
<1>11. CASE UNCHANGED depVars
  BY <1>11 DEF depVars, DepsInv
<1> QED BY <1>1, <1>2, <1>3, <1>4, <1>5, <1>6, <1>7, <1>8, <1>9, <1>10, <1>11 DEF DepsNext

\* However many builds prepare one dependency, fail, clean up and are killed, a
\* destination that was published is replaced by none of them, only taken back by
\* the call that is still looking at it; and every tree a variant has linked was
\* built from all of the files (ensure_sanitizer_dep).
THEOREM PublicationStays == DepsSpec => PublishedStays
<1>1. DepsInit => DepsInv
  BY DEF DepsInit, DepsInv, Stages
<1>2. DepsInv /\ [DepsNext]_depVars =>
        [/\ dest # Nothing /\ dest' # dest =>
              \E b \in VariantBuilders : stage[b] = "sync" /\ stage'[b] = "idle" /\ dest' = Nothing
         /\ \A t \in linked' \ linked :
              t.built /\ Uncopied \notin {t.tree[f] : f \in DepFiles}]_depVars
  <2> SUFFICES ASSUME DepsInv, DepsNext
               PROVE  /\ dest # Nothing /\ dest' # dest =>
                           \E b \in VariantBuilders :
                             stage[b] = "sync" /\ stage'[b] = "idle" /\ dest' = Nothing
                      /\ \A t \in linked' \ linked :
                           t.built /\ Uncopied \notin {t.tree[f] : f \in DepFiles}
    OBVIOUS
  <2>1. CASE \E b \in VariantBuilders : Unpublish(b)
    BY <2>1 DEF Unpublish, BStep, DepsInv
  <2>2. CASE \E b \in VariantBuilders : Link(b)
    <3>1. UNCHANGED dest /\ linked' \ linked \subseteq {dest} \ {Nothing}
      BY <2>2 DEF Link
    <3> QED BY <3>1 DEF DepsInv, Complete, AllCopied
  <2>3. CASE \E b \in VariantBuilders : Publish(b)
    BY <2>3 DEF Publish
  <2>4. CASE /\ ~\E b \in VariantBuilders : Unpublish(b) \/ Publish(b) \/ Link(b)
    <3>1. UNCHANGED <<dest, linked>>
      BY <2>4 DEF DepsNext, DepPresent, StageDep, DepCopied, DepBuilt, DepFails, DestinationFree,
                  RenameFails, Published, BuilderDies, CopyDepFile, EditDep
    <3> QED BY <3>1
  <2> QED BY <2>1, <2>2, <2>3, <2>4
<1> QED BY <1>1, <1>2, DepsInvStep, PTL DEF DepsSpec, PublishedStays

-----------------------------------------------------------------------------
(* Symbolic runs *)

Test == [n : Nat, by : KleeRuns, at : Nat, whole : BOOLEAN]

KleeCall ==
  [stage : {"idle", "client", "cleanup", "list", "read", "reported", "dead"},
   started : Nat, todo : SUBSET Nat, ok : BOOLEAN, crowded : BOOLEAN,
   blocked : BOOLEAN, rejected : BOOLEAN, spent : BOOLEAN]

KleeTypes ==
  /\ made \subseteq Test /\ IsFiniteSet(made)
  /\ now \in Nat /\ box \in [KleeRuns -> {"none", "running", "exited"}]
  /\ klee \in [KleeRuns -> KleeCall] /\ harvest \in [KleeRuns -> SUBSET Nat]

\* Tests have numbers of their own, and none is older than the call it is for.
TestsNumbered ==
  /\ \A t \in made : t.n < Cardinality(made) /\ klee[t.by].started <= t.at
  /\ \A t, u \in made : t.n = u.n => t = u
  /\ \A s \in KleeRuns :
       /\ klee[s].started <= now
       /\ klee[s].stage = "idle" => box[s] = "none" /\ \A t \in made : t.by # s
  /\ \A t \in made : t.at <= now

\* A call without blockers that has got this far has seen its container go.
Settled(s) == klee[s].ok /\ klee[s].stage \in {"list", "read", "reported"}

BoxesGone ==
  \A s \in KleeRuns :
    /\ Settled(s) => box[s] = "none"
    /\ klee[s].stage = "cleanup" /\ klee[s].ok => box[s] = "exited"
    /\ box[s] = "exited" \/ Settled(s) => \A t \in made : t.by = s => t.whole

\* A call whose report has nothing to own up to.
Clean(k) == k.ok /\ ~k.crowded /\ ~k.blocked /\ ~k.rejected

\* What such a call has not taken it has yet to read, until the bytes are spent.
TestsTaken ==
  \A s \in KleeRuns :
    /\ klee[s].stage = "reported" /\ ExtractedAll(s) => klee[s].todo = {}
    /\ klee[s].stage \in {"read", "reported"} /\ Clean(klee[s]) =>
         \A t \in made : t.by = s => t.n \in klee[s].todo \cup harvest[s]

KleeInv == KleeTypes /\ TestsNumbered /\ BoxesGone /\ TestsTaken

\* A call goes on to k, and its container to b; the tests and the clock stay.
CallGoesTo(s, k, b) ==
  /\ k \in KleeCall /\ b \in {"none", "running", "exited"}
  /\ klee' = [klee EXCEPT ![s] = k] /\ box' = [box EXCEPT ![s] = b]
  /\ UNCHANGED <<made, now, harvest>>

Fits(s, k, b) ==
  /\ k.started \in {klee[s].started, 0} \/ (klee[s].stage = "idle" /\ k.started = now)
  /\ k.stage # "idle"
  /\ k.stage = "reported" /\ ~k.blocked /\ ~k.spent => k.todo = {}
  /\ k.ok /\ k.stage \in {"list", "read", "reported"} =>
       b = "none" /\ (Settled(s) \/ (klee[s].stage = "cleanup" /\ klee[s].ok))
  /\ k.stage = "cleanup" /\ k.ok => b = "exited"
  /\ b = "exited" => box[s] = "exited"
  /\ k.stage \in {"read", "reported"} /\ Clean(k) =>
       \A t \in made : t.by = s => t.n \in k.todo \cup harvest[s]

LEMMA CallKeeps ==
  ASSUME KleeInv, NEW s \in KleeRuns, NEW k, NEW b, CallGoesTo(s, k, b), Fits(s, k, b)
  PROVE  KleeInv'
<1> USE DEF KleeInv, CallGoesTo, Fits
<1>1. \A c \in KleeRuns : /\ klee'[c] = IF c = s THEN k ELSE klee[c]
                         /\ box'[c] = IF c = s THEN b ELSE box[c]
  BY DEF KleeTypes
<1>2. KleeTypes'
  BY DEF KleeTypes
<1>3. TestsNumbered'
  <2>1. \A t \in made : t.by \in KleeRuns /\ t.at \in Nat
    BY DEF KleeTypes, Test
  <2>2. now \in Nat
    BY DEF KleeTypes
  <2>3. \A t \in made : klee'[t.by].started <= t.at
    BY <1>1, <2>1 DEF TestsNumbered
  <2>4. \A c \in KleeRuns : klee'[c].started <= now
    BY <1>1, <2>2 DEF TestsNumbered
  <2> QED BY <1>1, <2>3, <2>4 DEF TestsNumbered
<1>4. BoxesGone'
  <2> SUFFICES ASSUME NEW c \in KleeRuns
               PROVE  /\ Settled(c)' => box'[c] = "none"
                      /\ klee'[c].stage = "cleanup" /\ klee'[c].ok => box'[c] = "exited"
                      /\ box'[c] = "exited" \/ Settled(c)' => \A t \in made : t.by = c => t.whole
    BY DEF BoxesGone
  <2> QED BY <1>1 DEF BoxesGone, Settled
<1>5. TestsTaken'
  <2> SUFFICES ASSUME NEW c \in KleeRuns
               PROVE  /\ klee'[c].stage = "reported" /\ ExtractedAll(c)' => klee'[c].todo = {}
                      /\ klee'[c].stage \in {"read", "reported"} /\ Clean(klee'[c]) =>
                           \A t \in made : t.by = c => t.n \in klee'[c].todo \cup harvest[c]
    BY DEF TestsTaken, Clean
  <2>1. CASE c = s
    BY <1>1, <2>1 DEF ExtractedAll
  <2>2. CASE c # s
    BY <1>1, <2>2 DEF TestsTaken, ExtractedAll
  <2> QED BY <2>1, <2>2
<1> QED BY <1>2, <1>3, <1>4, <1>5

LEMMA CallsKeep ==
  ASSUME KleeInv, NEW s \in KleeRuns,
         \/ StartKlee(s) \/ ClientReturns(s) \/ ClientEnded(s) \/ RemoveBox(s)
         \/ RemoveFails(s) \/ ListFails(s) \/ Report(s) \/ CallerDies(s)
  PROVE  KleeInv'
<1> DEFINE c == klee[s]
<1>0. /\ box = [box EXCEPT ![s] = box[s]] /\ box[s] \in {"none", "running", "exited"}
      /\ klee[s].stage = "cleanup" /\ klee[s].ok => box[s] = "exited"
  BY DEF KleeInv, KleeTypes, BoxesGone
<1>1. c \in KleeCall /\ now \in Nat /\ box[s] \in {"none", "running", "exited"}
  BY DEF KleeInv, KleeTypes
<1>2. NoKlee \in KleeCall
  BY DEF NoKlee, KleeCall
<1>3. CASE StartKlee(s)
  <2> DEFINE k == [NoKlee EXCEPT !.stage = "client", !.started = now]
  <2>1. k \in KleeCall /\ k.stage = "client" /\ k.started = now
    BY <1>1 DEF NoKlee, KleeCall
  <2>2. klee' = [klee EXCEPT ![s] = k] /\ klee[s].stage = "idle" /\ box' = [box EXCEPT ![s] = "running"]
    BY <1>3 DEF StartKlee
  <2> HIDE DEF k
  <2>8. CallGoesTo(s, k, "running")
    BY <1>0, <1>3, <2>1, <2>2 DEF CallGoesTo, StartKlee
  <2>9. Fits(s, k, "running")
    BY <1>0, <1>3, <2>1, <2>2 DEF Fits, StartKlee, Settled
  <2> QED BY <2>8, <2>9, CallKeeps
<1>4. CASE ClientReturns(s)
  <2>1. PICK code \in BOOLEAN : klee' = [klee EXCEPT ![s].stage = "cleanup", ![s].ok = code]
    BY <1>4 DEF ClientReturns
  <2> DEFINE k == [c EXCEPT !.stage = "cleanup", !.ok = code]
  <2>2. k \in KleeCall /\ k.stage = "cleanup" /\ k.started = c.started
    BY <1>1 DEF KleeCall
  <2>3. klee' = [klee EXCEPT ![s] = k] /\ box[s] = "exited"
    BY <1>4, <2>1 DEF ClientReturns
  <2> HIDE DEF k
  <2>8. CallGoesTo(s, k, box[s])
    BY <1>0, <1>4, <2>2, <2>3 DEF CallGoesTo, ClientReturns
  <2>9. Fits(s, k, box[s])
    BY <1>0, <1>4, <2>2, <2>3 DEF Fits, ClientReturns, Settled
  <2> QED BY <2>8, <2>9, CallKeeps
<1>5. CASE ClientEnded(s)
  <2> DEFINE k == [c EXCEPT !.stage = "cleanup", !.ok = FALSE]
  <2>1. k \in KleeCall /\ k.stage = "cleanup" /\ ~k.ok /\ k.started = c.started
    BY <1>1 DEF KleeCall
  <2>2. klee' = [klee EXCEPT ![s] = k]
    BY <1>5 DEF ClientEnded
  <2> HIDE DEF k
  <2>8. CallGoesTo(s, k, box[s])
    BY <1>0, <1>1, <1>5, <2>1, <2>2 DEF CallGoesTo, ClientEnded
  <2>9. Fits(s, k, box[s])
    BY <1>0, <1>1, <1>5, <2>1, <2>2 DEF Fits, ClientEnded, Settled
  <2> QED BY <2>8, <2>9, CallKeeps
<1>6. CASE RemoveBox(s)
  <2> DEFINE k == [c EXCEPT !.stage = "list"]
  <2>1. k \in KleeCall /\ k.stage = "list" /\ k.ok = c.ok /\ k.started = c.started
    BY <1>1 DEF KleeCall
  <2>2. klee' = [klee EXCEPT ![s] = k] /\ c.stage = "cleanup" /\ box' = [box EXCEPT ![s] = "none"]
    BY <1>6 DEF RemoveBox, Goes
  <2> HIDE DEF k
  <2>8. CallGoesTo(s, k, "none")
    BY <1>0, <1>6, <2>1, <2>2 DEF CallGoesTo, RemoveBox
  <2>9. Fits(s, k, "none")
    BY <1>0, <1>6, <2>1, <2>2 DEF Fits, RemoveBox, Settled
  <2> QED BY <2>8, <2>9, CallKeeps
<1>7. CASE RemoveFails(s)
  <2> DEFINE k == [c EXCEPT !.stage = "list", !.ok = FALSE]
  <2>1. k \in KleeCall /\ k.stage = "list" /\ ~k.ok /\ k.started = c.started
    BY <1>1 DEF KleeCall
  <2>2. klee' = [klee EXCEPT ![s] = k]
    BY <1>7 DEF RemoveFails
  <2> HIDE DEF k
  <2>8. CallGoesTo(s, k, box[s])
    BY <1>0, <1>1, <1>7, <2>1, <2>2 DEF CallGoesTo, RemoveFails
  <2>9. Fits(s, k, box[s])
    BY <1>0, <1>1, <1>7, <2>1, <2>2 DEF Fits, RemoveFails, Settled
  <2> QED BY <2>8, <2>9, CallKeeps
<1>8. CASE Report(s)
  <2> DEFINE k == [c EXCEPT !.stage = "reported"]
  <2>1. /\ k \in KleeCall /\ k.stage = "reported" /\ k.ok = c.ok /\ k.started = c.started
        /\ k.todo = c.todo /\ k.spent = c.spent /\ Clean(k) = Clean(c)
    BY <1>1 DEF KleeCall, Clean
  <2>2. /\ klee' = [klee EXCEPT ![s] = k] /\ c.stage = "read"
        /\ c.todo = {} \/ c.spent
    BY <1>8 DEF Report, Goes
  <2>3. /\ k.ok => Settled(s) /\ box[s] = "none"
        /\ Clean(k) => \A t \in made : t.by = s => t.n \in k.todo \cup harvest[s]
    BY <2>1, <2>2 DEF KleeInv, BoxesGone, Settled, TestsTaken
  <2>4. ~k.spent => k.todo = {}
    BY <2>1, <2>2
  <2> HIDE DEF k
  <2>8. CallGoesTo(s, k, box[s])
    BY <1>0, <1>1, <1>8, <2>1, <2>2, <2>3 DEF CallGoesTo, Report
  <2>9. Fits(s, k, box[s])
    BY <1>0, <1>1, <1>8, <2>1, <2>2, <2>3, <2>4 DEF Fits, Report, Settled
  <2> QED BY <2>8, <2>9, CallKeeps
<1>9. CASE CallerDies(s)
  <2> DEFINE k == [NoKlee EXCEPT !.stage = "dead"]
  <2>1. k \in KleeCall /\ k.stage = "dead" /\ k.started = 0
    BY DEF NoKlee, KleeCall
  <2>2. klee' = [klee EXCEPT ![s] = k]
    BY <1>9 DEF CallerDies
  <2> HIDE DEF k
  <2>8. CallGoesTo(s, k, box[s])
    BY <1>0, <1>1, <1>9, <2>1, <2>2 DEF CallGoesTo, CallerDies
  <2>9. Fits(s, k, box[s])
    BY <1>0, <1>1, <1>9, <2>1, <2>2 DEF Fits, CallerDies, Settled
  <2> QED BY <2>8, <2>9, CallKeeps
<1>10. CASE ListFails(s)
  <2> DEFINE k == [c EXCEPT !.stage = "reported", !.blocked = TRUE]
  <2>1. /\ k \in KleeCall /\ k.stage = "reported" /\ k.blocked /\ k.ok = c.ok
        /\ k.started = c.started
    BY <1>1 DEF KleeCall
  <2>2. klee' = [klee EXCEPT ![s] = k] /\ c.stage = "list"
    BY <1>10 DEF ListFails
  <2>3. k.ok => Settled(s) /\ box[s] = "none"
    BY <2>1, <2>2 DEF KleeInv, BoxesGone, Settled
  <2> HIDE DEF k
  <2>8. CallGoesTo(s, k, box[s])
    BY <1>0, <1>1, <1>10, <2>1, <2>2, <2>3 DEF CallGoesTo, ListFails
  <2>9. Fits(s, k, box[s])
    BY <1>0, <1>1, <1>10, <2>1, <2>2, <2>3 DEF Fits, ListFails, Settled, Clean
  <2> QED BY <2>8, <2>9, CallKeeps
<1> QED BY <1>3, <1>4, <1>5, <1>6, <1>7, <1>8, <1>9, <1>10

\* As long as no more tests are there than are looked at, all of them are.
LEMMA ListKeeps ==
  ASSUME KleeInv, NEW s \in KleeRuns, ListTests(s)
  PROVE  KleeInv'
<1>1. PICK some \in SUBSET made :
        /\ Cardinality(some) = IF Cardinality(made) < MaxTests THEN Cardinality(made) ELSE MaxTests
        /\ klee' = [klee EXCEPT ![s].stage = "read", ![s].todo = {t.n : t \in some},
                                ![s].crowded = Cardinality(made) > MaxTests]
  BY DEF ListTests
<1> DEFINE listedTests == {t.n : t \in some}
           over == Cardinality(made) > MaxTests
           k == [klee[s] EXCEPT !.stage = "read", !.todo = listedTests, !.crowded = over]
<1>2. /\ klee[s] \in KleeCall /\ box[s] \in {"none", "running", "exited"}
      /\ listedTests \in SUBSET Nat /\ over \in BOOLEAN /\ IsFiniteSet(made)
  BY DEF KleeInv, KleeTypes, Test
<1>3. ~over => some = made
  <2>1. Cardinality(made) \in Nat /\ MaxTests \in Nat
    BY <1>2, FS_CardinalityType, KleeAssumption
  <2>2. Cardinality(some) = IF Cardinality(made) < MaxTests THEN Cardinality(made) ELSE MaxTests
    BY <1>1
  <2>3. ~over => Cardinality(some) = Cardinality(made)
    BY <2>1, <2>2
  <2> QED BY <1>2, <2>3, FS_Subset
<1>4. ~over => \A t \in made : t.n \in listedTests
  BY <1>3
<1> HIDE DEF listedTests, over
<1>5. /\ k \in KleeCall /\ k.stage = "read" /\ k.todo = listedTests /\ k.crowded = over
      /\ k.ok = klee[s].ok /\ k.started = klee[s].started
  BY <1>2 DEF KleeCall
<1>6. klee' = [klee EXCEPT ![s] = k] /\ klee[s].stage = "list"
  BY <1>1 DEF ListTests, listedTests, over
<1> HIDE DEF k
<1>7. k.ok => Settled(s) /\ box[s] = "none"
  BY <1>5, <1>6 DEF Settled, KleeInv, BoxesGone
<1>8. CallGoesTo(s, k, box[s])
  <2>1. box = [box EXCEPT ![s] = box[s]]
    BY DEF KleeInv, KleeTypes
  <2> QED BY <1>2, <1>5, <1>6, <2>1 DEF CallGoesTo, ListTests
<1>9. Fits(s, k, box[s])
  BY <1>4, <1>5, <1>6, <1>7 DEF Fits, Clean
<1> QED BY <1>8, <1>9, CallKeeps

LEMMA ReadKeeps ==
  ASSUME KleeInv, NEW s \in KleeRuns, NEW t \in made, ReadTest(s, t)
  PROVE  KleeInv'
<1> USE DEF KleeInv
<1>0. PICK result \in {"taken", "old", "rejected"}, spent \in BOOLEAN :
        /\ result = "taken" => Readable(t) /\ t.at >= Cutoff(s)
        /\ result = "old" => t.at < Cutoff(s)
        /\ klee' = [klee EXCEPT ![s].todo = @ \ {t.n}, ![s].spent = spent,
                                ![s].rejected = @ \/ result = "rejected"]
        /\ harvest' = IF result = "taken" THEN [harvest EXCEPT ![s] = @ \cup {t.n}] ELSE harvest
  BY DEF ReadTest
<1> DEFINE refused == result = "rejected"
           k == [klee[s] EXCEPT !.todo = @ \ {t.n}, !.spent = spent,
                                !.rejected = @ \/ refused]
<1>1. klee' = [klee EXCEPT ![s] = k] /\ klee[s].stage = "read" /\ UNCHANGED <<made, now, box>>
  BY <1>0 DEF ReadTest
<1>2. klee[s] \in KleeCall /\ t \in Test
  BY DEF KleeTypes
<1>3. /\ k \in KleeCall /\ k.stage = "read" /\ k.todo = klee[s].todo \ {t.n}
      /\ k.ok = klee[s].ok /\ k.started = klee[s].started
      /\ Clean(k) => Clean(klee[s]) /\ result # "rejected"
  <2>1. refused \in BOOLEAN
    OBVIOUS
  <2> HIDE DEF refused
  <2>2. /\ k \in KleeCall /\ k.stage = "read" /\ k.todo = klee[s].todo \ {t.n}
        /\ k.ok = klee[s].ok /\ k.started = klee[s].started
        /\ k.crowded = klee[s].crowded /\ k.blocked = klee[s].blocked
        /\ k.rejected = (klee[s].rejected \/ refused)
    <3>1. /\ (klee[s].rejected \/ refused) \in BOOLEAN
          /\ klee[s].todo \ {t.n} \in SUBSET Nat
      BY <1>2, <2>1 DEF KleeCall
    <3> QED BY <1>1, <1>2, <3>1 DEF KleeCall
  <2> QED BY <2>2 DEF Clean, refused
<1> HIDE DEF k
<1>4. \A c \in KleeRuns : klee'[c] = IF c = s THEN k ELSE klee[c]
  BY <1>1 DEF KleeTypes
<1>5. /\ harvest' \in [KleeRuns -> SUBSET Nat]
      /\ \A c \in KleeRuns : harvest[c] \subseteq harvest'[c]
  BY <1>0, <1>2 DEF KleeTypes, Test
<1>6. KleeTypes'
  BY <1>1, <1>3, <1>5 DEF KleeTypes
<1>7. TestsNumbered'
  <2>1. \A c \in KleeRuns : klee'[c].started = klee[c].started /\ klee'[c].stage = klee[c].stage
    BY <1>1, <1>3, <1>4
  <2>2. \A u \in made : u.by \in KleeRuns
    BY DEF KleeTypes, Test
  <2> QED BY <1>1, <2>1, <2>2 DEF TestsNumbered
<1>8. BoxesGone'
  <2>1. \A c \in KleeRuns : klee'[c].ok = klee[c].ok /\ klee'[c].stage = klee[c].stage
    BY <1>1, <1>3, <1>4
  <2> QED BY <1>1, <2>1 DEF BoxesGone, Settled
<1>9. t.by = s /\ Clean(k) => t.n \in harvest'[s]
  <2> SUFFICES ASSUME t.by = s, Clean(k) PROVE t.n \in harvest'[s]
    OBVIOUS
  <2>1. ~(t.at < Cutoff(s))
    <3>1. t.at \in Nat /\ klee[s].started \in Nat /\ Slack \in Nat /\ klee[s].started <= t.at
      BY <1>2, KleeAssumption DEF TestsNumbered, Test, KleeCall
    <3> QED BY <3>1 DEF Cutoff
  <2>2. result = "taken"
    BY <1>0, <1>3, <2>1
  <2> QED BY <1>0, <2>2 DEF KleeTypes
<1>10. TestsTaken'
  <2> SUFFICES ASSUME NEW c \in KleeRuns
               PROVE  /\ klee'[c].stage = "reported" /\ ExtractedAll(c)' => klee'[c].todo = {}
                      /\ klee'[c].stage \in {"read", "reported"} /\ Clean(klee'[c]) =>
                           \A u \in made : u.by = c => u.n \in klee'[c].todo \cup harvest'[c]
    BY <1>1 DEF TestsTaken, Clean
  <2>1. CASE c # s
    <3>1. klee'[c] = klee[c] /\ harvest[c] \subseteq harvest'[c]
      BY <1>4, <1>5, <2>1
    <3> QED BY <3>1 DEF TestsTaken, ExtractedAll
  <2>2. CASE c = s
    <3> SUFFICES ASSUME Clean(k), NEW u \in made, u.by = s
                 PROVE  u.n \in klee'[s].todo \cup harvest'[s]
      BY <1>3, <1>4, <2>2
    <3>1. u.n \in klee[s].todo \cup harvest[s]
      BY <1>1, <1>3 DEF TestsTaken
    <3>2. CASE u.n = t.n
      BY <1>9, <3>2 DEF TestsNumbered
    <3>3. CASE u.n # t.n
      BY <1>3, <1>4, <1>5, <3>1, <3>3
    <3> QED BY <3>2, <3>3
  <2> QED BY <2>1, <2>2
<1> QED BY <1>6, <1>7, <1>8, <1>10

\* What a container makes leaves the calls alone.
LEMMA TestsKeep ==
  ASSUME KleeInv, NEW s \in KleeRuns, NEW t \in Test, t.by = s, box[s] = "running",
         UNCHANGED <<now, box, klee, harvest>>, t.at = now,
         \/ made' = made \cup {t} /\ t.n = Cardinality(made)
         \/ \E u \in made : u.n = t.n /\ u.by = s /\ ~u.whole /\ t.whole
                          /\ made' = (made \ {u}) \cup {t}
  PROVE  KleeInv'
<1> USE DEF KleeInv
<1>1. IsFiniteSet(made) /\ Cardinality(made) \in Nat /\ made \subseteq Test
  BY FS_CardinalityType DEF KleeTypes
<1>2. /\ made' \subseteq Test /\ IsFiniteSet(made')
      /\ \A u, v \in made' : u.n = v.n => u = v
      /\ \A u \in made' : u.n < Cardinality(made')
      /\ \A u \in made' : u = t \/ u \in made
      /\ t.n \in {u.n : u \in made} \/ t.n = Cardinality(made)
  <2>1. CASE made' = made \cup {t} /\ t.n = Cardinality(made)
    <3>1. \A u \in made : u.n \in Nat /\ u.n < Cardinality(made)
      BY <1>1 DEF TestsNumbered, Test
    <3>2. t \notin made
      BY <2>1, <3>1
    <3>3. IsFiniteSet(made') /\ Cardinality(made') = Cardinality(made) + 1
      BY <1>1, <2>1, <3>2, FS_AddElement
    <3>4. \A u \in made' : u.n < Cardinality(made')
      BY <1>1, <2>1, <3>1, <3>3
    <3>5. \A u, v \in made' : u.n = v.n => u = v
      BY <2>1, <3>1 DEF TestsNumbered
    <3> QED BY <1>1, <2>1, <3>3, <3>4, <3>5
  <2>2. ASSUME NEW u \in made, u.n = t.n, ~u.whole, t.whole, made' = (made \ {u}) \cup {t}
        PROVE  /\ made' \subseteq Test /\ IsFiniteSet(made')
               /\ \A x, v \in made' : x.n = v.n => x = v
               /\ \A x \in made' : x.n < Cardinality(made')
               /\ \A x \in made' : x = t \/ x \in made
               /\ t.n \in {x.n : x \in made}
    <3>1. t \notin made
      BY <2>2 DEF TestsNumbered
    <3>2. IsFiniteSet(made \ {u}) /\ Cardinality(made \ {u}) = Cardinality(made) - 1
      BY <1>1, FS_RemoveElement
    <3>3. IsFiniteSet(made') /\ Cardinality(made') = Cardinality(made)
      BY <1>1, <2>2, <3>1, <3>2, FS_AddElement
    <3>4. \A x \in made' : x.n < Cardinality(made')
      BY <2>2, <3>3 DEF TestsNumbered
    <3>5. \A x, v \in made' : x.n = v.n => x = v
      BY <2>2 DEF TestsNumbered
    <3> QED BY <1>1, <2>2, <3>3, <3>4, <3>5
  <2> QED BY <2>1, <2>2
<1>3. \A u \in made' \ {t} : u \in made
  BY <1>2
<1>4. klee[s].stage # "idle" /\ ~Settled(s) /\ ~(klee[s].stage = "cleanup" /\ klee[s].ok)
      /\ klee[s].started <= t.at
  BY DEF TestsNumbered, BoxesGone
<1>5. KleeTypes'
  BY <1>2 DEF KleeTypes
<1>6. TestsNumbered'
  <2>1. \A u \in made' : u.n < Cardinality(made') /\ klee[u.by].started <= u.at /\ u.at <= now
    <3>1. now <= now
      BY DEF KleeTypes
    <3> QED BY <1>2, <1>4, <3>1 DEF TestsNumbered
  <2>2. \A c \in KleeRuns : klee[c].stage = "idle" => \A u \in made' : u.by # c
    BY <1>2, <1>4 DEF TestsNumbered
  <2> QED BY <1>2, <2>1, <2>2 DEF TestsNumbered
<1>7. BoxesGone'
  BY <1>2, <1>4 DEF BoxesGone, Settled
<1>8. TestsTaken'
  BY <1>2, <1>4 DEF TestsTaken, Settled, ExtractedAll, Clean
<1> QED BY <1>5, <1>6, <1>7, <1>8

LEMMA KleeInvStep == KleeInv /\ [KleeNext]_kleeVars => KleeInv'
<1> SUFFICES ASSUME KleeInv, [KleeNext]_kleeVars PROVE KleeInv'
  OBVIOUS
<1> USE DEF KleeInv
<1>1. ASSUME NEW s \in KleeRuns, OpenTest(s) PROVE KleeInv'
  <2> DEFINE t == [n |-> Cardinality(made), by |-> s, at |-> now, whole |-> FALSE]
  <2>1. t \in Test
    BY FS_CardinalityType DEF KleeTypes, Test
  <2>2. t.by = s /\ t.at = now /\ made' = made \cup {t} /\ t.n = Cardinality(made)
    BY <1>1 DEF OpenTest
  <2> HIDE DEF t
  <2> QED BY <1>1, <2>1, <2>2, TestsKeep DEF OpenTest
<1>2. ASSUME NEW u \in made, FinishTest(u) PROVE KleeInv'
  <2> DEFINE t == [u EXCEPT !.whole = TRUE, !.at = now]
  <2>1. u \in Test
    BY DEF KleeTypes
  <2>2. t \in Test /\ t.by = u.by /\ t.at = now /\ t.n = u.n /\ t.whole
    BY <2>1 DEF KleeTypes, Test
  <2>3. made' = (made \ {u}) \cup {t} /\ ~u.whole
    BY <1>2 DEF FinishTest
  <2> HIDE DEF t
  <2> QED BY <1>2, <2>1, <2>2, <2>3, TestsKeep DEF FinishTest, Test
<1>3. ASSUME NEW s \in KleeRuns, BoxExits(s) PROVE KleeInv'
  <2>1. /\ box[s] = "running" /\ UNCHANGED <<made, now, klee, harvest>>
        /\ box' = [box EXCEPT ![s] = "exited"] /\ \A t \in made : t.by = s => t.whole
    BY <1>3 DEF BoxExits
  <2>2. box' \in [KleeRuns -> {"none", "running", "exited"}]
        /\ \A c \in KleeRuns : box'[c] = IF c = s THEN "exited" ELSE box[c]
    BY <2>1 DEF KleeTypes
  <2>3. KleeTypes' /\ TestsTaken'
    BY <2>1, <2>2 DEF KleeTypes, TestsTaken, ExtractedAll
  <2>4. TestsNumbered' /\ BoxesGone'
    BY <2>1, <2>2 DEF TestsNumbered, BoxesGone, Settled
  <2> QED BY <2>3, <2>4
<1>4. CASE Tick
  <2>1. now' \in Nat /\ now <= now' /\ UNCHANGED <<made, box, klee, harvest>>
    BY <1>4 DEF Tick, KleeTypes
  <2>2. KleeTypes' /\ BoxesGone' /\ TestsTaken'
    BY <2>1 DEF KleeTypes, BoxesGone, Settled, TestsTaken, ExtractedAll
  <2>3. TestsNumbered'
    BY <2>1 DEF TestsNumbered, KleeTypes, Test, KleeCall
  <2> QED BY <2>2, <2>3
<1>5. CASE UNCHANGED kleeVars
  BY <1>5 DEF kleeVars, KleeTypes, TestsNumbered, BoxesGone, Settled, TestsTaken, ExtractedAll
<1> QED BY <1>1, <1>2, <1>3, <1>4, <1>5, CallsKeep, ListKeeps, ReadKeeps DEF KleeNext

\* A symbolic run that is reported without blockers has left no container, and
\* has taken every test its container made, unless its report counts rejected ones
\* or the bytes at their limit, or names a blocker of the extraction, or the
\* directory held more tests than are looked at (_run_klee_ng).
THEOREM ReportedTestsHarvested == KleeSpec => []ReportedIsHarvested
<1>1. KleeInit => KleeInv
  <2> SUFFICES ASSUME KleeInit PROVE KleeInv
    OBVIOUS
  <2>1. Slack \in Nat /\ IsFiniteSet({})
    BY KleeAssumption, FS_EmptySet
  <2> QED BY <2>1
          DEF KleeInit, KleeInv, KleeTypes, KleeCall, NoKlee, TestsNumbered, BoxesGone, Settled,
              TestsTaken
<1>2. KleeInv => ReportedIsHarvested
  <2> SUFFICES ASSUME KleeInv, NEW s \in KleeRuns, klee[s].stage = "reported", klee[s].ok
               PROVE  /\ box[s] = "none"
                      /\ ExtractedAll(s) /\ ~klee[s].crowded =>
                           \A t \in made : t.by = s => t.n \in harvest[s]
    BY DEF ReportedIsHarvested
  <2>1. box[s] = "none"
    BY DEF KleeInv, BoxesGone, Settled
  <2>2. ExtractedAll(s) => klee[s].todo = {}
    BY DEF KleeInv, TestsTaken
  <2>3. ExtractedAll(s) /\ ~klee[s].crowded => Clean(klee[s])
    BY DEF ExtractedAll, Clean
  <2>4. Clean(klee[s]) => \A t \in made : t.by = s => t.n \in klee[s].todo \cup harvest[s]
    BY DEF KleeInv, TestsTaken
  <2> QED BY <2>1, <2>2, <2>3, <2>4
<1> QED BY <1>1, <1>2, KleeInvStep, PTL DEF KleeSpec

-----------------------------------------------------------------------------
(* Owned builds *)

BuildStages == {"idle", "copy", "image", "clean", "make", "select", "next", "replay"}

Build ==
  [stage : BuildStages, copied : Nat, ok : BOOLEAN, dir : Dirs, fuzzers : SUBSET Harnesses,
   todo : SUBSET Harnesses, case : SUBSET Harnesses, reps : Nat, bad : BOOLEAN]

OwnedTypes ==
  /\ reference \in Nat /\ owned \subseteq Nat /\ together \subseteq BuildCalls
  /\ build \in [BuildCalls -> Build]
  /\ DOMAIN outs = Dirs /\ \A d \in Dirs : DOMAIN outs[d] \subseteq Harnesses

\* A call that ran beside no other is the only one at work.
IsAlone ==
  \A r \in BuildCalls \ together :
    build[r].stage # "idle" => \A q \in BuildCalls \ {r} : build[q].stage = "idle"

\* Its run holds the sources it copied.
OwnSource ==
  \A r \in BuildCalls \ together :
    build[r].stage \in {"image", "clean", "make", "select", "next", "replay"}
    => owned = {build[r].copied}

OfThisBuild(r) == [by |-> r, version |-> build[r].copied]

\* While its build is under way, and after it succeeded, the directory holds what
\* it has made.
OwnFuzzers ==
  \A r \in BuildCalls \ together :
    build[r].stage = "make" \/ (build[r].stage \in {"select", "next", "replay"} /\ build[r].ok)
    => \A h \in DOMAIN outs["external"] : outs["external"][h] = OfThisBuild(r)

\* What it selected is still there.
KeptFuzzers ==
  \A r \in BuildCalls \ together :
    /\ build[r].stage \in {"next", "replay"} /\ build[r].dir = "external"
         => build[r].fuzzers \subseteq DOMAIN outs["external"]
    /\ build[r].stage = "replay" => build[r].case \subseteq build[r].fuzzers

OwnedInv == OwnedTypes /\ IsAlone /\ OwnSource /\ OwnFuzzers /\ KeptFuzzers

\* What a step of r may leave alone for the others to keep what they have.
OnlyThisCall(r) ==
  /\ together' = together /\ build[r].stage # "idle"
  /\ build' \in [BuildCalls -> Build]
  /\ \A q \in BuildCalls \ {r} : build'[q] = build[q]

Directories ==
  /\ DOMAIN outs = Dirs /\ \A d \in Dirs : DOMAIN outs[d] \subseteq Harnesses

\* r itself has what the invariant says of a call that ran beside no other.
HasItsOwn(r) ==
  /\ build[r].stage \in {"image", "clean", "make", "select", "next", "replay"}
       => owned = {build[r].copied}
  /\ build[r].stage = "make" \/ (build[r].stage \in {"select", "next", "replay"} /\ build[r].ok)
       => \A h \in DOMAIN outs["external"] : outs["external"][h] = OfThisBuild(r)
  /\ build[r].stage \in {"next", "replay"} /\ build[r].dir = "external"
       => build[r].fuzzers \subseteq DOMAIN outs["external"]
  /\ build[r].stage = "replay" => build[r].case \subseteq build[r].fuzzers

LEMMA HasOfOwned ==
  ASSUME OwnedInv, NEW r \in BuildCalls \ together
  PROVE  HasItsOwn(r)
  BY DEF OwnedInv, OwnSource, OwnFuzzers, KeptFuzzers, HasItsOwn

LEMMA StepOfOneCall ==
  ASSUME OwnedInv, NEW r \in BuildCalls, OnlyThisCall(r),
         reference' \in Nat /\ owned' \subseteq Nat, Directories',
         r \notin together => HasItsOwn(r)'
  PROVE  OwnedInv'
<1>1. ASSUME NEW q \in BuildCalls \ together, q # r
      PROVE  build'[q] = build[q] /\ build[q].stage = "idle"
  BY <1>1 DEF OwnedInv, IsAlone, OnlyThisCall
<1>2. OwnedTypes'
  BY DEF OwnedInv, OwnedTypes, OnlyThisCall, Directories
<1>3. IsAlone'
  <2>1. r \notin together => \A q \in BuildCalls \ {r} : build'[q].stage = "idle"
    BY DEF OwnedInv, IsAlone, OnlyThisCall
  <2> QED BY <1>1, <2>1 DEF IsAlone, OnlyThisCall
<1>4. OwnSource'
  BY <1>1 DEF OwnSource, OnlyThisCall, HasItsOwn
<1>5. OwnFuzzers'
  BY <1>1 DEF OwnFuzzers, OnlyThisCall, HasItsOwn
<1>6. KeptFuzzers'
  BY <1>1 DEF KeptFuzzers, OnlyThisCall, HasItsOwn
<1> QED BY <1>2, <1>3, <1>4, <1>5, <1>6 DEF OwnedInv

\* The steps of r that leave the directories, the sources and its own copy alone.
LEMMA StepInPlace ==
  ASSUME OwnedInv, NEW r \in BuildCalls, OnlyThisCall(r),
         UNCHANGED <<reference, owned, outs>>,
         r \notin together => HasItsOwn(r)'
  PROVE  OwnedInv'
<1>1. Directories' /\ reference' \in Nat /\ owned' \subseteq Nat
  BY DEF OwnedInv, OwnedTypes, Directories
<1> QED BY <1>1, StepOfOneCall

LEMMA OwnedInvStep == OwnedInv /\ [OwnedNext]_ownedVars => OwnedInv'
<1> SUFFICES ASSUME OwnedInv, [OwnedNext]_ownedVars PROVE OwnedInv'
  OBVIOUS
<1>0. OwnedTypes /\ build \in [BuildCalls -> Build] /\ Directories /\ reference \in Nat /\ owned \subseteq Nat
  BY DEF OwnedInv, OwnedTypes, Directories
<1>a. "external" \in Dirs /\ "plain" \in Dirs /\ "idle" \in BuildStages /\ "copy" \in BuildStages
  BY DEF Dirs, BuildStages
<1>b. NoBuild \in Build /\ NoBuild.stage = "idle" /\ [NoBuild EXCEPT !.stage = "copy"] \in Build
      /\ [NoBuild EXCEPT !.stage = "copy"].stage = "copy"
  BY <1>a DEF NoBuild, Build
<1>1. ASSUME NEW r \in BuildCalls, StartBuild(r) PROVE OwnedInv'
  <2>1. /\ build' = [build EXCEPT ![r] = [NoBuild EXCEPT !.stage = "copy"]]
        /\ UNCHANGED <<reference, owned, outs>> /\ build[r].stage = "idle"
        /\ together' = IF Building = {} THEN together \ {r} ELSE together \cup Building \cup {r}
    BY <1>1 DEF StartBuild
  <2>2. build'[r].stage = "copy" /\ \A q \in BuildCalls \ {r} : build'[q] = build[q]
    BY <1>0, <1>b, <2>1
  <2>3. \A q \in BuildCalls \ together' : build'[q].stage \in {"idle", "copy"}
                                         /\ (q # r => build'[q].stage = "idle")
    BY <2>1, <2>2 DEF Building
  <2>4. build' \in [BuildCalls -> Build] /\ together' \subseteq BuildCalls
    BY <1>0, <1>b, <2>1 DEF OwnedTypes, Building
  <2>5. r \notin together' => \A q \in BuildCalls \ {r} : build'[q].stage = "idle"
    BY <2>1, <2>2 DEF Building
  <2>6. OwnedTypes'
    BY <2>1, <2>4, <1>0 DEF OwnedTypes
  <2>7. IsAlone'
    BY <2>3, <2>5 DEF IsAlone
  <2>8. OwnSource' /\ OwnFuzzers' /\ KeptFuzzers'
    BY <2>3 DEF OwnSource, OwnFuzzers, KeptFuzzers
  <2> QED BY <2>6, <2>7, <2>8 DEF OwnedInv
<1>2. ASSUME NEW r \in BuildCalls, PrepareSource(r) PROVE OwnedInv'
  <2>1. /\ build' = [build EXCEPT ![r].stage = "image", ![r].copied = reference]
        /\ owned' = {reference} /\ UNCHANGED <<reference, outs, together>> /\ build[r].stage = "copy"
    BY <1>2 DEF PrepareSource
  <2>a. build' = [build EXCEPT ![r] = [build[r] EXCEPT !.stage = "image", !.copied = reference]]
    BY <1>0, <2>1
  <2>2. build'[r].stage = "image" /\ build'[r].copied = reference /\ OnlyThisCall(r)
    BY <1>0, <2>1, <2>a DEF OnlyThisCall, Build, BuildStages
  <2>3. HasItsOwn(r)' /\ Directories' /\ reference' \in Nat /\ owned' \subseteq Nat
    BY <1>0, <2>1, <2>2 DEF HasItsOwn, Directories
  <2> QED BY <2>2, <2>3, StepOfOneCall
<1>3. ASSUME NEW r \in BuildCalls, BuildImage(r) PROVE OwnedInv'
  <2>1. PICK ok \in BOOLEAN : build' = [build EXCEPT ![r].stage = "clean", ![r].ok = ok]
    BY <1>3 DEF BuildImage
  <2>2. UNCHANGED <<reference, owned, outs, together>> /\ build[r].stage = "image"
    BY <1>3 DEF BuildImage
  <2>a. build' = [build EXCEPT ![r] = [build[r] EXCEPT !.stage = "clean", !.ok = ok]]
    BY <1>0, <2>1
  <2>3. build'[r].stage = "clean" /\ build'[r].copied = build[r].copied /\ OnlyThisCall(r)
    BY <1>0, <2>2, <2>a DEF OnlyThisCall, Build, BuildStages
  <2>4. r \notin together => HasItsOwn(r)'
    BY <2>2, <2>3, HasOfOwned DEF HasItsOwn
  <2> QED BY <2>2, <2>3, <2>4, StepInPlace
<1>4. ASSUME NEW r \in BuildCalls, CleanOut(r) PROVE OwnedInv'
  <2>1. /\ build' = [build EXCEPT ![r].stage = "make"] /\ build[r].stage = "clean"
        /\ outs' = [outs EXCEPT !["external"] = <<>>] /\ UNCHANGED <<reference, owned, together>>
    BY <1>4 DEF CleanOut
  <2>2. build'[r].stage = "make" /\ build'[r].copied = build[r].copied /\ OnlyThisCall(r)
    BY <1>0, <2>1 DEF OnlyThisCall, Build, BuildStages
  <2>3. Directories' /\ DOMAIN outs'["external"] = {}
    BY <1>0, <1>a, <2>1 DEF Directories
  <2>4. r \notin together => HasItsOwn(r)'
    BY <2>1, <2>2, <2>3, HasOfOwned DEF HasItsOwn
  <2> QED BY <1>0, <2>1, <2>2, <2>3, <2>4, StepOfOneCall
<1>5. ASSUME NEW r \in BuildCalls, NEW h \in Harnesses, BuildFuzzer(r, h) PROVE OwnedInv'
  <2>1. /\ build[r].stage = "make" /\ owned # {}
        /\ outs' = [outs EXCEPT !["external"] = WithFuzzer(r, h)]
        /\ UNCHANGED <<reference, owned, build, together>>
    BY <1>5 DEF BuildFuzzer
  <2>2. OnlyThisCall(r)
    BY <1>0, <2>1 DEF OnlyThisCall
  <2>3. /\ Directories'
        /\ outs'["external"] = WithFuzzer(r, h)
        /\ DOMAIN outs'["external"] = DOMAIN outs["external"] \cup {h}
    BY <1>0, <1>a, <2>1 DEF Directories, WithFuzzer
  <2>4. ASSUME r \notin together PROVE HasItsOwn(r)'
    <3>1. owned = {build[r].copied} /\ HasItsOwn(r)
      BY <2>1, <2>4, HasOfOwned DEF HasItsOwn
    <3>2. (CHOOSE v \in owned : TRUE) = build[r].copied
      BY <3>1
    <3>3. \A k \in DOMAIN outs["external"] \cup {h} : WithFuzzer(r, h)[k] = OfThisBuild(r)
      BY <2>1, <3>1, <3>2 DEF WithFuzzer, HasItsOwn, OfThisBuild
    <3>4. OfThisBuild(r)' = OfThisBuild(r)
      BY <2>1 DEF OfThisBuild
    <3> QED BY <2>1, <2>3, <3>1, <3>3, <3>4 DEF HasItsOwn
  <2> QED BY <1>0, <2>1, <2>2, <2>3, <2>4, StepOfOneCall
<1>6. ASSUME NEW r \in BuildCalls, BuildSucceeds(r) PROVE OwnedInv'
  <2>1. /\ build' = [build EXCEPT ![r].stage = "select"] /\ build[r].stage = "make"
        /\ UNCHANGED <<reference, owned, outs, together>>
    BY <1>6 DEF BuildSucceeds
  <2>2. build'[r] = [build[r] EXCEPT !.stage = "select"] /\ OnlyThisCall(r)
    BY <1>0, <2>1 DEF OnlyThisCall, Build, BuildStages
  <2>3. build'[r].stage = "select" /\ build'[r].copied = build[r].copied
    BY <1>0, <2>2 DEF Build
  <2>4. r \notin together => HasItsOwn(r)'
    BY <2>1, <2>3, HasOfOwned DEF HasItsOwn, OfThisBuild
  <2> QED BY <2>1, <2>2, <2>3, <2>4, StepInPlace
<1>7. ASSUME NEW r \in BuildCalls, BuildFails(r) PROVE OwnedInv'
  <2>1. /\ build' = [build EXCEPT ![r].stage = "select", ![r].ok = FALSE]
        /\ build[r].stage \in {"clean", "make"} /\ UNCHANGED <<reference, owned, outs, together>>
    BY <1>7 DEF BuildFails
  <2>2. PICK no \in BOOLEAN : ~no /\ build' = [build EXCEPT ![r].stage = "select", ![r].ok = no]
    BY <2>1
  <2>3. build' = [build EXCEPT ![r] = [build[r] EXCEPT !.stage = "select", !.ok = no]]
    BY <1>0, <2>2
  <2>4. build[r].stage \in {"clean", "make"} /\ together' = together
    BY <2>1
  <2>5. OnlyThisCall(r) /\ build'[r].stage = "select" /\ build'[r].copied = build[r].copied
        /\ build'[r].ok = no
    BY <1>0, <2>3, <2>4 DEF OnlyThisCall, Build, BuildStages
  <2>6. r \notin together => HasItsOwn(r)'
    BY <2>1, <2>2, <2>5, HasOfOwned DEF HasItsOwn
  <2> QED BY <2>1, <2>5, <2>6, StepInPlace
<1>8. ASSUME NEW r \in BuildCalls, SelectDir(r) PROVE OwnedInv'
  <2>1. PICK dir \in Dirs :
          build' = [build EXCEPT ![r].stage = "next", ![r].dir = dir, ![r].todo = Harnesses,
                                 ![r].fuzzers = DOMAIN outs[dir],
                                 ![r].ok = @ /\ DOMAIN outs[dir] # {}]
    BY <1>8 DEF SelectDir
  <2>2. build[r].stage = "select" /\ UNCHANGED <<reference, owned, outs, together>>
    BY <1>8 DEF SelectDir
  <2> DEFINE ok == build[r].ok /\ DOMAIN outs[dir] # {}
  <2>3. build' = [build EXCEPT ![r] =
                    [build[r] EXCEPT !.stage = "next", !.dir = dir, !.todo = Harnesses,
                                     !.fuzzers = DOMAIN outs[dir], !.ok = ok]]
    BY <1>0, <2>1
  <2>4. ok \in BOOLEAN /\ DOMAIN outs[dir] \in SUBSET Harnesses /\ (ok => build[r].ok)
    BY <1>0 DEF Directories
  <2> HIDE DEF ok
  <2>5. /\ OnlyThisCall(r) /\ build'[r].stage = "next" /\ build'[r].copied = build[r].copied
        /\ build'[r].dir = dir /\ build'[r].fuzzers = DOMAIN outs[dir]
        /\ (build'[r].ok => build[r].ok)
    BY <1>0, <2>2, <2>3, <2>4 DEF OnlyThisCall, Build, BuildStages
  <2>6. r \notin together => HasItsOwn(r)'
    BY <2>2, <2>5, HasOfOwned DEF HasItsOwn, OfThisBuild
  <2> QED BY <2>2, <2>5, <2>6, StepInPlace
<1>9. ASSUME NEW r \in BuildCalls, NEW h \in Harnesses, TakeCase(r, h) PROVE OwnedInv'
  <2>1. build[r].stage = "next" /\ UNCHANGED <<reference, owned, outs, together>>
    BY <1>9 DEF TakeCase
  <2>2. CASE h \in build[r].fuzzers
    <3>1. build' = [build EXCEPT ![r].stage = "replay", ![r].todo = @ \ {h},
                                 ![r].case = {h}, ![r].reps = 0, ![r].bad = FALSE]
      BY <1>9, <2>2 DEF TakeCase
    <3>a. build' = [build EXCEPT ![r] =
                      [build[r] EXCEPT !.stage = "replay", !.todo = @ \ {h}, !.case = {h},
                                       !.reps = 0, !.bad = FALSE]]
      BY <1>0, <3>1
    <3>2. /\ OnlyThisCall(r) /\ build'[r].stage = "replay" /\ build'[r].copied = build[r].copied
          /\ build'[r].dir = build[r].dir /\ build'[r].fuzzers = build[r].fuzzers
          /\ build'[r].ok = build[r].ok /\ build'[r].case = {h}
      BY <1>0, <2>1, <3>a DEF OnlyThisCall, Build, BuildStages
    <3>3. r \notin together => HasItsOwn(r)'
      BY <2>1, <2>2, <3>2, HasOfOwned DEF HasItsOwn, OfThisBuild
    <3> QED BY <2>1, <3>2, <3>3, StepInPlace
  <2>3. CASE h \notin build[r].fuzzers
    <3>1. build' = [build EXCEPT ![r].todo = @ \ {h}]
      BY <1>9, <2>3 DEF TakeCase
    <3>2. /\ OnlyThisCall(r) /\ build'[r].stage = "next" /\ build'[r].copied = build[r].copied
          /\ build'[r].dir = build[r].dir /\ build'[r].fuzzers = build[r].fuzzers
          /\ build'[r].ok = build[r].ok
      BY <1>0, <2>1, <3>1 DEF OnlyThisCall, Build, BuildStages
    <3>3. r \notin together => HasItsOwn(r)'
      BY <2>1, <3>2, HasOfOwned DEF HasItsOwn, OfThisBuild
    <3> QED BY <2>1, <3>2, <3>3, StepInPlace
  <2> QED BY <2>2, <2>3
<1>10. ASSUME NEW r \in BuildCalls, Hits(r) \/ Misses(r) PROVE OwnedInv'
  <2>1. /\ build[r].stage = "replay" /\ UNCHANGED <<reference, owned, outs, together>>
        /\ \/ build' = [build EXCEPT ![r].reps = @ + 1]
           \/ build' = [build EXCEPT ![r].reps = @ + 1, ![r].bad = TRUE]
    BY <1>10 DEF Hits, Misses
  <2>2. /\ OnlyThisCall(r) /\ build'[r].stage = "replay" /\ build'[r].copied = build[r].copied
        /\ build'[r].dir = build[r].dir /\ build'[r].fuzzers = build[r].fuzzers
        /\ build'[r].ok = build[r].ok /\ build'[r].case = build[r].case
    BY <1>0, <2>1 DEF OnlyThisCall, Build, BuildStages
  <2>3. r \notin together => HasItsOwn(r)'
    BY <2>1, <2>2, HasOfOwned DEF HasItsOwn, OfThisBuild
  <2> QED BY <2>1, <2>2, <2>3, StepInPlace
<1>11. ASSUME NEW r \in BuildCalls, Verified(r) \/ Unverified(r) PROVE OwnedInv'
  <2>1. /\ build[r].stage = "replay" /\ UNCHANGED <<reference, owned, outs, together>>
        /\ build' = [build EXCEPT ![r].stage = "next", ![r].case = {}]
    BY <1>11 DEF Verified, Unverified
  <2>a. build' = [build EXCEPT ![r] = [build[r] EXCEPT !.stage = "next", !.case = {}]]
    BY <1>0, <2>1
  <2>2. /\ OnlyThisCall(r) /\ build'[r].stage = "next" /\ build'[r].copied = build[r].copied
        /\ build'[r].dir = build[r].dir /\ build'[r].fuzzers = build[r].fuzzers
        /\ build'[r].ok = build[r].ok
    BY <1>0, <2>1, <2>a DEF OnlyThisCall, Build, BuildStages
  <2>3. r \notin together => HasItsOwn(r)'
    BY <2>1, <2>2, HasOfOwned DEF HasItsOwn, OfThisBuild
  <2> QED BY <2>1, <2>2, <2>3, StepInPlace
<1>12. ASSUME NEW r \in BuildCalls, EndBuild(r) \/ BuildDies(r) PROVE OwnedInv'
  <2>1. /\ build[r].stage # "idle" /\ UNCHANGED <<reference, owned, outs, together>>
        /\ build' = [build EXCEPT ![r] = NoBuild]
    BY <1>12 DEF EndBuild, BuildDies
  <2>2. OnlyThisCall(r) /\ build'[r].stage = "idle"
    BY <1>0, <1>b, <2>1 DEF OnlyThisCall
  <2>3. HasItsOwn(r)' /\ Directories'
    BY <1>0, <2>1, <2>2 DEF HasItsOwn, Directories
  <2> QED BY <1>0, <2>1, <2>2, <2>3, StepOfOneCall
<1>13. CASE EditReference
  <2>1. reference' \in Nat /\ UNCHANGED <<owned, outs, build, together>>
    BY <1>0, <1>13 DEF EditReference
  <2> QED BY <2>1 DEF OwnedInv, OwnedTypes, IsAlone, OwnSource, OwnFuzzers, KeptFuzzers, OfThisBuild
<1>14. CASE UNCHANGED ownedVars
  BY <1>14 DEF ownedVars, OwnedInv, OwnedTypes, IsAlone, OwnSource, OwnFuzzers, KeptFuzzers,
               OfThisBuild
<1> QED BY <1>1, <1>2, <1>3, <1>4, <1>5, <1>6, <1>7, <1>8, <1>9, <1>10, <1>11, <1>12, <1>13, <1>14
        DEF OwnedNext

LEMMA OwnedInvInit == OwnedInit => OwnedInv
<1> SUFFICES ASSUME OwnedInit PROVE OwnedInv
  OBVIOUS
<1>1. NoBuild \in Build /\ NoBuild.stage = "idle"
  BY DEF NoBuild, Build, BuildStages, Dirs
<1>2. build \in [BuildCalls -> Build] /\ \A r \in BuildCalls : build[r].stage = "idle"
  BY <1>1 DEF OwnedInit
<1>3. PICK there \in SUBSET Harnesses :
        outs = [d \in Dirs |-> IF d = "plain"
                               THEN [h \in there |-> [by |-> Others, version |-> 0]] ELSE <<>>]
  BY DEF OwnedInit
<1>4. DOMAIN outs = Dirs /\ \A d \in Dirs : DOMAIN outs[d] \subseteq Harnesses
  BY <1>3
<1>5. OwnedTypes
  BY <1>2, <1>4 DEF OwnedInit, OwnedTypes
<1> QED BY <1>2, <1>5 DEF OwnedInv, IsAlone, OwnSource, OwnFuzzers, KeptFuzzers

\* What a call that worked alone and whose build succeeded records was found with
\* a fuzzer this build made of the source it copied, although the directory is
\* kept and looked at whatever came of the build (run_owned_oss_fuzz_build).
THEOREM FoundOnOwn == OwnedSpec => FoundOnOwnBuild
<1>1. OwnedInv /\ [OwnedNext]_ownedVars =>
        [\A r \in BuildCalls \ together, h \in Harnesses :
           Verified(r) /\ h \in build[r].case /\ build[r].ok /\ build[r].dir = "external" =>
             Fuzzer(r, h) = [by |-> r, version |-> build[r].copied]]_ownedVars
  <2> SUFFICES ASSUME OwnedInv, NEW r \in BuildCalls \ together, NEW h \in Harnesses,
                      Verified(r), h \in build[r].case, build[r].ok, build[r].dir = "external"
               PROVE  Fuzzer(r, h) = [by |-> r, version |-> build[r].copied]
    OBVIOUS
  <2>1. build[r].stage = "replay"
    BY DEF Verified
  <2>2. HasItsOwn(r)
    BY HasOfOwned
  <2>3. h \in DOMAIN outs["external"]
    BY <2>1, <2>2 DEF HasItsOwn
  <2> QED BY <2>1, <2>2, <2>3 DEF HasItsOwn, OfThisBuild, Fuzzer
<1> QED BY <1>1, OwnedInvInit, OwnedInvStep, PTL DEF OwnedSpec, FoundOnOwnBuild

-----------------------------------------------------------------------------
(* Passes over the frontier *)

Row == [status : {"unreached", "reached", "exploited"}, seeds : SUBSET Seeds]
Tables == UNION {[D -> Row] : D \in SUBSET Tracked}

Pass ==
  [at : {"idle", "clear", "fill", "run", "report", "fold", "sample"},
   rows : SUBSET Tracked, sampled : BOOLEAN, seen : SUBSET Tracked, copy : Tables,
   fresh : SUBSET Tracked]

\* old is as good as new, or worse, for each sink it tracks.
Dominates(new, old) ==
  \A k \in DOMAIN old :
    k \in DOMAIN new /\ StatusOrder[new[k].status] >= StatusOrder[old[k].status]

FrontierInv ==
  /\ sinkStatus \in Tables /\ frontier \in [Frontiers -> Pass]
  /\ listedSinks \subseteq Tracked /\ newestLast \in Seq(Seeds)
  /\ sampleDir \subseteq SUBSET Seeds
  /\ \A c \in Frontiers \ lapped :
       FrontierAt(c, "sample") => Dominates(frontier[c].copy, sinkStatus)

LEMMA StatusOrders ==
  /\ \A x \in {"unreached", "reached", "exploited"} : StatusOrder[x] \in 0..2
  /\ \A x, y \in {"unreached", "reached", "exploited"} :
       /\ StatusAfter(x, y) \in {"unreached", "reached", "exploited"}
       /\ StatusOrder[StatusAfter(x, y)] >= StatusOrder[x]
<1>1. \A x \in {"unreached", "reached", "exploited"} : StatusOrder[x] \in 0..2
  BY DEF StatusOrder
<1> QED BY <1>1 DEF StatusAfter

LEMMA TableRows ==
  /\ \A t \in Tables : DOMAIN t \subseteq Tracked /\ \A k \in DOMAIN t : t[k] \in Row
  /\ \A D \in SUBSET Tracked : [D -> Row] \subseteq Tables
  BY DEF Tables

LEMMA EmptyTable == <<>> \in Tables
<1>1. {} \in SUBSET Tracked /\ <<>> \in [{} -> Row]
  OBVIOUS
<1> QED BY <1>1 DEF Tables

\* What a pass makes of a table, with any of its rows added.
LEMMA FoldedDominates ==
  ASSUME NEW table \in Tables, NEW c \in Frontiers, NEW added \in SUBSET Tracked
  PROVE  Folded(c, table, added) \in Tables /\ Dominates(Folded(c, table, added), table)
<1> DEFINE f == Folded(c, table, added)
           row(k) == IF k \in DOMAIN table THEN table[k] ELSE NewRow
<1>1. DOMAIN f = DOMAIN table \cup added /\ DOMAIN f \subseteq Tracked
  BY TableRows DEF Folded
<1>2. ASSUME NEW k \in DOMAIN f
      PROVE  f[k] \in Row /\ row(k) \in Row /\ StatusOrder[f[k].status] >= StatusOrder[row(k).status]
  <2>1. row(k) \in Row
    BY TableRows DEF NewRow, Row
  <2>2. f[k] = IF k \in frontier[c].rows
               THEN [row(k) EXCEPT !.status = StatusAfter(@, Desired(c, k))] ELSE row(k)
    BY <1>1 DEF Folded
  <2>3. Desired(c, k) \in {"unreached", "reached", "exploited"}
    BY DEF Desired
  <2> DEFINE new == StatusAfter(row(k).status, Desired(c, k))
  <2>4. /\ row(k).status \in {"unreached", "reached", "exploited"}
        /\ StatusOrder[row(k).status] \in 0..2
        /\ new \in {"unreached", "reached", "exploited"}
        /\ StatusOrder[new] >= StatusOrder[row(k).status]
    <3> HIDE DEF row
    <3>1. row(k).status \in {"unreached", "reached", "exploited"}
      BY <2>1 DEF Row
    <3> QED BY <2>3, <3>1, StatusOrders
  <2>5. CASE k \in frontier[c].rows
    <3>1. f[k] = [row(k) EXCEPT !.status = new]
      BY <2>2, <2>5
    <3> HIDE DEF row, new, f
    <3>2. f[k].status = new /\ f[k] \in Row
      BY <2>1, <2>4, <3>1 DEF Row
    <3> QED BY <2>1, <2>4, <3>2
  <2>6. CASE k \notin frontier[c].rows
    <3>1. f[k] = row(k)
      BY <2>2, <2>6
    <3> HIDE DEF row, new, f
    <3> QED BY <2>1, <2>4, <3>1
  <2> QED BY <2>5, <2>6
<1>3. f = [k \in DOMAIN f |-> f[k]]
  BY DEF Folded
<1>4. \A k \in DOMAIN table : row(k) = table[k]
  OBVIOUS
<1> HIDE DEF f, row
<1>5. f \in [DOMAIN f -> Row]
  BY <1>2, <1>3
<1>6. f \in Tables
  BY <1>1, <1>5, TableRows
<1>7. Dominates(f, table)
  BY <1>1, <1>2, <1>4 DEF Dominates
<1> QED BY <1>6, <1>7 DEF f

\* A step of c that leaves the file alone, and does not get it to the sample.
LEMMA PassMoves ==
  ASSUME FrontierInv, NEW c \in Frontiers, NEW new \in Pass,
         frontier' = [frontier EXCEPT ![c] = new], new.at # "sample",
         UNCHANGED <<listedSinks, newestLast, sinkStatus, lapped>>,
         sampleDir' \subseteq SUBSET Seeds
  PROVE  FrontierInv'
<1>1. frontier' \in [Frontiers -> Pass] /\ frontier'[c].at # "sample"
      /\ \A d \in Frontiers \ {c} : frontier'[d] = frontier[d]
  BY DEF FrontierInv
<1> QED BY <1>1 DEF FrontierInv, FrontierAt, Dominates

LEMMA FrontierInvStep == FrontierInv /\ [FrontierNext]_frontierVars => FrontierInv'
<1> SUFFICES ASSUME FrontierInv, [FrontierNext]_frontierVars PROVE FrontierInv'
  OBVIOUS
<1>0. /\ frontier \in [Frontiers -> Pass] /\ sinkStatus \in Tables
      /\ listedSinks \subseteq Tracked /\ newestLast \in Seq(Seeds)
      /\ sampleDir \subseteq SUBSET Seeds
  BY DEF FrontierInv
<1>a. NoFrontier \in Pass /\ NoFrontier.at # "sample"
  <2> HIDE DEF Tables
  <2> QED BY EmptyTable DEF NoFrontier, Pass
<1>1. ASSUME NEW c \in Frontiers, BeginPass(c) PROVE FrontierInv'
  <2> DEFINE sampled == Len(newestLast) > SampleSize
             new == [NoFrontier EXCEPT !.at = IF sampled THEN "clear" ELSE "run",
                                       !.rows = listedSinks, !.sampled = sampled]
  <2>1. frontier' = [frontier EXCEPT ![c] = new]
        /\ UNCHANGED <<listedSinks, newestLast, sinkStatus, lapped, sampleDir>>
    BY <1>1 DEF BeginPass
  <2>2. new \in Pass /\ new.at # "sample"
    <3> HIDE DEF Tables
    <3>1. sampled \in BOOLEAN
      OBVIOUS
    <3> HIDE DEF sampled
    <3> QED BY <1>0, <3>1, EmptyTable DEF NoFrontier, Pass
  <2> QED BY <1>0, <2>1, <2>2, PassMoves
<1>2. ASSUME NEW c \in Frontiers, NEW to \in {"fill", "run", "fold"}, FrontierTo(c, to),
             UNCHANGED <<listedSinks, newestLast, sinkStatus, lapped>>,
             sampleDir' \subseteq SUBSET Seeds
      PROVE  FrontierInv'
  <2>1. frontier' = [frontier EXCEPT ![c] = [frontier[c] EXCEPT !.at = to]]
    BY <1>0, <1>2 DEF FrontierTo
  <2>2. [frontier[c] EXCEPT !.at = to] \in Pass /\ [frontier[c] EXCEPT !.at = to].at = to
    BY <1>0, <1>2 DEF Pass
  <2> QED BY <1>2, <2>1, <2>2, PassMoves
<1>3. ASSUME NEW c \in Frontiers, ClearSample(c) \/ FillSample(c) \/ ReportCoverage(c)
      PROVE  FrontierInv'
  <2>1. Newest(SampleSize) \in SUBSET Seeds
    BY <1>0 DEF Newest
  <2> QED BY <1>0, <1>2, <1>3, <2>1 DEF ClearSample, FillSample, ReportCoverage
<1>4. ASSUME NEW c \in Frontiers, FillRaises(c) \/ CoverageFails(c) PROVE FrontierInv'
  BY <1>0, <1>a, <1>4, PassMoves DEF FillRaises, CoverageFails
<1>5. ASSUME NEW c \in Frontiers, RunCoverage(c) PROVE FrontierInv'
  <2>1. PICK seen \in SUBSET Covered(Replayed(c)) \ {{}} :
          frontier' = [frontier EXCEPT ![c].at = "report", ![c].seen = seen]
    BY <1>5 DEF RunCoverage
  <2>2. UNCHANGED <<listedSinks, newestLast, sampleDir, sinkStatus, lapped>>
    BY <1>5 DEF RunCoverage
  <2>3. seen \in SUBSET Tracked
    <3>1. Replayed(c) \subseteq Seeds
      BY <1>0 DEF Replayed, Range
    <3>2. \A u \in Seeds : Executes[u] \subseteq Tracked
      BY FrontierAssumption
    <3> QED BY <3>1, <3>2 DEF Covered
  <2>4. frontier' = [frontier EXCEPT ![c] = [frontier[c] EXCEPT !.at = "report", !.seen = seen]]
    BY <1>0, <2>1
  <2>5. /\ [frontier[c] EXCEPT !.at = "report", !.seen = seen] \in Pass
        /\ [frontier[c] EXCEPT !.at = "report", !.seen = seen].at # "sample"
    BY <1>0, <2>3 DEF Pass
  <2> QED BY <1>0, <2>2, <2>4, <2>5, PassMoves
<1>6. ASSUME NEW c \in Frontiers, LoadStatus(c) PROVE FrontierInv'
  <2>1. PICK added \in Admits(sinkStatus, frontier[c].rows) :
          LET table == Folded(c, sinkStatus, added)
              fresh == {k \in DOMAIN table :
                          /\ table[k].status = "reached"
                          /\ k \in DOMAIN sinkStatus => sinkStatus[k].status # "reached"}
          IN frontier' = [frontier EXCEPT ![c].at = "sample", ![c].copy = table, ![c].fresh = fresh]
    BY <1>6 DEF LoadStatus
  <2>2. UNCHANGED <<listedSinks, newestLast, sinkStatus, lapped>>
    BY <1>6 DEF LoadStatus
  <2>b. sampleDir' \subseteq SUBSET Seeds
    BY <1>0, <1>6 DEF LoadStatus
  <2>3. added \in SUBSET Tracked
    <3>1. added \in SUBSET frontier[c].rows
      BY DEF Admits
    <3> QED BY <1>0, <3>1 DEF Pass
  <2> DEFINE table == Folded(c, sinkStatus, added)
  <2>4. table \in Tables /\ Dominates(table, sinkStatus)
    BY <1>0, <2>3, FoldedDominates
  <2>5. \E fresh \in SUBSET Tracked :
          frontier' = [frontier EXCEPT ![c].at = "sample", ![c].copy = table, ![c].fresh = fresh]
    <3>1. DOMAIN table \subseteq Tracked
      BY <2>4, TableRows
    <3> HIDE DEF table
    <3> QED BY <2>1, <3>1 DEF table
  <2> HIDE DEF table
  <2>6. PICK fresh \in SUBSET Tracked :
          frontier' = [frontier EXCEPT ![c] = [frontier[c] EXCEPT !.at = "sample", !.copy = table,
                                                                  !.fresh = fresh]]
    BY <1>0, <2>5
  <2>7. [frontier[c] EXCEPT !.at = "sample", !.copy = table, !.fresh = fresh] \in Pass
    BY <1>0, <2>4 DEF Pass
  <2>8. frontier' \in [Frontiers -> Pass] /\ frontier'[c].copy = table
        /\ \A d \in Frontiers \ {c} : frontier'[d] = frontier[d]
    BY <1>0, <2>4, <2>6, <2>7 DEF Pass
  <2> QED BY <2>2, <2>b, <2>4, <2>8 DEF FrontierInv, FrontierAt, Dominates
<1>7. ASSUME NEW c \in Frontiers, SaveStatus(c) PROVE FrontierInv'
  <2> DEFINE copy == frontier[c].copy
  <2>1. PICK replayed \in SUBSET Newest(CloseSample) :
          sinkStatus' = [k \in DOMAIN copy |->
            IF k \in frontier[c].fresh
            THEN [copy[k] EXCEPT !.seeds = CloseSeeds(k, replayed)] ELSE copy[k]]
    BY <1>7 DEF SaveStatus
  <2>2. copy \in Tables
    BY <1>0 DEF Pass
  <2>3. replayed \subseteq Seeds
    BY <1>0 DEF Newest
  <2>4. sinkStatus' \in Tables
    <3>1. DOMAIN copy \subseteq Tracked /\ \A k \in DOMAIN copy : copy[k] \in Row
      BY <2>2, TableRows
    <3>2. \A k : CloseSeeds(k, replayed) \in SUBSET Seeds
      BY <2>3 DEF CloseSeeds
    <3> HIDE DEF copy
    <3>3. sinkStatus' \in [DOMAIN copy -> Row]
      <4>1. ASSUME NEW k \in DOMAIN copy
            PROVE  [copy[k] EXCEPT !.seeds = CloseSeeds(k, replayed)] \in Row
        BY <3>1, <3>2 DEF Row
      <4> QED BY <2>1, <3>1, <4>1
    <3> QED BY <3>1, <3>3, TableRows
  <2>5. frontier' = [frontier EXCEPT ![c] = NoFrontier]
        /\ lapped' = (lapped \ {c}) \cup {d \in Frontiers \ {c} : FrontierAt(d, "sample")}
        /\ UNCHANGED <<listedSinks, newestLast, sampleDir>>
    BY <1>7 DEF SaveStatus
  <2>6. frontier' \in [Frontiers -> Pass] /\ frontier'[c].at # "sample"
        /\ \A d \in Frontiers \ {c} : frontier'[d] = frontier[d]
    BY <1>0, <1>a, <2>5
  <2>7. \A d \in Frontiers \ lapped' : frontier'[d].at # "sample"
    BY <2>5, <2>6 DEF FrontierAt
  <2> QED BY <1>0, <2>4, <2>5, <2>6, <2>7 DEF FrontierInv, FrontierAt
<1>8. CASE InventoryChanges \/ \E u \in Seeds : SeedArrives(u)
  <2>1. listedSinks' \subseteq Tracked /\ newestLast' \in Seq(Seeds)
    BY <1>0, <1>8 DEF InventoryChanges, SeedArrives
  <2>2. UNCHANGED <<sinkStatus, frontier, lapped, sampleDir>>
    BY <1>8 DEF InventoryChanges, SeedArrives
  <2> QED BY <2>1, <2>2 DEF FrontierInv, FrontierAt, Dominates
<1>9. CASE (\E k \in Tracked : Exploit(k)) \/ UNCHANGED frontierVars
  <2>1. UNCHANGED <<listedSinks, newestLast, sinkStatus, frontier, lapped, sampleDir>>
    BY <1>9 DEF Exploit, frontierVars
  <2> QED BY <2>1 DEF FrontierInv, FrontierAt, Dominates
<1> QED BY <1>1, <1>3, <1>4, <1>5, <1>6, <1>7, <1>8, <1>9 DEF FrontierNext

\* A sink that is tracked stays tracked and its status never goes back, whatever
\* samples see, unless the pass that writes loaded the table before another wrote
\* it ("Transitions never demote", update_sink_status).
THEOREM StatusNeverGoesBack == FrontierSpec => NeverDemoted
<1>1. FrontierInit => FrontierInv
  <2> SUFFICES ASSUME FrontierInit PROVE FrontierInv
    OBVIOUS
  <2>1. NoFrontier \in Pass /\ NoFrontier.at # "sample"
    <3> HIDE DEF Tables
    <3> QED BY EmptyTable DEF NoFrontier, Pass
  <2> QED BY <2>1, EmptyTable DEF FrontierInit, FrontierInv, FrontierAt
<1>2. FrontierInv /\ [FrontierNext]_frontierVars =>
        [\A c \in Frontiers :
           FrontierAt(c, "sample") /\ c \notin lapped /\ frontier'[c] = NoFrontier =>
           \A k \in DOMAIN sinkStatus :
             k \in DOMAIN sinkStatus' /\
             StatusOrder[sinkStatus'[k].status] >= StatusOrder[sinkStatus[k].status]]_frontierVars
  <2> SUFFICES ASSUME FrontierInv, FrontierNext, NEW c \in Frontiers, FrontierAt(c, "sample"),
                      c \notin lapped, frontier'[c] = NoFrontier, NEW k \in DOMAIN sinkStatus
               PROVE  /\ k \in DOMAIN sinkStatus'
                      /\ StatusOrder[sinkStatus'[k].status] >= StatusOrder[sinkStatus[k].status]
    OBVIOUS
  <2>a. frontier \in [Frontiers -> Pass] /\ frontier[c].at = "sample" /\ frontier'[c].at = "idle"
    BY DEF FrontierInv, FrontierAt, NoFrontier
  <2>b. ASSUME NEW d \in Frontiers, d # c \/ ~FrontierAt(d, "sample"),
               \E new : frontier' = [frontier EXCEPT ![d] = new]
        PROVE  FALSE
    BY <2>a, <2>b DEF FrontierAt
  <2>c. ASSUME NEW d \in Frontiers,
               \/ BeginPass(d) \/ FillRaises(d) \/ CoverageFails(d) \/ (SaveStatus(d) /\ d # c)
        PROVE  FALSE
    BY <2>b, <2>c DEF BeginPass, FillRaises, CoverageFails, SaveStatus, FrontierAt
  <2>d. ASSUME NEW d \in Frontiers, NEW to \in {"fill", "run", "fold", "report", "sample"},
               NEW rest,
               \/ frontier' = [frontier EXCEPT ![d].at = to]
               \/ frontier' = [frontier EXCEPT ![d].at = to, ![d].seen = rest]
        PROVE  FALSE
    BY <2>a, <2>d DEF Pass
  <2>e. ASSUME NEW d \in Frontiers,
               \/ ClearSample(d) \/ FillSample(d) \/ ReportCoverage(d) \/ RunCoverage(d)
        PROVE  FALSE
    BY <2>d, <2>e DEF ClearSample, FillSample, ReportCoverage, RunCoverage, FrontierTo
  <2>f. ASSUME NEW d \in Frontiers, LoadStatus(d) PROVE FALSE
    <3>1. PICK table, fresh : frontier' = [frontier EXCEPT ![d].at = "sample", ![d].copy = table,
                                                           ![d].fresh = fresh]
      BY <2>f DEF LoadStatus
    <3> QED BY <2>a, <3>1 DEF Pass
  <2>g. ~UNCHANGED frontier
    BY <2>a
  <2>1. SaveStatus(c)
    BY <2>c, <2>e, <2>f, <2>g DEF FrontierNext, InventoryChanges, SeedArrives, Exploit
  <2>3. \A j \in DOMAIN frontier[c].copy :
          j \in DOMAIN sinkStatus' /\ sinkStatus'[j].status = frontier[c].copy[j].status
    <3> DEFINE copy == frontier[c].copy
    <3>1. \A j \in DOMAIN copy : copy[j] \in Row
      BY <2>a, TableRows DEF Pass
    <3>2. PICK replayed : sinkStatus' = [j \in DOMAIN copy |->
            IF j \in frontier[c].fresh
            THEN [copy[j] EXCEPT !.seeds = CloseSeeds(j, replayed)] ELSE copy[j]]
      BY <2>1 DEF SaveStatus
    <3> HIDE DEF copy
    <3>3. ASSUME NEW j \in DOMAIN copy
          PROVE  [copy[j] EXCEPT !.seeds = CloseSeeds(j, replayed)].status = copy[j].status
      BY <3>1 DEF Row
    <3> QED BY <3>2, <3>3 DEF copy
  <2> QED BY <2>3 DEF FrontierInv, Dominates
<1> QED BY <1>1, <1>2, FrontierInvStep, PTL DEF FrontierSpec, NeverDemoted

-----------------------------------------------------------------------------
(* Patch environments *)

Trees == [PatchedFiles -> Nat]
Partial == [PatchedFiles -> Nat \cup {Absent}]
Environment == [tree : Partial, applied : Seq(Patches)]

Prep ==
  [stage : {"idle", "miss", "copying", "hit", "patch", "build"}, key : Partial,
   patch : Patches \cup {NoPatch}, blocked : BOOLEAN]

PatchTypes ==
  /\ sources \in Trees /\ edits \in Nat /\ \A f \in PatchedFiles : sources[f] <= edits
  /\ prep \in [Preparers -> Prep]
  /\ \A e \in DOMAIN envs : envs[e] \in Environment

\* No cache is named after sources yet to come, and the one of the sources as they
\* are holds nothing else.
CacheIsRight ==
  \A k \in DOMAIN cached :
    /\ k \in Trees /\ cached[k] \in Partial /\ \A f \in PatchedFiles : k[f] <= edits
    /\ k = sources => \A f \in PatchedFiles : cached[k][f] \in {Absent, k[f]}

\* The key of a session and its cache.
KeyIsRight(s) ==
  /\ prep[s].stage # "idle" => prep[s].key \in Trees /\ \A f \in PatchedFiles : prep[s].key[f] <= edits
  /\ prep[s].stage \in {"copying", "hit"} => prep[s].key \in DOMAIN cached
  /\ prep[s].stage \in {"miss", "copying"} /\ s \notin excuse => sources = prep[s].key
  /\ prep[s].stage = "hit" /\ s \notin excuse => cached[prep[s].key] = prep[s].key

Applied(s) == IF prep[s].patch = NoPatch THEN <<>> ELSE <<prep[s].patch>>

\* The environment of a session.
EnvIsRight(s) ==
  prep[s].stage \in {"patch", "build"} =>
    /\ Env(s) \in DOMAIN envs
    /\ prep[s].stage = "patch" => prep[s].patch \in Patches
    /\ s \notin excuse => envs[Env(s)].tree = prep[s].key
    /\ s \notin excuse /\ prep[s].stage = "patch" => envs[Env(s)].applied = <<>>
    /\ s \notin excuse /\ prep[s].stage = "build" /\ ~prep[s].blocked
         => envs[Env(s)].applied = Applied(s)

\* A session that is not excused has its environment for itself.
EnvIsOwn(s) ==
  prep[s].stage \in {"patch", "build"} /\ s \notin excuse =>
    \A t \in Preparers \ {s} : prep[t].stage \in {"patch", "build"} => Env(t) # Env(s)

PatchInv ==
  /\ PatchTypes /\ CacheIsRight
  /\ \A s \in Preparers : KeyIsRight(s) /\ EnvIsRight(s) /\ EnvIsOwn(s)

LEMMA NeverNumber == \A n \in Nat : n # Absent
  BY PatchAssumption

\* A step of s that ends its call, or does no more than begin one.
LEMMA NotAtWork ==
  ASSUME PatchInv, NEW s \in Preparers, NEW new \in Prep, new.stage \in {"idle", "miss", "hit"},
         prep' = [prep EXCEPT ![s] = new], excuse' \ {s} = excuse \ {s},
         UNCHANGED <<sources, cached, envs, edits>>, KeyIsRight(s)'
  PROVE  PatchInv'
<1>1. prep' \in [Preparers -> Prep] /\ prep'[s] = new
      /\ \A t \in Preparers \ {s} : prep'[t] = prep[t] /\ (t \in excuse' <=> t \in excuse)
  BY DEF PatchInv, PatchTypes
<1>2. PatchTypes' /\ CacheIsRight'
  BY <1>1 DEF PatchInv, PatchTypes, CacheIsRight
<1>3. ASSUME NEW t \in Preparers PROVE (KeyIsRight(t) /\ EnvIsRight(t) /\ EnvIsOwn(t))'
  <2>1. CASE t = s
    BY <1>1, <2>1 DEF EnvIsRight, EnvIsOwn
  <2>2. CASE t # s
    <3>1. prep'[t] = prep[t] /\ (t \in excuse' <=> t \in excuse) /\ Env(t)' = Env(t)
          /\ KeyIsRight(t) /\ EnvIsRight(t) /\ EnvIsOwn(t)
      BY <1>1, <2>2 DEF PatchInv, Env
    <3>2. KeyIsRight(t)' /\ EnvIsRight(t)'
      BY <3>1 DEF KeyIsRight, EnvIsRight, Applied
    <3>3. EnvIsOwn(t)'
      BY <1>1, <3>1 DEF EnvIsOwn, Env
    <3> QED BY <3>2, <3>3
  <2> QED BY <2>1, <2>2
<1> QED BY <1>2, <1>3 DEF PatchInv

\* A step on the caches by sessions that make no environment.
LEMMA CachesMove ==
  ASSUME PatchInv, NEW s \in Preparers, prep[s].stage \in {"miss", "copying"},
         NEW to \in {"copying", "hit"}, prep' = [prep EXCEPT ![s].stage = to],
         UNCHANGED <<sources, envs, excuse, edits>>, CacheIsRight',
         DOMAIN cached \subseteq DOMAIN cached', prep[s].key \in DOMAIN cached',
         \A k \in DOMAIN cached : cached[k] = k => cached'[k] = k,
         to = "hit" /\ s \notin excuse => cached'[prep[s].key] = prep[s].key
  PROVE  PatchInv'
<1>1. prep' = [prep EXCEPT ![s] = [prep[s] EXCEPT !.stage = to]]
  BY DEF PatchInv, PatchTypes
<1>2. /\ [prep[s] EXCEPT !.stage = to] \in Prep
      /\ prep'[s].stage = to /\ prep'[s].key = prep[s].key
      /\ \A t \in Preparers \ {s} : prep'[t] = prep[t]
  BY <1>1 DEF PatchInv, PatchTypes, Prep
<1>3. PatchTypes'
  BY <1>1, <1>2 DEF PatchInv, PatchTypes
<1>4. ASSUME NEW t \in Preparers PROVE (KeyIsRight(t) /\ EnvIsRight(t) /\ EnvIsOwn(t))'
  <2>1. CASE t = s
    <3>1. KeyIsRight(s)
      BY DEF PatchInv
    <3>2. KeyIsRight(s)' /\ prep'[s].stage \notin {"patch", "build"}
      BY <1>2, <3>1 DEF KeyIsRight
    <3> QED BY <2>1, <3>2 DEF EnvIsRight, EnvIsOwn
  <2>2. CASE t # s
    <3>1. prep'[t] = prep[t] /\ Env(t)' = Env(t) /\ KeyIsRight(t) /\ EnvIsRight(t) /\ EnvIsOwn(t)
      BY <1>2, <2>2 DEF PatchInv, Env
    <3>2. KeyIsRight(t)' /\ EnvIsRight(t)'
      BY <3>1 DEF KeyIsRight, EnvIsRight, Applied
    <3>3. EnvIsOwn(t)'
      BY <1>2, <3>1 DEF EnvIsOwn, Env
    <3> QED BY <3>2, <3>3
  <2> QED BY <2>1, <2>2
<1> QED BY <1>3, <1>4 DEF PatchInv

LEMMA PatchInvStep == PatchInv /\ [PatchNext]_patchVars => PatchInv'
<1> SUFFICES ASSUME PatchInv, [PatchNext]_patchVars PROVE PatchInv'
  OBVIOUS
<1>0. /\ prep \in [Preparers -> Prep] /\ PatchTypes /\ CacheIsRight
      /\ \A s \in Preparers : KeyIsRight(s) /\ EnvIsRight(s) /\ EnvIsOwn(s)
      /\ sources \in Trees /\ edits \in Nat /\ \A f \in PatchedFiles : sources[f] <= edits
  BY DEF PatchInv, PatchTypes
<1>a. Idle \in Prep /\ Idle.stage = "idle"
  BY DEF Idle, Prep, Partial, Empty
<1>1. ASSUME NEW s \in Preparers, NEW patch \in Patches \cup {NoPatch}, BeginPrepare(s, patch)
      PROVE  PatchInv'
  <2> DEFINE to == IF sources \in DOMAIN cached THEN "hit" ELSE "miss"
             new == [stage |-> to, key |-> sources, patch |-> patch, blocked |-> FALSE]
  <2>1. /\ prep' = [prep EXCEPT ![s] = new] /\ UNCHANGED <<sources, cached, envs, edits>>
        /\ excuse' = IF sources \in DOMAIN cached
                        /\ \E f \in PatchedFiles : cached[sources][f] = Absent
                     THEN excuse \cup {s} ELSE excuse \ {s}
    BY <1>1 DEF BeginPrepare, Key
  <2>2. new \in Prep /\ new.stage = to /\ new.key = sources /\ to \in {"hit", "miss"}
    BY <1>0 DEF Prep, Trees, Partial
  <2> HIDE DEF new
  <2>3. prep'[s] = new
    BY <1>0, <2>1
  <2>4. ASSUME sources \in DOMAIN cached, s \notin excuse' PROVE cached[sources] = sources
    <3>1. \A f \in PatchedFiles : cached[sources][f] = sources[f]
      BY <1>0, <2>1, <2>4 DEF CacheIsRight
    <3>2. cached[sources] \in Partial /\ sources \in Trees
      BY <1>0, <2>4 DEF CacheIsRight
    <3> QED BY <3>1, <3>2 DEF Partial, Trees
  <2>5. KeyIsRight(s)'
    BY <1>0, <2>1, <2>2, <2>3, <2>4 DEF KeyIsRight
  <2>6. excuse' \ {s} = excuse \ {s}
    BY <2>1
  <2> QED BY <2>1, <2>2, <2>5, <2>6, NotAtWork
<1>2. ASSUME NEW s \in Preparers, MakeCache(s) PROVE PatchInv'
  <2>1. /\ prep[s].stage = "miss" /\ prep[s].key \notin DOMAIN cached
        /\ cached' = WithDir(cached, prep[s].key, Empty)
        /\ prep' = [prep EXCEPT ![s].stage = "copying"] /\ UNCHANGED <<sources, envs, excuse, edits>>
    BY <1>2 DEF MakeCache, Step
  <2>2. /\ DOMAIN cached' = DOMAIN cached \cup {prep[s].key} /\ cached'[prep[s].key] = Empty
        /\ \A k \in DOMAIN cached : cached'[k] = cached[k]
    BY <2>1 DEF WithDir
  <2>3. prep[s].key \in Trees /\ \A f \in PatchedFiles : prep[s].key[f] <= edits
    BY <1>0, <2>1 DEF KeyIsRight
  <2>4. CacheIsRight'
    <3>1. Empty \in Partial /\ \A f \in PatchedFiles : Empty[f] = Absent
      BY DEF Empty, Partial
    <3> QED BY <1>0, <2>1, <2>2, <2>3, <3>1 DEF CacheIsRight
  <2> QED BY <2>1, <2>2, <2>4, CachesMove
<1>3. ASSUME NEW s \in Preparers, CacheExists(s) \/ Ready(s) \/ Blocked(s) \/ PreparerDies(s)
      PROVE  PatchInv'
  <2>1. prep' = [prep EXCEPT ![s] = Idle] /\ UNCHANGED <<sources, cached, envs, excuse, edits>>
    BY <1>3 DEF CacheExists, Ready, Blocked, PreparerDies
  <2>2. KeyIsRight(s)'
    BY <1>0, <1>a, <2>1 DEF KeyIsRight
  <2> QED BY <1>a, <2>1, <2>2, NotAtWork
<1>4. ASSUME NEW s \in Preparers, NEW f \in PatchedFiles, CopyFile(s, f) PROVE PatchInv'
  <2> DEFINE key == prep[s].key
  <2>1. /\ prep[s].stage = "copying" /\ cached[key][f] = Absent
        /\ cached' = [cached EXCEPT ![key][f] = sources[f]]
        /\ UNCHANGED <<sources, envs, prep, excuse, edits>>
    BY <1>4 DEF CopyFile
  <2>2. key \in DOMAIN cached
    BY <1>0, <2>1 DEF KeyIsRight
  <2>3. key \in Trees /\ cached[key] \in Partial
    BY <1>0, <2>2 DEF CacheIsRight
  <2>4. cached[key] # key
    BY <2>1, <2>3, NeverNumber DEF Trees
  <2> HIDE DEF key
  <2>5. /\ DOMAIN cached' = DOMAIN cached
        /\ cached'[key] = [cached[key] EXCEPT ![f] = sources[f]]
        /\ \A k \in DOMAIN cached \ {key} : cached'[k] = cached[k]
    BY <2>1, <2>2
  <2>6. CacheIsRight'
    <3>1. cached'[key] \in Partial
      BY <1>0, <2>3, <2>5 DEF Partial, Trees
    <3>2. key = sources => \A g \in PatchedFiles : cached'[key][g] \in {Absent, key[g]}
      BY <1>0, <2>2, <2>3, <2>5 DEF CacheIsRight, Partial
    <3> QED BY <1>0, <2>1, <2>2, <2>5, <3>1, <3>2 DEF CacheIsRight
  <2>7. \A k \in DOMAIN cached : cached[k] = k => cached'[k] = k
    BY <2>4, <2>5
  <2>8. \A t \in Preparers : KeyIsRight(t)'
    BY <1>0, <2>1, <2>5, <2>7 DEF KeyIsRight
  <2>9. \A t \in Preparers : (EnvIsRight(t) /\ EnvIsOwn(t))'
    BY <1>0, <2>1 DEF EnvIsRight, EnvIsOwn, Applied, Env
  <2>10. PatchTypes'
    BY <1>0, <2>1 DEF PatchTypes
  <2> QED BY <2>6, <2>8, <2>9, <2>10 DEF PatchInv
<1>5. ASSUME NEW s \in Preparers, CopyDone(s) PROVE PatchInv'
  <2>1. /\ prep[s].stage = "copying" /\ \A f \in PatchedFiles : cached[prep[s].key][f] # Absent
        /\ prep' = [prep EXCEPT ![s].stage = "hit"]
        /\ UNCHANGED <<sources, cached, envs, excuse, edits>>
    BY <1>5 DEF CopyDone, Step
  <2>2. prep[s].key \in DOMAIN cached /\ (s \notin excuse => sources = prep[s].key)
    BY <1>0, <2>1 DEF KeyIsRight
  <2>3. ASSUME s \notin excuse PROVE cached[prep[s].key] = prep[s].key
    <3>1. \A f \in PatchedFiles : cached[sources][f] = sources[f]
      BY <1>0, <2>1, <2>2, <2>3 DEF CacheIsRight
    <3>2. cached[sources] \in Partial
      BY <1>0, <2>2, <2>3 DEF CacheIsRight
    <3> QED BY <1>0, <2>2, <2>3, <3>1, <3>2 DEF Partial, Trees
  <2>4. CacheIsRight'
    BY <1>0, <2>1 DEF CacheIsRight
  <2> QED BY <2>1, <2>2, <2>3, <2>4, CachesMove
<1>6. ASSUME NEW s \in Preparers, MakeEnv(s) PROVE PatchInv'
  <2> DEFINE to == IF prep[s].patch = NoPatch THEN "build" ELSE "patch"
             others == {t \in Preparers \ {s} :
                          prep[t].stage \in {"patch", "build"} /\ Env(t) = Env(s)}
  <2>1. /\ prep[s].stage = "hit" /\ envs' = WithDir(envs, Env(s), Fresh(s))
        /\ prep' = [prep EXCEPT ![s].stage = to]
        /\ excuse' = IF others = {} THEN excuse ELSE excuse \cup others \cup {s}
        /\ UNCHANGED <<sources, cached, edits>>
    BY <1>6 DEF MakeEnv, Step
  <2>a. to \in {"patch", "build"} /\ (to = "build" <=> prep[s].patch = NoPatch)
    OBVIOUS
  <2> HIDE DEF to
  <2>2. /\ prep' \in [Preparers -> Prep] /\ prep'[s].stage = to /\ prep'[s].key = prep[s].key
        /\ prep'[s].patch = prep[s].patch /\ \A t \in Preparers \ {s} : prep'[t] = prep[t]
    BY <1>0, <2>1, <2>a DEF Prep
  <2>3. /\ prep[s].key \in DOMAIN cached /\ cached[prep[s].key] \in Partial
        /\ (s \notin excuse => cached[prep[s].key] = prep[s].key)
    BY <1>0, <2>1 DEF KeyIsRight, CacheIsRight
  <2>4. \A t \in Preparers : Env(t)' = Env(t)
    BY <2>2 DEF Env
  <2>5. /\ DOMAIN envs' = DOMAIN envs \cup {Env(s)} /\ envs'[Env(s)] = Fresh(s)
        /\ \A e \in DOMAIN envs \ {Env(s)} : envs'[e] = envs[e]
    BY <2>1 DEF WithDir
  <2>6. Fresh(s) \in Environment /\ Fresh(s).tree = cached[prep[s].key] /\ Fresh(s).applied = <<>>
    BY <2>3 DEF Fresh, Environment
  <2>7. PatchTypes'
    BY <1>0, <2>1, <2>2, <2>5, <2>6 DEF PatchTypes
  <2>8. CacheIsRight'
    BY <1>0, <2>1 DEF CacheIsRight
  <2>9. excuse \subseteq excuse' /\ (s \notin excuse' => others = {})
        /\ \A t \in others : t \in excuse'
    BY <2>1
  <2>10. ASSUME NEW t \in Preparers PROVE KeyIsRight(t)'
    <3>1. CASE t = s
      BY <1>0, <2>1, <2>2, <2>a, <3>1 DEF KeyIsRight
    <3>2. CASE t # s
      BY <1>0, <2>1, <2>2, <2>9, <3>2 DEF KeyIsRight
    <3> QED BY <3>1, <3>2
  <2>11. EnvIsRight(s)'
    <3>1. prep[s].patch \in Patches \cup {NoPatch} /\ NoPatch \notin Patches
      BY <1>0, PatchAssumption DEF Prep
    <3>2. Env(s)' = Env(s) /\ Env(s) \in DOMAIN envs'
      BY <2>4, <2>5
    <3>3. s \notin excuse' => envs'[Env(s)].tree = prep'[s].key /\ envs'[Env(s)].applied = <<>>
      BY <2>2, <2>3, <2>5, <2>6, <2>9
    <3>4. prep'[s].stage = "build" => Applied(s)' = <<>>
      BY <2>2, <2>a DEF Applied
    <3>5. prep'[s].stage = "patch" => prep'[s].patch \in Patches
      BY <2>2, <2>a, <3>1
    <3> QED BY <3>2, <3>3, <3>4, <3>5 DEF EnvIsRight
  <2>12. ASSUME NEW t \in Preparers \ {s} PROVE EnvIsRight(t)'
    <3>1. prep'[t] = prep[t] /\ Env(t)' = Env(t) /\ EnvIsRight(t) /\ Applied(t)' = Applied(t)
      BY <1>0, <2>2, <2>4 DEF Applied
    <3>2. ASSUME prep[t].stage \in {"patch", "build"}, t \notin excuse'
          PROVE  Env(t) # Env(s) /\ envs'[Env(t)] = envs[Env(t)]
      BY <2>5, <2>9, <3>1, <3>2 DEF EnvIsRight
    <3> QED BY <2>5, <2>9, <3>1, <3>2 DEF EnvIsRight
  <2>13. ASSUME NEW t \in Preparers PROVE EnvIsOwn(t)'
    <3>1. CASE t = s
      <4>1. s \notin excuse' =>
              \A u \in Preparers \ {s} : prep'[u].stage \in {"patch", "build"} => Env(u)' # Env(s)'
        BY <2>2, <2>4, <2>9
      <4> QED BY <3>1, <4>1 DEF EnvIsOwn
    <3>2. CASE t # s
      <4>1. ASSUME prep'[t].stage \in {"patch", "build"}, t \notin excuse',
                   NEW u \in Preparers \ {t}, prep'[u].stage \in {"patch", "build"}
            PROVE  Env(u)' # Env(t)'
        <5>1. prep[t].stage \in {"patch", "build"} /\ t \notin excuse /\ EnvIsOwn(t)
          BY <1>0, <2>2, <2>9, <3>2, <4>1
        <5>2. CASE u = s
          BY <2>4, <2>9, <3>2, <4>1, <5>1, <5>2
        <5>3. CASE u # s
          BY <2>2, <2>4, <4>1, <5>1, <5>3 DEF EnvIsOwn
        <5> QED BY <5>2, <5>3
      <4> QED BY <4>1 DEF EnvIsOwn
    <3> QED BY <3>1, <3>2
  <2> QED BY <2>7, <2>8, <2>10, <2>11, <2>12, <2>13 DEF PatchInv
<1>7. ASSUME NEW s \in Preparers, ApplyPatch(s) PROVE PatchInv'
  <2>1. /\ prep[s].stage = "patch" /\ UNCHANGED <<sources, cached, excuse, edits>>
        /\ \/ /\ envs' = [envs EXCEPT ![Env(s)].applied = Append(@, prep[s].patch)]
              /\ prep' = [prep EXCEPT ![s].stage = "build"]
           \/ /\ prep' = [prep EXCEPT ![s].stage = "build", ![s].blocked = TRUE]
              /\ UNCHANGED envs
    BY <1>7 DEF ApplyPatch, Step
  <2>2. /\ Env(s) \in DOMAIN envs /\ envs[Env(s)] \in Environment /\ prep[s].patch \in Patches
        /\ prep[s].patch # NoPatch /\ EnvIsRight(s)
    BY <1>0, <2>1, PatchAssumption DEF EnvIsRight, PatchTypes
  <2> DEFINE new == [envs[Env(s)] EXCEPT !.applied = Append(@, prep[s].patch)]
  <2>3. new \in Environment /\ new.tree = envs[Env(s)].tree
        /\ new.applied = Append(envs[Env(s)].applied, prep[s].patch)
    BY <2>2 DEF Environment
  <2>4. \/ envs' = [envs EXCEPT ![Env(s)] = new] /\ prep' = [prep EXCEPT ![s].stage = "build"]
        \/ UNCHANGED envs /\ prep' = [prep EXCEPT ![s].stage = "build", ![s].blocked = TRUE]
    BY <2>1, <2>2
  <2> HIDE DEF new
  <2>5. PICK blocked \in BOOLEAN :
          /\ prep' = [prep EXCEPT ![s] = [prep[s] EXCEPT !.stage = "build", !.blocked = blocked]]
          /\ envs' = [envs EXCEPT ![Env(s)] = new] \/ (blocked /\ envs' = envs)
    <3>1. CASE envs' = [envs EXCEPT ![Env(s)] = new] /\ prep' = [prep EXCEPT ![s].stage = "build"]
      <4>1. prep[s].blocked \in BOOLEAN
        BY <1>0 DEF Prep
      <4>2. prep' = [prep EXCEPT ![s] = [prep[s] EXCEPT !.stage = "build", !.blocked = prep[s].blocked]]
        BY <1>0, <3>1 DEF Prep
      <4> QED BY <3>1, <4>1, <4>2
    <3>2. CASE UNCHANGED envs /\ prep' = [prep EXCEPT ![s].stage = "build", ![s].blocked = TRUE]
      <4>1. prep' = [prep EXCEPT ![s] = [prep[s] EXCEPT !.stage = "build", !.blocked = TRUE]]
        BY <1>0, <3>2
      <4> QED BY <3>2, <4>1
    <3> QED BY <2>4, <3>1, <3>2
  <2>6. /\ prep' \in [Preparers -> Prep] /\ prep'[s].stage = "build" /\ prep'[s].key = prep[s].key
        /\ prep'[s].patch = prep[s].patch /\ prep'[s].blocked = blocked
        /\ \A t \in Preparers \ {s} : prep'[t] = prep[t]
    BY <1>0, <2>5 DEF Prep
  <2>7. \A t \in Preparers : Env(t)' = Env(t)
    BY <2>6 DEF Env
  <2>8. /\ DOMAIN envs' = DOMAIN envs /\ \A e \in DOMAIN envs \ {Env(s)} : envs'[e] = envs[e]
        /\ envs'[Env(s)] = new \/ (blocked /\ envs' = envs)
    BY <2>2, <2>5
  <2>9. PatchTypes'
    BY <1>0, <2>1, <2>3, <2>6, <2>8 DEF PatchTypes
  <2>10. CacheIsRight'
    BY <1>0, <2>1 DEF CacheIsRight
  <2>11. ASSUME NEW t \in Preparers PROVE KeyIsRight(t)'
    <3>1. CASE t = s
      BY <1>0, <2>1, <2>6, <3>1 DEF KeyIsRight
    <3>2. CASE t # s
      BY <1>0, <2>1, <2>6, <3>2 DEF KeyIsRight
    <3> QED BY <3>1, <3>2
  <2>12. EnvIsRight(s)'
    <3>1. ASSUME s \notin excuse
          PROVE  envs'[Env(s)].tree = prep[s].key /\ (~blocked => envs'[Env(s)].applied = <<prep[s].patch>>)
      <4>1. envs[Env(s)].tree = prep[s].key /\ envs[Env(s)].applied = <<>>
        BY <2>1, <2>2, <3>1 DEF EnvIsRight
      <4> QED BY <2>3, <2>8, <4>1
    <3>2. Applied(s)' = <<prep[s].patch>>
      BY <2>2, <2>6 DEF Applied
    <3> QED BY <2>1, <2>2, <2>6, <2>7, <2>8, <3>1, <3>2 DEF EnvIsRight
  <2>13. ASSUME NEW t \in Preparers \ {s} PROVE EnvIsRight(t)'
    <3>1. prep'[t] = prep[t] /\ Env(t)' = Env(t) /\ EnvIsRight(t) /\ EnvIsOwn(t) /\ Applied(t)' = Applied(t)
      BY <1>0, <2>6, <2>7 DEF Applied
    <3>2. ASSUME prep[t].stage \in {"patch", "build"}, t \notin excuse
          PROVE  Env(t) # Env(s) /\ envs'[Env(t)] = envs[Env(t)]
      BY <2>1, <2>8, <3>1, <3>2 DEF EnvIsRight, EnvIsOwn
    <3> QED BY <2>1, <2>8, <3>1, <3>2 DEF EnvIsRight
  <2>14. ASSUME NEW t \in Preparers PROVE EnvIsOwn(t)'
    <3>1. \A u \in Preparers : prep'[u].stage \in {"patch", "build"} <=> prep[u].stage \in {"patch", "build"}
      BY <2>1, <2>6
    <3> QED BY <1>0, <2>1, <2>7, <3>1 DEF EnvIsOwn
  <2> QED BY <2>9, <2>10, <2>11, <2>12, <2>13, <2>14 DEF PatchInv
<1>8. ASSUME NEW f \in PatchedFiles, EditFile(f) PROVE PatchInv'
  <2>1. /\ edits' = edits + 1 /\ sources' = [sources EXCEPT ![f] = edits'] /\ UNCHANGED <<cached, envs, prep>>
        /\ excuse' = excuse \cup {s \in Preparers : prep[s].stage \in {"miss", "copying"}}
    BY <1>8 DEF EditFile
  <2>2. /\ edits' \in Nat /\ sources' \in Trees /\ \A g \in PatchedFiles : sources'[g] <= edits'
        /\ sources'[f] = edits + 1
    BY <1>0, <2>1 DEF Trees
  <2>3. PatchTypes'
    BY <1>0, <2>1, <2>2 DEF PatchTypes
  <2>4. CacheIsRight'
    <3>1. ASSUME NEW k \in DOMAIN cached PROVE k # sources' /\ \A g \in PatchedFiles : k[g] <= edits'
      <4>1. k \in Trees /\ \A g \in PatchedFiles : k[g] \in Nat /\ k[g] <= edits
        BY <1>0 DEF CacheIsRight, Trees
      <4> QED BY <1>0, <2>1, <2>2, <4>1
    <3> QED BY <1>0, <2>1, <3>1 DEF CacheIsRight
  <2>5. \A t \in Preparers : KeyIsRight(t)'
    <3>1. ASSUME NEW t \in Preparers PROVE KeyIsRight(t)'
      <4>1. prep[t].stage # "idle" => \A g \in PatchedFiles : prep[t].key[g] <= edits'
        <5>1. ASSUME prep[t].stage # "idle", NEW g \in PatchedFiles PROVE prep[t].key[g] <= edits'
          <6>1. prep[t].key \in Trees /\ prep[t].key[g] <= edits
            BY <1>0, <5>1 DEF KeyIsRight
          <6> QED BY <1>0, <2>1, <6>1 DEF Trees
        <5> QED BY <5>1
      <4> QED BY <1>0, <2>1, <4>1 DEF KeyIsRight
    <3> QED BY <3>1
  <2>6. \A t \in Preparers : (EnvIsRight(t) /\ EnvIsOwn(t))'
    BY <1>0, <2>1 DEF EnvIsRight, EnvIsOwn, Applied, Env
  <2> QED BY <2>3, <2>4, <2>5, <2>6 DEF PatchInv
<1>9. CASE UNCHANGED patchVars
  BY <1>0, <1>9 DEF patchVars, PatchInv, PatchTypes, CacheIsRight, KeyIsRight, EnvIsRight, EnvIsOwn,
                    Applied, Env
<1> QED BY <1>1, <1>2, <1>3, <1>4, <1>5, <1>6, <1>7, <1>8, <1>9 DEF PatchNext

\* An environment reported without blockers holds the sources as they were when it
\* was asked for and its patch once, unless its cache was unfinished, the sources
\* changed while they were copied, or another session was making the same one
\* (prepare_patch_environment).
THEOREM ReadyHoldsPatch == PatchSpec => ReadyIsPatchedSource
<1>1. PatchInit => PatchInv
  <2> SUFFICES ASSUME PatchInit PROVE PatchInv
    OBVIOUS
  <2>1. Idle \in Prep /\ Idle.stage = "idle" /\ Tree(0) \in Trees
    BY DEF Idle, Prep, Partial, Empty, Tree, Trees
  <2>2. prep \in [Preparers -> Prep] /\ \A s \in Preparers : prep[s].stage = "idle"
    BY <2>1 DEF PatchInit
  <2>3. DOMAIN cached = {} /\ DOMAIN envs = {}
    BY DEF PatchInit
  <2>4. PatchTypes /\ CacheIsRight
    BY <2>1, <2>2, <2>3 DEF PatchInit, PatchTypes, CacheIsRight, Tree
  <2> QED BY <2>2, <2>4 DEF PatchInv, KeyIsRight, EnvIsRight, EnvIsOwn
<1>2. PatchInv /\ [PatchNext]_patchVars =>
        [\A s \in Preparers \ excuse :
           Ready(s) =>
             /\ envs[Env(s)].tree = prep[s].key
             /\ envs[Env(s)].applied = IF prep[s].patch = NoPatch THEN <<>> ELSE <<prep[s].patch>>
        ]_patchVars
  BY DEF PatchInv, EnvIsRight, Applied, Ready
<1> QED BY <1>1, <1>2, PatchInvStep, PTL DEF PatchSpec, ReadyIsPatchedSource

-----------------------------------------------------------------------------
(* The codec of a target *)

CodecStages == {"copy", "load", "child", "orphan", "judge", "write"}

StagedFiles == [input : CodecSamples, numbered : BOOLEAN]

CodecCall ==
  [stage : CodecStages, digest : Versions, loaded : Versions, files : SUBSET StagedFiles,
   good : BOOLEAN, wrote : BOOLEAN, ran : BOOLEAN, alone : BOOLEAN]

CodecStatusType == [script : SUBSET Versions, validated : BOOLEAN]

\* What a validation that loaded version v finds of the files.
PassesOn(v, looked) ==
  /\ Enough(ParsedBy(v, looked), looked)
  /\ Strict => KeepsObjects(v, ParsedBy(v, looked))

\* A validation with none beside is the only one.
Solo(p) == p \in Validators /\ coding[p].alone => Validating = {p}

\* What a call has found out, and whose probe it is judged by.
SoundCall(p) ==
  /\ coding[p].stage \in {"orphan", "write"} => p \in Validators
  /\ coding[p].stage \in {"copy", "load", "child"} => ~coding[p].good /\ ~coding[p].wrote
  /\ coding[p].stage = "judge" /\ coding[p].wrote /\ coding[p].alone /\ p \in Validators =>
       probe = {coding[p].loaded}
  /\ coding[p].stage = "write" /\ coding[p].good =>
       /\ PassesOn(coding[p].loaded, coding[p].files)
       /\ coding[p].ran /\ coding[p].alone => coding[p].loaded \in Reaches

SoundStatus ==
  \A last \in accepted :
    \E v \in Versions :
      /\ codecStatus.script = {v} /\ PassesOn(v, last.files)
      /\ last.ran /\ last.alone => v \in Reaches

CodecInv ==
  /\ script \in Versions /\ staging \subseteq StagedFiles
  /\ coding \in [CodecCalls -> {NoCall} \cup CodecCall]
  /\ codecStatus \in CodecStatusType
  /\ SoundStatus
  /\ \A p \in CodecCalls : coding[p].stage # "idle" => Solo(p) /\ SoundCall(p)

\* A step of call p.  Only a validation touches the probe, and another one is then
\* not alone.
LEMMA CallGoesOn ==
  ASSUME CodecInv, NEW p \in CodecCalls, NEW new \in {NoCall} \cup CodecCall,
         coding' = [coding EXCEPT ![p] = new], coding[p].stage # "idle",
         UNCHANGED script, staging' \subseteq StagedFiles,
         codecStatus' \in CodecStatusType, SoundStatus',
         UNCHANGED probe \/ p \in Validators,
         new.stage # "idle" => new.alone = coding[p].alone /\ SoundCall(p)'
  PROVE  CodecInv'
<1>1. /\ coding' \in [CodecCalls -> {NoCall} \cup CodecCall] /\ coding'[p] = new
      /\ \A q \in CodecCalls \ {p} : coding'[q] = coding[q]
  BY DEF CodecInv
<1>2. \A q \in CodecCalls : coding[q].stage # "idle" => Solo(q) /\ SoundCall(q)
  BY DEF CodecInv
<1>3. Validators \subseteq CodecCalls
  BY DEF CodecCalls
<1>4. ASSUME NEW q \in CodecCalls, coding'[q].stage # "idle" PROVE Solo(q)' /\ SoundCall(q)'
  <2>1. CASE q = p
    <3>1. new.alone = coding[p].alone /\ SoundCall(p)'
      BY <1>1, <1>4, <2>1
    <3>2. ASSUME p \in Validators, new.alone PROVE Validating' = {p}
      <4>1. Validating = {p}
        BY <1>2, <3>1, <3>2 DEF Solo
      <4> QED BY <1>1, <1>3, <1>4, <2>1, <3>2, <4>1 DEF Validating
    <3> QED BY <1>1, <2>1, <3>1, <3>2 DEF Solo
  <2>2. CASE q # p
    <3>1. coding'[q] = coding[q] /\ Solo(q) /\ SoundCall(q)
      BY <1>1, <1>2, <1>4, <2>2
    <3>2. ASSUME q \in Validators, coding[q].alone PROVE Validating' = {q} /\ UNCHANGED probe
      <4>1. Validating = {q}
        BY <3>1, <3>2 DEF Solo
      <4>2. p \notin Validators
        BY <2>2, <4>1 DEF Validating
      <4> QED BY <1>1, <1>3, <3>1, <4>1, <4>2 DEF Validating
    <3>3. Solo(q)'
      BY <3>1, <3>2 DEF Solo
    <3>4. SoundCall(q)'
      BY <3>1, <3>2 DEF SoundCall
    <3> QED BY <3>3, <3>4
  <2> QED BY <2>1, <2>2
<1> QED BY <1>1, <1>4 DEF CodecInv

LEMMA CodecInvStep == CodecInv /\ [CodecNext]_codecVars => CodecInv'
<1> SUFFICES ASSUME CodecInv, [CodecNext]_codecVars PROVE CodecInv'
  OBVIOUS
<1>inv. /\ script \in Versions /\ staging \subseteq StagedFiles
        /\ coding \in [CodecCalls -> {NoCall} \cup CodecCall]
        /\ codecStatus \in CodecStatusType
        /\ SoundStatus
  BY DEF CodecInv
<1>idle. NoCall.stage = "idle" /\ "idle" \notin CodecStages
  BY DEF NoCall, CodecStages
<1>call. \A p \in CodecCalls : coding[p].stage # "idle" =>
           /\ coding[p] \in CodecCall
           /\ coding[p].digest \in Versions /\ coding[p].loaded \in Versions
           /\ coding[p].files \subseteq StagedFiles
           /\ coding[p].good \in BOOLEAN /\ coding[p].wrote \in BOOLEAN /\ coding[p].ran \in BOOLEAN
           /\ coding[p].alone \in BOOLEAN
  BY <1>inv, <1>idle DEF CodecCall
<1>sound. \A p \in CodecCalls : coding[p].stage # "idle" => Solo(p) /\ SoundCall(p)
  BY DEF CodecInv
<1>0. ASSUME UNCHANGED codecVars PROVE CodecInv'
  BY <1>0 DEF codecVars, CodecInv, Solo, SoundCall, SoundStatus, Validating
<1>same. ASSUME UNCHANGED <<codecStatus, accepted>> PROVE SoundStatus'
  BY <1>inv, <1>same DEF SoundStatus
<1>ends. ASSUME NEW p \in CodecCalls, Done(p), coding[p].stage # "idle",
               UNCHANGED <<script, codecStatus, accepted>>, staging' \subseteq StagedFiles,
               UNCHANGED probe \/ p \in Validators
         PROVE  CodecInv'
  BY <1>idle, <1>inv, <1>ends, <1>same, CallGoesOn DEF Done
<1>1. ASSUME NEW p \in CodecCalls, BeginCodec(p) PROVE CodecInv'
  <2> DEFINE new == [stage |-> "copy", digest |-> script, loaded |-> script,
        files |-> {}, good |-> FALSE, wrote |-> FALSE, ran |-> FALSE,
        alone |-> p \notin Validators \/ Validating = {}]
  <2>1. /\ new \in CodecCall /\ new.stage = "copy" /\ ~new.good /\ ~new.wrote
        /\ p \in Validators /\ new.alone => Validating = {}
    BY <1>inv DEF CodecCall, CodecStages
  <2>2. /\ coding[p].stage = "idle" /\ staging' = {}
        /\ UNCHANGED <<script, probe, codecStatus, accepted>>
    BY <1>1 DEF BeginCodec
  <2>3. /\ coding' = [q \in CodecCalls |-> coding'[q]] /\ coding'[p] = new
        /\ \A q \in CodecCalls \ {p} : coding'[q] =
             IF q \in Validating /\ p \in Validators THEN [coding[q] EXCEPT !.alone = FALSE]
             ELSE coding[q]
    BY <1>1 DEF BeginCodec
  <2> HIDE DEF new
  <2>4. ASSUME NEW q \in CodecCalls, q \in Validating, p \in Validators
        PROVE  LET aside == [coding[q] EXCEPT !.alone = FALSE] IN
               /\ aside \in CodecCall /\ aside.stage = coding[q].stage
               /\ aside.good = coding[q].good /\ aside.wrote = coding[q].wrote
               /\ aside.loaded = coding[q].loaded /\ aside.files = coding[q].files
               /\ aside.alone = FALSE
    <3>1. coding[q] \in CodecCall
      BY <1>call, <2>4 DEF Validating
    <3> QED BY <3>1 DEF CodecCall
  <2>5. coding' \in [CodecCalls -> {NoCall} \cup CodecCall]
    <3>1. \A q \in CodecCalls : coding'[q] \in {NoCall} \cup CodecCall
      BY <1>inv, <2>1, <2>3, <2>4
    <3> QED BY <2>3, <3>1
  <2>6. ASSUME NEW q \in CodecCalls, coding'[q].stage # "idle" PROVE Solo(q)' /\ SoundCall(q)'
    <3>1. CASE q = p
      <4>1. ASSUME p \in Validators, new.alone PROVE Validating' = {p}
        <5>1. Validating = {}
          BY <2>1, <4>1
        <5>2. \A r \in Validators : r # p => coding'[r].stage = "idle"
          BY <2>3, <5>1 DEF Validating, CodecCalls
        <5> QED BY <2>1, <2>3, <4>1, <5>2 DEF Validating
      <4> QED BY <2>1, <2>3, <3>1, <4>1 DEF Solo, SoundCall
    <3>2. CASE q # p /\ q \in Validating /\ p \in Validators
      <4>1. coding[q].stage # "idle" /\ SoundCall(q)
        BY <1>sound, <3>2 DEF Validating
      <4>2. coding'[q].alone = FALSE
        BY <2>3, <2>4, <3>2
      <4>3. /\ coding'[q].stage = coding[q].stage /\ coding'[q].good = coding[q].good
            /\ coding'[q].wrote = coding[q].wrote /\ coding'[q].loaded = coding[q].loaded
            /\ coding'[q].files = coding[q].files
        BY <2>3, <2>4, <3>2
      <4> QED BY <4>1, <4>2, <4>3 DEF Solo, SoundCall
    <3>3. CASE q # p /\ ~(q \in Validating /\ p \in Validators)
      <4>1. coding'[q] = coding[q] /\ Solo(q) /\ SoundCall(q)
        BY <1>sound, <2>3, <2>6, <3>3
      <4>2. ASSUME q \in Validators, coding[q].alone PROVE Validating' = {q}
        <5>1. p \notin Validators
          BY <2>6, <3>3, <4>1, <4>2 DEF Validating
        <5>2. \A r \in Validators : coding'[r] = coding[r]
          BY <2>3, <5>1 DEF CodecCalls
        <5>3. Validating' = Validating
          BY <5>2 DEF Validating
        <5> QED BY <4>1, <4>2, <5>3 DEF Solo
      <4>3. Solo(q)'
        BY <4>1, <4>2 DEF Solo
      <4>4. SoundCall(q)'
        BY <2>2, <4>1 DEF SoundCall
      <4> QED BY <4>3, <4>4
    <3> QED BY <3>1, <3>2, <3>3
  <2> QED BY <1>inv, <1>same, <2>2, <2>5, <2>6 DEF CodecInv
<1>2. ASSUME NEW p \in CodecCalls, NEW inputs \in SUBSET CodecSamples, CopyInputs(p, inputs)
      PROVE  CodecInv'
  <2> DEFINE new == [coding[p] EXCEPT !.stage = "load", !.files = staging']
  <2>1. coding[p].stage = "copy" /\ coding[p] \in CodecCall
    BY <1>2, <1>call DEF CopyInputs
  <2>2. staging' = staging \cup Files(p, inputs) /\ UNCHANGED <<script, codecStatus, accepted>>
        /\ coding' = [coding EXCEPT ![p] = new] /\ (UNCHANGED probe \/ p \in Validators)
    BY <1>2 DEF CopyInputs
  <2>3. Files(p, inputs) \subseteq StagedFiles
    <3>1. \A x \in inputs : [input |-> x, numbered |-> p \in Decoders] \in StagedFiles
      BY DEF StagedFiles
    <3> QED BY <3>1 DEF Files
  <2>4. staging' \subseteq StagedFiles
    BY <1>inv, <2>2, <2>3
  <2>5. /\ new \in CodecCall /\ new.stage = "load" /\ new.alone = coding[p].alone
        /\ new.good = coding[p].good /\ new.wrote = coding[p].wrote
    BY <2>1, <2>4 DEF CodecCall, CodecStages
  <2> HIDE DEF new
  <2>6. SoundCall(p)'
    <3>1. SoundCall(p) /\ coding'[p] = new
      BY <1>inv, <1>sound, <2>1, <2>2
    <3> QED BY <2>1, <2>5, <3>1 DEF SoundCall
  <2> QED BY <1>inv, <1>same, <2>1, <2>2, <2>4, <2>5, <2>6, CallGoesOn
<1>3. ASSUME NEW p \in CodecCalls, CopyFails(p) PROVE CodecInv'
  BY <1>3, <1>ends DEF CopyFails
<1>4. ASSUME NEW p \in CodecCalls, LoadScript(p) PROVE CodecInv'
  <2> DEFINE new == [coding[p] EXCEPT !.stage = "child", !.loaded = script, !.files = staging]
  <2>1. coding[p].stage = "load" /\ coding[p] \in CodecCall
    BY <1>4, <1>call DEF LoadScript
  <2>2. UNCHANGED <<script, staging, probe, codecStatus, accepted>>
        /\ coding' = [coding EXCEPT ![p] = new]
    BY <1>4 DEF LoadScript
  <2>3. /\ new \in CodecCall /\ new.stage = "child" /\ new.alone = coding[p].alone
        /\ new.good = coding[p].good /\ new.wrote = coding[p].wrote
    BY <1>inv, <2>1 DEF CodecCall, CodecStages
  <2> HIDE DEF new
  <2>4. SoundCall(p)'
    <3>1. SoundCall(p) /\ coding'[p] = new
      BY <1>inv, <1>sound, <2>1, <2>2
    <3> QED BY <2>1, <2>3, <3>1 DEF SoundCall
  <2> QED BY <1>inv, <1>same, <2>1, <2>2, <2>3, <2>4, CallGoesOn
<1>5. ASSUME NEW p \in CodecCalls, ChildReports(p) PROVE CodecInv'
  <2>1. PICK wrote \in BOOLEAN :
          /\ wrote => Probes(p)
          /\ probe' = IF wrote THEN {coding[p].loaded} ELSE probe
          /\ coding' = [coding EXCEPT ![p].stage = "judge", ![p].good = TRUE, ![p].wrote = wrote]
    BY <1>5 DEF ChildReports
  <2> DEFINE new == [coding[p] EXCEPT !.stage = "judge", !.good = TRUE, !.wrote = wrote]
  <2>2. coding[p].stage = "child" /\ coding[p] \in CodecCall
    BY <1>5, <1>call DEF ChildReports
  <2>3. /\ UNCHANGED <<script, codecStatus, accepted>> /\ staging' = {}
        /\ coding' = [coding EXCEPT ![p] = new] /\ (UNCHANGED probe \/ p \in Validators)
    BY <1>5, <1>inv, <2>1 DEF ChildReports, Probes
  <2>4. /\ new \in CodecCall /\ new.stage = "judge" /\ new.alone = coding[p].alone
        /\ new.loaded = coding[p].loaded /\ new.wrote = wrote
    BY <2>2 DEF CodecCall, CodecStages
  <2> HIDE DEF new
  <2>5. SoundCall(p)'
    <3>1. coding'[p] = new
      BY <1>inv, <2>3
    <3> QED BY <2>1, <2>4, <3>1 DEF SoundCall
  <2> QED BY <1>inv, <1>same, <2>2, <2>3, <2>4, <2>5, CallGoesOn
<1>6. ASSUME NEW p \in CodecCalls, ChildFails(p) PROVE CodecInv'
  <2> DEFINE new == [coding[p] EXCEPT !.stage = "judge", !.files = {}]
  <2>1. coding[p].stage \in {"load", "child"} /\ coding[p] \in CodecCall
    BY <1>6, <1>call DEF ChildFails
  <2>2. UNCHANGED <<script, probe, codecStatus, accepted>> /\ staging' = {}
        /\ coding' = [coding EXCEPT ![p] = new]
    BY <1>6, <1>inv DEF ChildFails
  <2>3. /\ new \in CodecCall /\ new.stage = "judge" /\ new.alone = coding[p].alone
        /\ new.wrote = coding[p].wrote
    BY <2>1 DEF CodecCall, CodecStages
  <2> HIDE DEF new
  <2>4. SoundCall(p)'
    <3>1. SoundCall(p) /\ coding'[p] = new
      BY <1>inv, <1>sound, <2>1, <2>2
    <3> QED BY <2>1, <2>3, <3>1 DEF SoundCall
  <2> QED BY <1>inv, <1>same, <2>1, <2>2, <2>3, <2>4, CallGoesOn
<1>7. ASSUME NEW p \in CodecCalls, Decode(p) \/ WriteFails(p) PROVE CodecInv'
  BY <1>7, <1>ends, <1>inv DEF Decode, WriteFails
<1>8. ASSUME NEW p \in CodecCalls, Judge(p) PROVE CodecInv'
  <2> DEFINE accepts == /\ coding[p].good /\ coding[p].wrote = (probe # {})
                        /\ Enough(Parsed(p), coding[p].files)
                        /\ Strict => KeepsObjects(coding[p].loaded, Parsed(p))
  <2>1. PICK ran \in BOOLEAN :
          /\ ran => accepts /\ probe # {}
          /\ coding' = [coding EXCEPT ![p].stage = "write", ![p].ran = ran,
                       ![p].good = accepts /\ (ran => probe \subseteq Reaches)]
    BY <1>8 DEF Judge
  <2> DEFINE good == accepts /\ (ran => probe \subseteq Reaches)
             new == [coding[p] EXCEPT !.stage = "write", !.ran = ran, !.good = good]
  <2>2. coding[p].stage = "judge" /\ coding[p] \in CodecCall /\ p \in Validators
    BY <1>8, <1>call DEF Judge
  <2>3. UNCHANGED <<script, staging, probe, codecStatus, accepted>>
        /\ coding' = [coding EXCEPT ![p] = new]
    BY <1>8, <1>inv, <2>1 DEF Judge
  <2>4. good \in BOOLEAN
    OBVIOUS
  <2>5. good => accepts
    OBVIOUS
  <2>6. good /\ ran => probe \subseteq Reaches /\ probe # {}
    BY <2>1
  <2>7. /\ accepts /\ probe # {} => coding[p].wrote
        /\ accepts => PassesOn(coding[p].loaded, coding[p].files)
    <3>1. coding[p].wrote \in BOOLEAN /\ (probe # {}) \in BOOLEAN
      BY <2>2 DEF CodecCall
    <3>2. accepts => PassesOn(coding[p].loaded, coding[p].files)
      BY DEF PassesOn, Parsed
    <3> QED BY <3>1, <3>2
  <2> HIDE DEF accepts, good
  <2>8. /\ new \in CodecCall /\ new.stage = "write" /\ new.good = good /\ new.ran = ran
        /\ new.loaded = coding[p].loaded /\ new.files = coding[p].files
        /\ new.alone = coding[p].alone
    BY <2>2, <2>4 DEF CodecCall, CodecStages
  <2> HIDE DEF new
  <2>9. SoundCall(p)'
    <3>1. SoundCall(p) /\ coding'[p] = new
      BY <1>inv, <1>sound, <2>2, <2>3
    <3>2. good /\ ran /\ coding[p].alone => coding[p].loaded \in Reaches
      BY <2>2, <2>5, <2>6, <2>7, <3>1 DEF SoundCall
    <3> QED BY <2>2, <2>5, <2>7, <2>8, <3>1, <3>2 DEF SoundCall
  <2> QED BY <1>inv, <1>same, <2>2, <2>3, <2>8, <2>9, CallGoesOn
<1>9. ASSUME NEW p \in CodecCalls, WriteStatus(p) PROVE CodecInv'
  <2>1. coding[p].stage = "write" /\ coding[p].digest \in Versions /\ coding[p].good \in BOOLEAN
    BY <1>9, <1>call DEF WriteStatus
  <2>2. /\ codecStatus' = [script |-> {coding[p].digest}, validated |-> coding[p].good]
        /\ accepted' =
             IF coding[p].good /\ coding[p].loaded = coding[p].digest
             THEN {[files |-> coding[p].files, ran |-> coding[p].ran, alone |-> coding[p].alone]}
             ELSE {}
        /\ Done(p) /\ UNCHANGED <<script, staging, probe>>
    BY <1>9 DEF WriteStatus
  <2>3. codecStatus' \in CodecStatusType
    BY <2>1, <2>2 DEF CodecStatusType
  <2>4. SoundStatus'
    <3> SUFFICES ASSUME coding[p].good, coding[p].loaded = coding[p].digest
                 PROVE  /\ PassesOn(coding[p].digest, coding[p].files)
                        /\ coding[p].ran /\ coding[p].alone => coding[p].digest \in Reaches
      BY <2>1, <2>2 DEF SoundStatus
    <3>1. SoundCall(p)
      BY <1>sound, <2>1
    <3> QED BY <2>1, <3>1 DEF SoundCall
  <2>5. coding' = [coding EXCEPT ![p] = NoCall]
    BY <2>2 DEF Done
  <2> QED BY <1>idle, <1>inv, <2>1, <2>2, <2>3, <2>4, <2>5, CallGoesOn
<1>10. ASSUME NEW p \in CodecCalls, OrphanEnds(p) PROVE CodecInv'
  <2>1. coding[p].stage = "orphan" /\ Done(p) /\ UNCHANGED <<script, staging, codecStatus, accepted>>
    BY <1>10 DEF OrphanEnds
  <2>2. p \in Validators
    BY <1>sound, <2>1 DEF SoundCall
  <2> QED BY <1>ends, <1>inv, <2>1, <2>2
<1>11. ASSUME NEW p \in CodecCalls, CodecDies(p) PROVE CodecInv'
  <2>1. coding[p].stage \notin {"idle", "orphan"}
        /\ UNCHANGED <<script, staging, probe, codecStatus, accepted>>
    BY <1>11 DEF CodecDies
  <2>2. CASE ~(coding[p].stage = "child" /\ Probes(p))
    BY <1>11, <1>ends, <1>inv, <2>1, <2>2 DEF CodecDies
  <2>3. CASE coding[p].stage = "child" /\ Probes(p)
    <3> DEFINE new == [coding[p] EXCEPT !.stage = "orphan"]
    <3>1. coding' = [coding EXCEPT ![p] = new] /\ coding[p] \in CodecCall /\ p \in Validators
      BY <1>11, <1>call, <2>1, <2>3 DEF CodecDies, Enters, Probes
    <3>2. new \in CodecCall /\ new.stage = "orphan" /\ new.alone = coding[p].alone
      BY <3>1 DEF CodecCall, CodecStages
    <3> HIDE DEF new
    <3>3. SoundCall(p)'
      <4>1. coding'[p] = new
        BY <1>inv, <3>1
      <4> QED BY <3>1, <3>2, <4>1 DEF SoundCall
    <3> QED BY <1>inv, <1>same, <2>1, <2>3, <3>1, <3>2, <3>3, CallGoesOn
  <2> QED BY <2>2, <2>3
<1>12. ASSUME NEW v \in Versions, EditScript(v) PROVE CodecInv'
  BY <1>12, <1>inv, <1>same, <1>sound DEF EditScript, CodecInv, Solo, SoundCall, Validating
<1>13. ASSUME NEW p \in CodecCalls, NEW inputs \in SUBSET CodecSamples \ {{}}, CopyInputs(p, inputs)
       PROVE  CodecInv'
  BY <1>2, <1>13
<1> QED BY <1>0, <1>1, <1>3, <1>4, <1>5, <1>6, <1>7, <1>8, <1>9, <1>10, <1>11, <1>12, <1>13
        DEF CodecNext

\* What a decode returns without blockers and as validated was decoded by a script
\* that decodes enough of the units the validation looked at, keeps the objects of
\* those, and reached a function by its replayed probe: for any samples, versions
\* and numbers of calls of both modes.
THEOREM DecodedByWhatWasValidated == CodecSpec => DecodedByValidated
<1>1. CodecInit => CodecInv
  <2> SUFFICES ASSUME CodecInit PROVE CodecInv
    OBVIOUS
  <2>1. coding = [p \in CodecCalls |-> NoCall] /\ NoCall.stage = "idle"
    BY DEF CodecInit, NoCall
  <2>2. codecStatus \in CodecStatusType
    BY DEF CodecInit, NoStatus, CodecStatusType
  <2> QED BY <2>1, <2>2 DEF CodecInit, CodecInv, SoundStatus
<1>2. ASSUME CodecInv, NEW p \in Decoders, Decode(p), Returned(p).ok,
             coding[p].loaded = coding[p].digest, NEW last \in accepted
      PROVE  LET v == coding[p].loaded
                 validated == ParsedBy(v, last.files) IN
             /\ Enough(validated, last.files)
             /\ Strict => KeepsObjects(v, validated)
             /\ last.ran /\ last.alone => v \in Reaches
  <2>1. PICK v \in Versions :
          /\ codecStatus.script = {v} /\ PassesOn(v, last.files)
          /\ last.ran /\ last.alone => v \in Reaches
    BY <1>2 DEF CodecInv, SoundStatus
  <2>2. coding[p].digest = v
    BY <1>2, <2>1 DEF Returned, Stale
  <2> QED BY <1>2, <2>1, <2>2 DEF PassesOn
<1>3. CodecInv /\ [CodecNext]_codecVars =>
        [\A p \in Decoders :
           LET v == coding[p].loaded IN
           Decode(p) /\ Returned(p).ok /\ Returned(p).validated /\ v = coding[p].digest =>
             \A last \in accepted :
               LET validated == ParsedBy(v, last.files) IN
               /\ Enough(validated, last.files)
               /\ Strict => KeepsObjects(v, validated)
               /\ last.ran /\ last.alone => v \in Reaches]_codecVars
  BY <1>2
<1> QED BY <1>1, <1>3, CodecInvStep, PTL DEF CodecSpec, DecodedByValidated

-----------------------------------------------------------------------------
(* The index of a weighted corpus *)

\* Each of the names has a line, made against the words.
Lined(vocabulary, names, table) ==
  \A n \in names : n \in DOMAIN table /\ table[n].against = vocabulary

Updating == {"index", "append", "compact", "save"}

\* What an update has computed, and what of it the files hold at each stage.
\* It adds lines for names that are not listed yet, so that those of the listed
\* ones stay until it compacts.
UpdateInv ==
  /\ weighing \in {"index", "append", "compact"} /\ listed.words = update.words =>
       Lined(listed.words, listed.names \ cut, rows)
  /\ weighing = "save" /\ listed.words = update.words =>
       Lined(listed.words, (listed.names \ cut) \ update.dropped, rows)
  /\ weighing = "index" =>
       update.lost = {} /\ (listed.words # update.words => rows = <<>>)
  /\ weighing \in {"append", "compact"} =>
       /\ Lined(update.words, update.names \ (cut \cup update.lost), update.rows)
       /\ update.names \subseteq update.seen
       /\ update.lost \subseteq DOMAIN update.new
       /\ listed.words = update.words =>
            /\ listed.names \cap DOMAIN update.new = {}
            /\ listed.names \cap update.seen \subseteq update.names
  /\ weighing = "append" => update.rows = LastLines(update.new, rows)
  /\ weighing \in {"compact", "save"} =>
       Lined(update.words, update.names \ (cut \cup update.lost), rows)

IndexInv ==
  /\ update = [words |-> update.words, seen |-> update.seen, names |-> update.names,
               new |-> update.new, rows |-> update.rows, lost |-> update.lost,
               dropped |-> update.dropped]
  /\ UpdateInv
  /\ weighing \notin Updating => Lined(listed.words, listed.names \ cut, rows)

\* Appended lines are in force, and those of other names stay.
LEMMA Appended ==
  ASSUME NEW old, NEW new, NEW more \in SUBSET DOMAIN new
  PROVE  LET after == LastLines(Restrict(new, more), old) IN
         /\ \A n \in more : n \in DOMAIN after /\ after[n] = new[n]
         /\ \A n \in DOMAIN old \ DOMAIN new : n \in DOMAIN after /\ after[n] = old[n]
<1> DEFINE some == Restrict(new, more)
<1>1. DOMAIN some = more /\ \A n \in more : some[n] = new[n]
  BY DEF Restrict
<1> HIDE DEF some
<1>2. /\ \A n \in more : n \in DOMAIN LastLines(some, old) /\ LastLines(some, old)[n] = new[n]
      /\ \A n \in DOMAIN old \ DOMAIN new :
           n \in DOMAIN LastLines(some, old) /\ LastLines(some, old)[n] = old[n]
  BY <1>1 DEF LastLines
<1> QED BY <1>2 DEF some

LEMMA IndexInvStep == IndexInv /\ [WeightsNext]_weightsVars => IndexInv'
<1> SUFFICES ASSUME IndexInv, [WeightsNext]_weightsVars PROVE IndexInv'
  OBVIOUS
<1> DEFINE none == [words |-> {}, seen |-> {}, names |-> {}, new |-> <<>>, rows |-> <<>>,
                    lost |-> {}, dropped |-> {}]
<1>1. CASE Invalidate
  <2>1. update' = [words |-> words, seen |-> {}, names |-> {}, new |-> <<>>, rows |-> <<>>,
                   lost |-> {}, dropped |-> {}]
    BY <1>1 DEF Invalidate, NoUpdate
  <2>2. weighing = "update" /\ weighing' = "index" /\ listed' = listed
    BY <1>1 DEF Invalidate
  <2>3. CASE listed.words = words
    <3>1. rows' = rows /\ cut' = cut
      BY <1>1, <2>3 DEF Invalidate
    <3>2. Lined(listed.words, listed.names \ cut, rows)
      BY <2>2 DEF IndexInv, Updating
    <3>3. weighing' = "index" /\ update'.words = words /\ update'.lost = {}
      BY <2>1, <2>2
    <3>4. UpdateInv'
      BY <2>2, <2>3, <3>1, <3>2, <3>3 DEF UpdateInv, Lined
    <3> QED BY <2>1, <3>3, <3>4 DEF IndexInv, Updating
  <2>4. CASE listed.words # words
    <3>1. rows' = <<>>
      BY <1>1, <2>4 DEF Invalidate
    <3>2. weighing' = "index" /\ update'.words = words /\ update'.lost = {}
      BY <2>1, <2>2
    <3>3. UpdateInv'
      BY <2>2, <2>4, <3>1, <3>2 DEF UpdateInv
    <3> QED BY <2>1, <3>2, <3>3 DEF IndexInv, Updating
  <2> QED BY <2>3, <2>4
<1>2. CASE Index
  <2> DEFINE names == IF listed.words = update.words THEN listed.names ELSE {}
             orphans == Orphans(names)
             unknown == units \ names
             rebound == {n \in unknown : Content(n) \in ContentsOf(orphans)}
             former == [n \in rebound |-> CHOOSE o \in orphans : Content(o) = Content(n)]
             lost == {n \in rebound : former[n] \in cut}
  <2>1. PICK replayed \in SUBSET (unknown \ rebound) :
          LET new == [n \in rebound \cup replayed |->
                        IF n \in replayed THEN Replay(n, update.words) ELSE rows[former[n]]] IN
          update' = [update EXCEPT
            !.seen = units, !.names = (names \cap units) \cup rebound \cup replayed,
            !.new = new, !.rows = LastLines(new, rows), !.lost = lost]
    BY <1>2, Zenon DEF Index
  <2> DEFINE new == [n \in rebound \cup replayed |->
                       IF n \in replayed THEN Replay(n, update.words) ELSE rows[former[n]]]
             found == (names \cap units) \cup rebound \cup replayed
  <2>2. /\ update' = [words |-> update.words, seen |-> units, names |-> found,
                      new |-> new, rows |-> LastLines(new, rows), lost |-> lost,
                      dropped |-> update.dropped]
        /\ weighing = "index" /\ weighing' = "append"
        /\ rows' = rows /\ listed' = listed /\ cut' = cut
    <3>1. /\ weighing = "index" /\ weighing' = "append"
          /\ rows' = rows /\ listed' = listed /\ cut' = cut
      BY <1>2 DEF Index
    <3>2. update' = [update EXCEPT !.seen = units, !.names = found,
                       !.new = new, !.rows = LastLines(new, rows), !.lost = lost]
      BY <2>1, Zenon
    <3> HIDE DEF new, found, lost
    <3> QED BY <3>1, <3>2 DEF IndexInv
  <2>3. Lined(update.words, names \ cut, rows)
    BY <2>2 DEF IndexInv, UpdateInv, Updating, Lined
  <2>4. Lined(update.words, DOMAIN new \ lost, new)
    <3> SUFFICES ASSUME NEW n \in rebound \cup replayed, n \notin lost
                 PROVE  new[n].against = update.words
      BY DEF Lined
    <3>1. CASE n \in replayed
      BY <3>1 DEF Replay
    <3>2. CASE n \notin replayed
      <4>1. \E o \in orphans : Content(o) = Content(n)
        BY <3>2 DEF ContentsOf
      <4>2. former[n] \in orphans /\ former[n] \notin cut
        BY <3>2, <4>1
      <4>3. former[n] \in names
        BY <4>2 DEF Orphans
      <4>4. rows[former[n]].against = update.words
        BY <2>3, <4>2, <4>3 DEF Lined
      <4> QED BY <3>2, <4>4
    <3> QED BY <3>1, <3>2
  <2>5. DOMAIN new = rebound \cup replayed /\ lost \subseteq rebound
    OBVIOUS
  <2>6. found \subseteq units
    OBVIOUS
  <2>7. listed.words = update.words =>
          /\ listed.names \cap DOMAIN new = {}
          /\ listed.names \cap units \subseteq found
    BY <2>5
  <2> HIDE DEF new, lost
  <2>8. Lined(update.words, found \ (cut \cup lost), LastLines(new, rows))
    BY <2>3, <2>4, <2>5 DEF Lined, LastLines
  <2>9. listed.words = update.words => Lined(listed.words, listed.names \ cut, rows)
    BY <2>3
  <2> HIDE DEF found
  <2> QED BY <2>2, <2>5, <2>6, <2>7, <2>8, <2>9 DEF IndexInv, UpdateInv, Updating
<1>3. CASE AppendLines
  <2>1. /\ weighing = "append" /\ weighing' = "compact" /\ listed' = listed /\ cut' = cut
        /\ update' = [words |-> update.words, seen |-> update.seen, names |-> update.names,
                      new |-> update.new, rows |-> update.rows, lost |-> update'.lost,
                      dropped |-> update.dropped]
        /\ update.lost \subseteq update'.lost /\ update'.lost \subseteq DOMAIN update.new
        /\ \A n \in DOMAIN update.new \ update'.lost :
             n \in DOMAIN rows' /\ rows'[n] = update.new[n]
        /\ \A n \in DOMAIN rows \ DOMAIN update.new : n \in DOMAIN rows' /\ rows'[n] = rows[n]
    <3>1. weighing = "append" /\ weighing' = "compact" /\ listed' = listed /\ cut' = cut
      BY <1>3 DEF AppendLines
    <3>2. update.lost \subseteq DOMAIN update.new
      BY <3>1 DEF IndexInv, UpdateInv
    <3>3. CASE DOMAIN update.new = {}
      BY <1>3, <3>1, <3>2, <3>3 DEF AppendLines, IndexInv
    <3>4. CASE DOMAIN update.new # {}
      <4>1. PICK more \in IF torn THEN {{n} : n \in DOMAIN update.new} ELSE {{}} :
              /\ rows' = LastLines(Restrict(update.new, DOMAIN update.new \ more), rows)
              /\ update' = [update EXCEPT !.lost = @ \cup more]
        BY <1>3, <3>4 DEF AppendLines
      <4>2. more \subseteq DOMAIN update.new
        BY <4>1
      <4>3. /\ update'.lost = update.lost \cup more
            /\ update' = [words |-> update.words, seen |-> update.seen, names |-> update.names,
                          new |-> update.new, rows |-> update.rows, lost |-> update'.lost,
                          dropped |-> update.dropped]
        BY <4>1 DEF IndexInv
      <4>4. DOMAIN update.new \ more \in SUBSET DOMAIN update.new
        OBVIOUS
      <4>5. /\ \A n \in DOMAIN update.new \ more : n \in DOMAIN rows' /\ rows'[n] = update.new[n]
            /\ \A n \in DOMAIN rows \ DOMAIN update.new : n \in DOMAIN rows' /\ rows'[n] = rows[n]
        BY <4>1, <4>4, Appended
      <4> QED BY <3>1, <3>2, <4>2, <4>3, <4>5
    <3> QED BY <3>3, <3>4
  <2>2. /\ Lined(update.words, update.names \ (cut \cup update.lost), update.rows)
        /\ update.names \subseteq update.seen
        /\ update.rows = LastLines(update.new, rows)
        /\ listed.words = update.words =>
             /\ Lined(listed.words, listed.names \ cut, rows)
             /\ listed.names \cap DOMAIN update.new = {}
             /\ listed.names \cap update.seen \subseteq update.names
    BY <2>1 DEF IndexInv, UpdateInv, Updating
  <2>3. Lined(update.words, update.names \ (cut \cup update'.lost), update.rows)
    BY <2>1, <2>2 DEF Lined
  <2>4. Lined(update.words, update.names \ (cut \cup update'.lost), rows')
    <3> SUFFICES ASSUME NEW n \in update.names \ (cut \cup update'.lost)
                 PROVE  n \in DOMAIN rows' /\ rows'[n] = update.rows[n]
      BY <2>3 DEF Lined
    <3>1. n \in DOMAIN update.rows
      BY <2>3 DEF Lined
    <3>2. CASE n \in DOMAIN update.new
      BY <2>1, <2>2, <3>2 DEF LastLines
    <3>3. CASE n \notin DOMAIN update.new
      BY <2>1, <2>2, <3>1, <3>3 DEF LastLines
    <3> QED BY <3>2, <3>3
  <2>5. listed.words = update.words => Lined(listed.words, listed.names \ cut, rows')
    BY <2>1, <2>2 DEF Lined
  <2> QED BY <2>1, <2>2, <2>3, <2>4, <2>5 DEF IndexInv, UpdateInv, Updating, Lined
<1>4. CASE Compact
  <2>1. weighing = "compact" /\ weighing' = "save" /\ listed' = listed /\ cut' = cut
    BY <1>4 DEF Compact
  <2>2. /\ Lined(update.words, update.names \ (cut \cup update.lost), update.rows)
        /\ Lined(update.words, update.names \ (cut \cup update.lost), rows)
        /\ update.names \subseteq update.seen /\ update.lost \subseteq DOMAIN update.new
        /\ listed.words = update.words =>
             /\ Lined(listed.words, listed.names \ cut, rows)
             /\ listed.names \cap DOMAIN update.new = {}
             /\ listed.names \cap update.seen \subseteq update.names
    BY <2>1 DEF IndexInv, UpdateInv, Updating
  <2>3. CASE rows' = rows /\ update' = update
    BY <2>1, <2>2, <2>3 DEF IndexInv, UpdateInv, Updating, Lined
  <2>4. CASE /\ rows' = Restrict(update.rows, Live)
             /\ update' = [update EXCEPT !.dropped = listed.names \ update.seen]
    <3>1. update' = [words |-> update.words, seen |-> update.seen, names |-> update.names,
                     new |-> update.new, rows |-> update.rows, lost |-> update.lost,
                     dropped |-> listed.names \ update.seen]
      BY <2>4 DEF IndexInv
    <3>2. Lined(update.words, update.names \ (cut \cup update.lost), rows')
      <4> SUFFICES ASSUME NEW n \in update.names \ (cut \cup update.lost)
                   PROVE  n \in DOMAIN rows' /\ rows'[n] = update.rows[n]
        BY <2>2 DEF Lined
      <4>1. n \in Live
        BY <2>2 DEF Lined, Live
      <4> QED BY <2>4, <4>1 DEF Restrict
    <3>3. ASSUME listed.words = update.words
          PROVE  Lined(listed.words, (listed.names \ cut) \ (listed.names \ update.seen), rows')
      <4>1. (listed.names \ cut) \ (listed.names \ update.seen)
              \subseteq update.names \ (cut \cup update.lost)
        BY <2>2, <3>3
      <4> QED BY <3>2, <3>3, <4>1 DEF Lined
    <3> QED BY <2>1, <2>2, <3>1, <3>2, <3>3 DEF IndexInv, UpdateInv, Updating, Lined
  <2> QED BY <1>4, <2>3, <2>4 DEF Compact
<1>5. CASE Save
  <2>1. update' = none
    BY <1>5 DEF Save, NoUpdate
  <2>2. /\ listed'.words = update.words /\ listed'.names = update.names
        /\ cut' = (cut \cap update.names) \cup update.lost
    BY <1>5 DEF Save
  <2>3. weighing = "save" /\ weighing' = "rank" /\ rows' = rows
    BY <1>5 DEF Save
  <2>4. Lined(update.words, update.names \ (cut \cup update.lost), rows)
    BY <2>3 DEF IndexInv, UpdateInv
  <2>5. Lined(update.words, update.names \ cut', rows)
    BY <2>2, <2>4 DEF Lined
  <2> QED BY <2>1, <2>2, <2>3, <2>5 DEF IndexInv, UpdateInv, Updating, Lined
<1>6. CASE Kill
  <2>1. update' = none
    BY <1>6 DEF Kill, NoUpdate
  <2>2. weighing' = "head" /\ listed' = listed
    BY <1>6 DEF Kill
  <2>3. Lined(listed.words, listed.names \ cut', rows')
    <3>1. CASE weighing \in Updating /\ listed.words # update.words
      <4>1. cut' = listed.names
        BY <1>6, <3>1 DEF Kill, Updating
      <4> QED BY <4>1 DEF Lined
    <3>2. CASE ~(weighing \in Updating /\ listed.words # update.words)
      <4>1. cut' = cut \cup update.dropped
        BY <1>6, <3>2 DEF Kill, Updating
      <4>2. Lined(listed.words, listed.names \ cut', rows)
        <5>1. CASE weighing \in {"index", "append", "compact"}
          BY <3>2, <4>1, <5>1 DEF IndexInv, UpdateInv, Updating, Lined
        <5>2. CASE weighing = "save"
          BY <3>2, <4>1, <5>2 DEF IndexInv, UpdateInv, Updating, Lined
        <5>3. CASE weighing \notin Updating
          BY <4>1, <5>3 DEF IndexInv, Lined
        <5> QED BY <5>1, <5>2, <5>3 DEF Updating
      <4>3. CASE weighing = "append"
        <5>1. PICK done \in SUBSET DOMAIN update.new :
                rows' = LastLines(Restrict(update.new, done), rows)
          BY <1>6, <4>3 DEF Kill
        <5>2. listed.names \cap DOMAIN update.new = {}
          BY <3>2, <4>3 DEF IndexInv, UpdateInv, Updating
        <5>3. \A n \in DOMAIN rows \ DOMAIN update.new : n \in DOMAIN rows' /\ rows'[n] = rows[n]
          BY <5>1, Appended
        <5> QED BY <4>2, <5>2, <5>3 DEF Lined
      <4>4. CASE weighing # "append"
        <5>1. rows' = rows
          BY <1>6, <4>4 DEF Kill
        <5> QED BY <4>2, <5>1
      <4> QED BY <4>3, <4>4
    <3> QED BY <3>1, <3>2
  <2> QED BY <2>1, <2>2, <2>3 DEF IndexInv, UpdateInv, Updating, Lined
<1>7. CASE RankUnits \/ Unready \/ Fuzz \/ FuzzFocus \/ MergeBack
  <2>1. /\ weighing \notin Updating /\ weighing' \notin Updating
        /\ UNCHANGED <<rows, listed, update, cut>>
    BY <1>7 DEF RankUnits, Unready, Fuzz, FuzzFocus, MergeBack, Updating
  <2> QED BY <2>1 DEF IndexInv, UpdateInv, Updating, Lined
<1>8. CASE Prepare
  <2>1. /\ weighing \notin Updating /\ weighing' \notin Updating
        /\ UNCHANGED <<rows, listed, update, cut>>
    BY <1>8 DEF Prepare, Updating
  <2> QED BY <2>1 DEF IndexInv, UpdateInv, Updating, Lined
<1>9. CASE \/ Collect \/ UNCHANGED weightsVars
           \/ \E n \in Names : Arrive(n)
           \/ \E vocabulary \in Vocabularies : Reword(vocabulary)
           \/ \E f \in UNION Vocabularies : ExploitFunction(f)
  <2>1. UNCHANGED <<rows, listed, update, cut, weighing>>
    BY <1>9 DEF Collect, weightsVars, Arrive, Reword, ExploitFunction
  <2> QED BY <2>1 DEF IndexInv, UpdateInv, Updating, Lined, LastLines
<1> QED BY <1>1, <1>2, <1>3, <1>4, <1>5, <1>6, <1>7, <1>8, <1>9 DEF WeightsNext

\* Each unit the state file lists, but those a kill has cost their line, has one
\* made against the words of the state file, between two updates
\* (seed_weights.py).
THEOREM IndexStaysCurrent == WeightsSpec => []IndexIsCurrent
<1>1. WeightsInit => IndexInv
  <2> SUFFICES ASSUME WeightsInit PROVE IndexInv
    OBVIOUS
  <2>1. update = [words |-> {}, seen |-> {}, names |-> {}, new |-> <<>>, rows |-> <<>>,
                  lost |-> {}, dropped |-> {}]
    BY DEF WeightsInit, NoUpdate
  <2>2. listed.names = {} /\ cut = {} /\ weighing = "head"
    BY DEF WeightsInit
  <2> QED BY <2>1, <2>2 DEF IndexInv, UpdateInv, Updating, Lined
<1>2. IndexInv => IndexIsCurrent
  BY DEF IndexInv, IndexIsCurrent, Updating, Lined
<1> QED BY <1>1, <1>2, IndexInvStep, PTL DEF WeightsSpec

-----------------------------------------------------------------------------
(* Merges of inventories *)

RowRanks == {0, 1, 2, 3, 4}

RankedTable(t) == \A r \in DOMAIN t : t[r] \in RowRanks

\* The rank v is the best that the tables give the row, and 0 when none has it.
BestRank(tables, r, v) ==
  /\ v \in RowRanks
  /\ \A t \in tables : r \in DOMAIN t => t[r] <= v
  /\ v # 0 => \E t \in tables : r \in DOMAIN t /\ t[r] = v

TablesOf(set) == UNION {inventory[f] : f \in set}

\* A merge beside which no inventory of its was replaced has in its table the best
\* ranks of those it has read.
MergedSoFar(c) ==
  \E done \in SUBSET Range(MergeCalls[c].inputs) :
    /\ done \cup Range(merging[c].left) = Range(MergeCalls[c].inputs)
    /\ \A r \in SinkRows : RankIn({merging[c].table}, r) = RankIn(TablesOf(done), r)

MergesInv ==
  /\ inventory = [f \in Inventories |-> inventory[f]]
  /\ \A f \in Inventories : \A t \in inventory[f] : RankedTable(t) /\ inventory[f] = {t}
  /\ merging = [c \in DOMAIN MergeCalls |-> merging[c]]
  /\ \A c \in DOMAIN MergeCalls :
       merging[c].at = "merging" =>
         /\ merging[c].left \in Seq(Inventories) /\ RankedTable(merging[c].table)
         /\ c \notin outrun => MergedSoFar(c)

LEMMA RankInIsBest ==
  ASSUME NEW tables, \A t \in tables : RankedTable(t), NEW r
  PROVE  BestRank(tables, r, RankIn(tables, r))
<1> DEFINE ranks == {t[r] : t \in {u \in tables : r \in DOMAIN u}} \cup {0}
<1>1. ranks \subseteq RowRanks
  BY DEF RankedTable, RowRanks
<1>2. 0 \in ranks
  OBVIOUS
<1>3. \A v \in ranks : v = 0 \/ \E t \in tables : r \in DOMAIN t /\ t[r] = v
  OBVIOUS
<1>4. \A t \in tables : r \in DOMAIN t => t[r] \in ranks
  OBVIOUS
<1> HIDE DEF ranks
<1>5. \E v \in ranks : \A w \in ranks : v >= w
  <2>1. CASE 4 \in ranks
    BY <1>1, <2>1 DEF RowRanks
  <2>2. CASE 4 \notin ranks /\ 3 \in ranks
    BY <1>1, <2>2 DEF RowRanks
  <2>3. CASE 4 \notin ranks /\ 3 \notin ranks /\ 2 \in ranks
    BY <1>1, <2>3 DEF RowRanks
  <2>4. CASE 4 \notin ranks /\ 3 \notin ranks /\ 2 \notin ranks /\ 1 \in ranks
    BY <1>1, <2>4 DEF RowRanks
  <2>5. CASE 4 \notin ranks /\ 3 \notin ranks /\ 2 \notin ranks /\ 1 \notin ranks
    BY <1>1, <1>2, <2>5 DEF RowRanks
  <2> QED BY <2>1, <2>2, <2>3, <2>4, <2>5
<1>6. Max(ranks) \in ranks /\ \A w \in ranks : Max(ranks) >= w
  BY <1>5 DEF Max
<1>7. RankIn(tables, r) = Max(ranks)
  BY DEF RankIn, ranks
<1>8. Max(ranks) \in RowRanks
  BY <1>1, <1>6
<1>9. \A t \in tables : r \in DOMAIN t => t[r] <= Max(ranks)
  <2> TAKE t \in tables
  <2> HAVE r \in DOMAIN t
  <2>1. t[r] \in ranks
    BY <1>4
  <2>2. t[r] \in RowRanks
    BY <1>1, <2>1
  <2> QED BY <1>6, <1>8, <2>1, <2>2 DEF RowRanks
<1> QED BY <1>3, <1>6, <1>7, <1>8, <1>9 DEF BestRank

LEMMA BestRankIsRankIn ==
  ASSUME NEW tables, \A t \in tables : RankedTable(t), NEW r, NEW v, BestRank(tables, r, v)
  PROVE  RankIn(tables, r) = v
<1>1. BestRank(tables, r, RankIn(tables, r))
  BY RankInIsBest
<1> DEFINE w == RankIn(tables, r)
<1>2. BestRank(tables, r, w)
  BY <1>1
<1> HIDE DEF w
<1>3. v \in RowRanks /\ w \in RowRanks
  BY <1>2 DEF BestRank
<1>4. v <= w
  <2>1. CASE v = 0
    BY <1>3, <2>1 DEF RowRanks
  <2>2. CASE v # 0
    BY <1>2, <2>2 DEF BestRank
  <2> QED BY <2>1, <2>2
<1>5. w <= v
  <2>1. CASE w = 0
    BY <1>3, <2>1 DEF RowRanks
  <2>2. CASE w # 0
    BY <1>2, <2>2 DEF BestRank
  <2> QED BY <2>1, <2>2
<1> QED BY <1>3, <1>4, <1>5 DEF RowRanks, w

LEMMA RicherRanked ==
  ASSUME NEW table, NEW more, RankedTable(table), RankedTable(more)
  PROVE  RankedTable(Richer(table, more))
<1>1. \A r : BestRank({table, more}, r, RankIn({table, more}, r))
  BY RankInIsBest
<1> QED BY <1>1 DEF Richer, RankedTable, BestRank

\* One table more that is united with another has the best ranks of both.
LEMMA RicherIsBoth ==
  ASSUME NEW table, NEW more, RankedTable(table), RankedTable(more),
         NEW tables, \A t \in tables : RankedTable(t),
         NEW r, RankIn({table}, r) = RankIn(tables, r)
  PROVE  RankIn({Richer(table, more)}, r) = RankIn(tables \cup {more}, r)
<1> DEFINE new == Richer(table, more)
<1>1. /\ DOMAIN new = DOMAIN table \cup DOMAIN more
      /\ \A q \in DOMAIN new : BestRank({table, more}, q, new[q])
  <2>1. \A q : BestRank({table, more}, q, RankIn({table, more}, q))
    BY RankInIsBest
  <2> QED BY <2>1 DEF Richer
<1> HIDE DEF new
<1>2. RankedTable(new)
  BY RicherRanked DEF new
<1>3. RankIn({new}, r) = RankIn(tables \cup {more}, r)
  <2> DEFINE v == RankIn(tables \cup {more}, r)
             w == RankIn(tables, r)
  <2>1. BestRank(tables \cup {more}, r, v)
    BY RankInIsBest
  <2>2. BestRank({table}, r, w)
    BY RankInIsBest
  <2>3. BestRank(tables, r, w)
    BY RankInIsBest
  <2> HIDE DEF v, w
  <2>4. v \in RowRanks /\ w \in RowRanks
    BY <2>1, <2>2 DEF BestRank
  <2>5. r \in DOMAIN table => table[r] = w
    <3> HAVE r \in DOMAIN table
    <3>1. table[r] <= w /\ table[r] \in RowRanks
      BY <2>2 DEF BestRank, RankedTable
    <3>2. w # 0 => table[r] = w
      BY <2>2 DEF BestRank
    <3> QED BY <2>4, <3>1, <3>2 DEF RowRanks
  <2>6. r \notin DOMAIN table => w = 0
    BY <2>2 DEF BestRank
  <2>7. w <= v
    <3>1. CASE w = 0
      BY <2>4, <3>1 DEF RowRanks
    <3>2. CASE w # 0
      BY <2>1, <2>3, <3>2 DEF BestRank
    <3> QED BY <3>1, <3>2
  <2>8. r \in DOMAIN more => more[r] <= v /\ more[r] \in RowRanks
    BY <2>1 DEF BestRank, RankedTable
  <2>9. v = w \/ (r \in DOMAIN more /\ more[r] = v)
    <3>1. CASE v = 0
      BY <2>4, <2>7, <3>1 DEF RowRanks
    <3>2. CASE v # 0
      <4>1. PICK t \in tables \cup {more} : r \in DOMAIN t /\ t[r] = v
        BY <2>1, <3>2 DEF BestRank
      <4>2. CASE t \in tables
        <5>1. v <= w
          BY <2>3, <4>1, <4>2 DEF BestRank
        <5> QED BY <2>4, <2>7, <5>1 DEF RowRanks
      <4> QED BY <4>1, <4>2
    <3> QED BY <3>1, <3>2
  <2>10. BestRank({new}, r, v)
    <3>1. r \in DOMAIN new => BestRank({table, more}, r, new[r])
      BY <1>1
    <3>2. r \in DOMAIN new => new[r] \in RowRanks /\ new[r] <= v
      <4> HAVE r \in DOMAIN new
      <4>1. new[r] \in RowRanks
        BY <3>1 DEF BestRank
      <4>2. CASE new[r] = 0
        BY <2>4, <4>2 DEF RowRanks
      <4>3. CASE new[r] # 0
        BY <2>5, <2>7, <2>8, <3>1, <4>1, <4>3 DEF BestRank
      <4> QED BY <4>1, <4>2, <4>3
    <3>3. v # 0 => r \in DOMAIN new /\ new[r] = v
      <4> HAVE v # 0
      <4>1. r \in DOMAIN new
        BY <1>1, <2>6, <2>9
      <4>2. v <= new[r]
        BY <1>1, <2>5, <2>6, <2>9, <3>1, <4>1 DEF BestRank
      <4> QED BY <2>4, <3>2, <4>1, <4>2 DEF RowRanks
    <3> QED BY <2>4, <3>2, <3>3 DEF BestRank
  <2> QED BY <1>2, <2>10, BestRankIsRankIn DEF v
<1> QED BY <1>2, <1>3 DEF new

LEMMA RangeOfTail ==
  ASSUME NEW S, NEW s \in Seq(S), s # <<>>
  PROVE  Range(s) = {Head(s)} \cup Range(Tail(s)) /\ Head(s) \in S /\ Tail(s) \in Seq(S)
<1>1. Head(s) = s[1] /\ Len(s) \in Nat \ {0} /\ DOMAIN s = 1..Len(s)
  OBVIOUS
<1>2. /\ DOMAIN Tail(s) = 1..(Len(s) - 1)
      /\ \A i \in 1..(Len(s) - 1) : Tail(s)[i] = s[i + 1]
  BY <1>1
<1>3. ASSUME NEW x \in Range(s) PROVE x \in {Head(s)} \cup Range(Tail(s))
  <2>1. PICK i \in 1..Len(s) : s[i] = x
    BY <1>1 DEF Range
  <2>2. CASE i = 1
    BY <1>1, <2>1, <2>2
  <2>3. CASE i # 1
    <3>1. i - 1 \in 1..(Len(s) - 1) /\ Tail(s)[i - 1] = x
      BY <1>1, <1>2, <2>1, <2>3
    <3> QED BY <1>2, <3>1 DEF Range
  <2> QED BY <2>2, <2>3
<1>4. ASSUME NEW x \in Range(Tail(s)) PROVE x \in Range(s)
  <2>1. PICK i \in 1..(Len(s) - 1) : Tail(s)[i] = x
    BY <1>2 DEF Range
  <2>2. i + 1 \in 1..Len(s) /\ s[i + 1] = x
    BY <1>1, <1>2, <2>1
  <2> QED BY <1>1, <2>2 DEF Range
<1>5. Head(s) \in Range(s)
  BY <1>1 DEF Range
<1> QED BY <1>3, <1>4, <1>5
\* It stays so when the merge and the inventories it has read stay the same.
LEMMA MergedSoFarStays ==
  ASSUME NEW c \in DOMAIN MergeCalls, MergedSoFar(c), merging'[c] = merging[c],
         \A f \in Range(MergeCalls[c].inputs) : inventory'[f] = inventory[f]
  PROVE  MergedSoFar(c)'
<1>1. PICK done \in SUBSET Range(MergeCalls[c].inputs) :
        /\ done \cup Range(merging[c].left) = Range(MergeCalls[c].inputs)
        /\ \A r \in SinkRows : RankIn({merging[c].table}, r) = RankIn(TablesOf(done), r)
  BY DEF MergedSoFar
<1>2. TablesOf(done)' = TablesOf(done)
  BY <1>1 DEF TablesOf
<1>3. /\ done \cup Range(merging'[c].left) = Range(MergeCalls[c].inputs)
      /\ \A r \in SinkRows : RankIn({merging'[c].table}, r) = RankIn(TablesOf(done)', r)
  BY <1>1, <1>2
<1> QED BY <1>3 DEF MergedSoFar

\* An inventory is replaced: merges that read it are outrun, for others nothing
\* they have read has changed.
LEMMA ReplacedKeeps ==
  ASSUME MergesInv, NEW f \in Inventories, NEW tables, NEW by,
         Replaced(f, tables, by), \A t \in tables : RankedTable(t) /\ tables = {t},
         merging' = [c \in DOMAIN MergeCalls |-> merging'[c]],
         \A c \in DOMAIN MergeCalls \ {by} : merging'[c] = merging[c],
         by \in DOMAIN MergeCalls => merging'[by].at # "merging"
  PROVE  MergesInv'
<1>1. inventory' = [inventory EXCEPT ![f] = tables]
  BY DEF Replaced
<1>2. /\ inventory' = [g \in Inventories |-> inventory'[g]]
      /\ inventory'[f] = tables
      /\ \A g \in Inventories : g # f => inventory'[g] = inventory[g]
  BY <1>1 DEF MergesInv
<1>3. \A g \in Inventories : \A t \in inventory'[g] : RankedTable(t) /\ inventory'[g] = {t}
  BY <1>2 DEF MergesInv
<1>4. ASSUME NEW c \in DOMAIN MergeCalls, merging'[c].at = "merging"
      PROVE  /\ merging'[c].left \in Seq(Inventories) /\ RankedTable(merging'[c].table)
             /\ c \notin outrun' => MergedSoFar(c)'
  <2>1. c # by /\ merging'[c] = merging[c] /\ merging[c].at = "merging"
    BY <1>4
  <2>2. ASSUME c \notin outrun' PROVE MergedSoFar(c)'
    <3>1. c \notin outrun /\ f \notin Range(MergeCalls[c].inputs)
      BY <2>1, <2>2 DEF Replaced
    <3>2. MergedSoFar(c)
      BY <2>1, <3>1 DEF MergesInv
    <3>3. Range(MergeCalls[c].inputs) \subseteq Inventories
      BY InventoryAssumption DEF Range, Inventories
    <3>4. \A g \in Range(MergeCalls[c].inputs) : inventory'[g] = inventory[g]
      BY <1>2, <3>1, <3>3
    <3> QED BY <2>1, <3>2, <3>4, MergedSoFarStays
  <2> QED BY <2>1, <2>2 DEF MergesInv
<1> QED BY <1>2, <1>3, <1>4 DEF MergesInv

\* A merge does something by itself.
LEMMA MergeStep ==
  ASSUME MergesInv, NEW c \in DOMAIN MergeCalls, NEW m,
         merging' = [merging EXCEPT ![c] = m], UNCHANGED inventory,
         outrun \subseteq outrun' \cup {c},
         m.at = "merging" =>
           /\ m.left \in Seq(Inventories) /\ RankedTable(m.table)
           /\ c \notin outrun' => MergedSoFar(c)'
  PROVE  MergesInv'
<1>1. /\ merging' = [d \in DOMAIN MergeCalls |-> merging'[d]]
      /\ merging'[c] = m
      /\ \A d \in DOMAIN MergeCalls : d # c => merging'[d] = merging[d]
  BY DEF MergesInv
<1>2. ASSUME NEW d \in DOMAIN MergeCalls, merging'[d].at = "merging"
      PROVE  /\ merging'[d].left \in Seq(Inventories) /\ RankedTable(merging'[d].table)
             /\ d \notin outrun' => MergedSoFar(d)'
  <2>1. CASE d = c
    BY <1>1, <1>2, <2>1
  <2>2. CASE d # c
    <3>1. merging[d].at = "merging" /\ merging'[d] = merging[d]
      BY <1>1, <1>2, <2>2
    <3>2. /\ merging[d].left \in Seq(Inventories) /\ RankedTable(merging[d].table)
          /\ d \notin outrun => MergedSoFar(d)
      BY <3>1 DEF MergesInv
    <3>3. d \notin outrun' => MergedSoFar(d)'
      BY <2>2, <3>1, <3>2, MergedSoFarStays
    <3> QED BY <3>1, <3>2, <3>3
  <2> QED BY <2>1, <2>2
<1>3. /\ inventory' = [f \in Inventories |-> inventory'[f]]
      /\ \A f \in Inventories : \A t \in inventory'[f] : RankedTable(t) /\ inventory'[f] = {t}
  BY DEF MergesInv
<1> QED BY <1>1, <1>2, <1>3 DEF MergesInv

LEMMA MergesInvStep == MergesInv /\ [InventoryNext]_inventoryVars => MergesInv'
<1> SUFFICES ASSUME MergesInv, [InventoryNext]_inventoryVars PROVE MergesInv'
  OBVIOUS
<1>1. CASE UNCHANGED <<inventory, merging, outrun>>
  <2>1. ASSUME NEW c \in DOMAIN MergeCalls, MergedSoFar(c) PROVE MergedSoFar(c)'
    BY <1>1, <2>1, MergedSoFarStays
  <2> QED BY <1>1, <2>1 DEF MergesInv
<1>2. ASSUME NEW c \in DOMAIN ScanCalls, WriteScan(c) PROVE MergesInv'
  <2>1. UNCHANGED merging /\ c \notin DOMAIN MergeCalls /\ ScanCalls[c] \in Inventories
    BY <1>2, InventoryAssumption DEF WriteScan, Inventories
  <2> DEFINE t == [r \in scanning[c].rows |-> Rank[ScanCalls[c]]]
  <2>2. CASE Replaced(ScanCalls[c], {t}, c)
    <3>1. Rank[ScanCalls[c]] \in RowRanks
      BY InventoryAssumption DEF Rank, RowRanks
    <3>2. RankedTable(t)
      BY <3>1 DEF RankedTable
    <3>3. merging' = [d \in DOMAIN MergeCalls |-> merging'[d]]
      BY <2>1 DEF MergesInv
    <3> HIDE DEF t
    <3> QED BY <2>1, <2>2, <3>2, <3>3, ReplacedKeeps
  <2>3. CASE UNCHANGED <<inventory, outrun>>
    BY <1>1, <2>1, <2>3
  <2> QED BY <1>2, <2>2, <2>3 DEF WriteScan
<1>3. ASSUME NEW c \in DOMAIN MergeCalls, BeginMerge(c) PROVE MergesInv'
  <2> DEFINE m == [at |-> "merging", left |-> MergeCalls[c].inputs, table |-> <<>>, read |-> 0]
  <2>1. /\ merging' = [merging EXCEPT ![c] = m] /\ UNCHANGED inventory
        /\ outrun' = outrun \ {c}
    BY <1>3 DEF BeginMerge, Merge
  <2>2. m.left \in Seq(Inventories) /\ RankedTable(m.table)
    BY InventoryAssumption DEF Inventories, RankedTable
  <2>3. MergedSoFar(c)'
    <3>1. merging'[c].left = MergeCalls[c].inputs /\ merging'[c].table = <<>>
      BY <2>1 DEF MergesInv
    <3>2. RankedTable(<<>>)
      BY DEF RankedTable
    <3>3. ASSUME NEW r PROVE RankIn({<<>>}, r) = RankIn({}, r)
      <4>1. BestRank({<<>>}, r, 0) /\ BestRank({}, r, 0)
        BY DEF BestRank, RowRanks
      <4> QED BY <3>2, <4>1, BestRankIsRankIn
    <3>4. TablesOf({})' = {}
      BY DEF TablesOf
    <3> QED BY <3>1, <3>3, <3>4 DEF MergedSoFar
  <2> HIDE DEF m
  <2> QED BY <2>1, <2>2, <2>3, MergeStep
<1>4. ASSUME NEW c \in DOMAIN MergeCalls, ReadInput(c) PROVE MergesInv'
  <2>1. PICK m : m = merging[c]
    OBVIOUS
  <2>2. PICK f : f = Head(m.left)
    OBVIOUS
  <2>3. m.at = "merging" /\ m.left # <<>> /\ m.left \in Seq(Inventories) /\ RankedTable(m.table)
    BY <1>4, <2>1 DEF ReadInput, MergesInv
  <2>4. Range(m.left) = {f} \cup Range(Tail(m.left)) /\ f \in Inventories
        /\ Tail(m.left) \in Seq(Inventories)
    BY <2>2, <2>3, RangeOfTail
  <2>5. UNCHANGED <<inventory, outrun>>
    BY <1>4 DEF ReadInput
  <2>6. PICK new :
          /\ merging' = [merging EXCEPT ![c] = new]
          /\ new.at = "merging" /\ new.left = Tail(m.left)
          /\ \/ inventory[f] = {} /\ new.table = m.table
             \/ \E t \in inventory[f] : new.table = Richer(m.table, t)
    <3>1. CASE inventory[f] = {} /\ Merge(c, "merging", Tail(m.left), m.table, m.read)
      <4> DEFINE new == [at |-> "merging", left |-> Tail(m.left), table |-> m.table, read |-> m.read]
      <4>1. merging' = [merging EXCEPT ![c] = new]
        BY <3>1 DEF Merge
      <4>2. new.at = "merging" /\ new.left = Tail(m.left) /\ new.table = m.table
        OBVIOUS
      <4> HIDE DEF new
      <4> QED BY <3>1, <4>1, <4>2
    <3>2. CASE \E t \in inventory[f] :
                 Merge(c, "merging", Tail(m.left), Richer(m.table, t),
                       Min({m.read + Cardinality(DOMAIN t), MaxMerged + 1}))
      <4>1. PICK t \in inventory[f] :
              Merge(c, "merging", Tail(m.left), Richer(m.table, t),
                    Min({m.read + Cardinality(DOMAIN t), MaxMerged + 1}))
        BY <3>2
      <4> DEFINE new == [at |-> "merging", left |-> Tail(m.left), table |-> Richer(m.table, t),
                         read |-> Min({m.read + Cardinality(DOMAIN t), MaxMerged + 1})]
      <4>2. merging' = [merging EXCEPT ![c] = new]
        BY <4>1 DEF Merge
      <4>3. new.at = "merging" /\ new.left = Tail(m.left) /\ new.table = Richer(m.table, t)
        OBVIOUS
      <4> HIDE DEF new
      <4> QED BY <4>2, <4>3
    <3> QED BY <1>4, <2>1, <2>2, <3>1, <3>2 DEF ReadInput
  <2>7. RankedTable(new.table)
    <3>1. CASE inventory[f] = {} /\ new.table = m.table
      BY <2>3, <3>1
    <3>2. CASE \E t \in inventory[f] : new.table = Richer(m.table, t)
      <4>1. PICK t \in inventory[f] : new.table = Richer(m.table, t)
        BY <3>2
      <4>2. RankedTable(t)
        BY <2>4, <4>1 DEF MergesInv
      <4> QED BY <2>3, <4>1, <4>2, RicherRanked
    <3> QED BY <2>6, <3>1, <3>2
  <2>8. ASSUME c \notin outrun PROVE MergedSoFar(c)'
    <3>1. PICK done \in SUBSET Range(MergeCalls[c].inputs) :
            /\ done \cup Range(m.left) = Range(MergeCalls[c].inputs)
            /\ \A r \in SinkRows : RankIn({m.table}, r) = RankIn(TablesOf(done), r)
      <4>1. MergedSoFar(c)
        BY <2>1, <2>3, <2>8 DEF MergesInv
      <4> QED BY <2>1, <4>1 DEF MergedSoFar
    <3>2. merging'[c] = new
      BY <2>6 DEF MergesInv
    <3>3. done \cup {f} \subseteq Range(MergeCalls[c].inputs)
          /\ (done \cup {f}) \cup Range(new.left) = Range(MergeCalls[c].inputs)
      BY <2>4, <2>6, <3>1
    <3>4. TablesOf(done \cup {f}) = TablesOf(done) \cup inventory[f]
      BY DEF TablesOf
    <3>5. \A t \in TablesOf(done \cup {f}) : RankedTable(t)
      <4>1. Range(MergeCalls[c].inputs) \subseteq Inventories
        BY InventoryAssumption DEF Range, Inventories
      <4> QED BY <3>3, <4>1 DEF TablesOf, MergesInv
    <3>6. \A r \in SinkRows : RankIn({new.table}, r) = RankIn(TablesOf(done \cup {f}), r)
      <4>1. CASE inventory[f] = {} /\ new.table = m.table
        <5>1. TablesOf(done \cup {f}) = TablesOf(done)
          BY <3>4, <4>1
        <5> QED BY <3>1, <4>1, <5>1
      <4>2. CASE \E t \in inventory[f] : new.table = Richer(m.table, t)
        <5>1. PICK t \in inventory[f] : new.table = Richer(m.table, t)
          BY <4>2
        <5>2. inventory[f] = {t} /\ RankedTable(t)
          BY <2>4, <5>1 DEF MergesInv
        <5>3. TablesOf(done \cup {f}) = TablesOf(done) \cup {t}
          BY <3>4, <5>2
        <5>4. PICK tables : tables = TablesOf(done)
          OBVIOUS
        <5>5. \A u \in tables : RankedTable(u)
          BY <3>4, <3>5, <5>4
        <5>6. \A r \in SinkRows : RankIn({m.table}, r) = RankIn(tables, r)
          BY <3>1, <5>4
        <5>7. \A r \in SinkRows : RankIn({Richer(m.table, t)}, r) = RankIn(tables \cup {t}, r)
          <6> TAKE r \in SinkRows
          <6>1. RankIn({m.table}, r) = RankIn(tables, r)
            BY <5>6
          <6> QED BY <2>3, <5>2, <5>5, <6>1, RicherIsBoth
        <5> QED BY <5>1, <5>3, <5>4, <5>7
      <4> QED BY <2>6, <4>1, <4>2
    <3>7. TablesOf(done \cup {f})' = TablesOf(done \cup {f})
      BY <2>5 DEF TablesOf
    <3>8. /\ (done \cup {f}) \cup Range(merging'[c].left) = Range(MergeCalls[c].inputs)
          /\ \A r \in SinkRows :
               RankIn({merging'[c].table}, r) = RankIn(TablesOf(done \cup {f})', r)
      BY <3>2, <3>3, <3>6, <3>7
    <3> QED BY <3>3, <3>8 DEF MergedSoFar
  <2>9. new.left \in Seq(Inventories)
    BY <2>4, <2>6
  <2> QED BY <2>5, <2>6, <2>7, <2>8, <2>9, MergeStep
<1>5. ASSUME NEW c \in DOMAIN MergeCalls, WriteMerge(c) PROVE MergesInv'
  <2> DEFINE m == [at |-> "merged", left |-> <<>>, table |-> <<>>, read |-> 0]
  <2>1. /\ merging' = [merging EXCEPT ![c] = m]
        /\ Replaced(MergeCalls[c].out, {merging[c].table}, c)
        /\ merging[c].at = "merging"
    BY <1>5 DEF WriteMerge, Merge
  <2>2. /\ merging' = [d \in DOMAIN MergeCalls |-> merging'[d]]
        /\ merging'[c].at # "merging"
        /\ \A d \in DOMAIN MergeCalls \ {c} : merging'[d] = merging[d]
    BY <2>1 DEF MergesInv
  <2>3. MergeCalls[c].out \in Inventories
    BY InventoryAssumption DEF Inventories
  <2>4. RankedTable(merging[c].table)
    BY <2>1 DEF MergesInv
  <2>5. PICK tables, f : tables = {merging[c].table} /\ f = MergeCalls[c].out
    OBVIOUS
  <2>6. \A t \in tables : RankedTable(t) /\ tables = {t}
    BY <2>4, <2>5
  <2>7. f \in Inventories /\ Replaced(f, tables, c)
    BY <2>1, <2>3, <2>5
  <2> QED BY <2>2, <2>6, <2>7, ReplacedKeeps
<1>6. ASSUME NEW c \in DOMAIN MergeCalls, MergeRefused(c) PROVE MergesInv'
  <2> DEFINE m == [at |-> "refused", left |-> <<>>, table |-> <<>>, read |-> 0]
  <2>1. merging' = [merging EXCEPT ![c] = m] /\ UNCHANGED <<inventory, outrun>>
    BY <1>6 DEF MergeRefused, Merge
  <2>2. m.at # "merging"
    OBVIOUS
  <2> HIDE DEF m
  <2> QED BY <2>1, <2>2, MergeStep
<1>7. ASSUME NEW f \in {"sink", "curated"}, NEW r \in SinkRows, Curate(f, r) PROVE MergesInv'
  <2> DEFINE added(t) == [q \in {r} \cup DOMAIN t |-> IF q = r THEN Rank.curated ELSE t[q]]
             was == IF inventory[f] = {} THEN {<<>>} ELSE inventory[f]
  <2>1. /\ Replaced(f, {added(t) : t \in was}, "session")
        /\ UNCHANGED merging /\ f \in Inventories /\ "session" \notin DOMAIN MergeCalls
    BY <1>7, InventoryAssumption DEF Curate, Inventories
  <2>2. PICK t : was = {t} /\ RankedTable(t)
    <3>1. CASE inventory[f] = {}
      <4>1. RankedTable(<<>>)
        BY DEF RankedTable
      <4> QED BY <3>1, <4>1
    <3>2. CASE inventory[f] # {}
      BY <2>1, <3>2 DEF MergesInv
    <3> QED BY <3>1, <3>2
  <2>3. {added(u) : u \in was} = {added(t)}
    BY <2>2
  <2>4. RankedTable(added(t))
    BY <2>2 DEF RankedTable, Rank, RowRanks
  <2> HIDE DEF added, was
  <2>5. PICK tables : tables = {added(u) : u \in was}
    OBVIOUS
  <2>6. merging' = [c \in DOMAIN MergeCalls |-> merging'[c]]
    BY <2>1 DEF MergesInv
  <2> QED BY <2>1, <2>3, <2>4, <2>5, <2>6, ReplacedKeeps
<1>8. ASSUME NEW c \in DOMAIN ScanCalls,
             BeginScan(c) \/ ReadSource(c) \/ SourceChanged(c) \/ NextPass(c)
      PROVE  MergesInv'
  BY <1>1, <1>8 DEF BeginScan, ReadSource, SourceChanged, NextPass
<1>9. ASSUME NEW f \in Range(SourceFiles), EditSource(f) PROVE MergesInv'
  BY <1>1, <1>9 DEF EditSource
<1>10. CASE UNCHANGED inventoryVars
  BY <1>1, <1>10 DEF inventoryVars
<1> QED BY <1>2, <1>3, <1>4, <1>5, <1>6, <1>7, <1>8, <1>9, <1>10 DEF InventoryNext

\* What a merge has written holds every row of the inventories it united, with the
\* best rank any of them gives it, and no other, unless one of them was replaced
\* while it was reading (merge_sink_jsonl).
THEOREM MergesKeepRanks == InventorySpec => CurationSurvives
<1>1. InventoryInit => MergesInv
  BY DEF InventoryInit, MergesInv
<1>2. MergesInv /\ [InventoryNext]_inventoryVars =>
        [\A c \in DOMAIN MergeCalls :
           merging[c].at = "merging" /\ merging'[c].at = "merged" /\ c \notin outrun =>
           \A r \in SinkRows :
             RankIn(inventory'[MergeCalls[c].out], r) =
               RankIn(UNION {inventory[f] : f \in Range(MergeCalls[c].inputs)}, r)]_inventoryVars
  <2> SUFFICES ASSUME MergesInv, [InventoryNext]_inventoryVars,
                      NEW c \in DOMAIN MergeCalls, merging[c].at = "merging",
                      merging'[c].at = "merged", c \notin outrun, NEW r \in SinkRows
               PROVE  RankIn(inventory'[MergeCalls[c].out], r) =
                        RankIn(UNION {inventory[f] : f \in Range(MergeCalls[c].inputs)}, r)
    OBVIOUS
  <2>1. WriteMerge(c)
    <3>1. merging'[c] # merging[c]
      OBVIOUS
    <3>2. PICK d \in DOMAIN MergeCalls :
            BeginMerge(d) \/ ReadInput(d) \/ WriteMerge(d) \/ MergeRefused(d)
      BY <3>1 DEF InventoryNext, inventoryVars, BeginScan, ReadSource, SourceChanged, NextPass,
         WriteScan, EditSource, Curate
    <3>3. d = c
      BY <3>1, <3>2 DEF BeginMerge, ReadInput, WriteMerge, MergeRefused, Merge, MergesInv
    <3>4. ~BeginMerge(c) /\ ~ReadInput(c) /\ ~MergeRefused(c)
      <4>1. BeginMerge(c) => merging'[c].at = "merging"
        BY DEF BeginMerge, Merge, MergesInv
      <4>2. ReadInput(c) => merging'[c].at = "merging"
        <5>1. \A left, table, read :
                Merge(c, "merging", left, table, read) => merging'[c].at = "merging"
          BY DEF Merge, MergesInv
        <5> QED BY <5>1 DEF ReadInput
      <4>3. MergeRefused(c) => merging'[c].at = "refused"
        BY DEF MergeRefused, Merge, MergesInv
      <4> QED BY <4>1, <4>2, <4>3
    <3> QED BY <3>2, <3>3, <3>4
  <2>2. inventory'[MergeCalls[c].out] = {merging[c].table}
    <3>1. MergeCalls[c].out \in Inventories
      BY InventoryAssumption DEF Inventories
    <3>2. MergeCalls[c].out \in DOMAIN inventory
      BY <3>1 DEF MergesInv
    <3> QED BY <2>1, <3>2 DEF WriteMerge, Replaced
  <2>3. PICK done \in SUBSET Range(MergeCalls[c].inputs) :
          /\ done \cup Range(merging[c].left) = Range(MergeCalls[c].inputs)
          /\ RankIn({merging[c].table}, r) = RankIn(TablesOf(done), r)
    <3>1. MergedSoFar(c)
      BY DEF MergesInv
    <3> QED BY <3>1 DEF MergedSoFar
  <2>4. merging[c].left = <<>> /\ Range(<<>>) = {}
    BY <2>1 DEF WriteMerge, Range
  <2>5. done = Range(MergeCalls[c].inputs)
    BY <2>3, <2>4
  <2> QED BY <2>2, <2>3, <2>5 DEF TablesOf
<1> QED BY <1>1, <1>2, MergesInvStep, PTL DEF InventorySpec, CurationSurvives

-----------------------------------------------------------------------------
(* Packs for the symbolic executor *)

Source(t) == <<"source", t>>
OwnEntry(p) == {[target |-> pack[p].target, version |-> pack[p].version]}
OtherEntries(fs, t) == IF fs[Config] = <<>> THEN {} ELSE {e \in fs[Config][1] : e.target # t}

\* The files of another pack are as the call found them; its own two are as given.
FilesAre(p, sourceFile, config) ==
  /\ files[Source(pack[p].target)] = sourceFile /\ files[Config] = config
  /\ \A f \in FileNames \ {Source(pack[p].target), Config} : files[f] = pack[p].before[f]

\* The two renames of each file of the group, in order.
InGroup(p) ==
  LET old == pack[p].before[Source(pack[p].target)]
      config == pack[p].before[Config]
      next == pack[p].next
      aside == pack[p].aside IN
  \/ /\ At(p, "group") /\ next = 1 /\ aside = <<>> /\ FilesAre(p, old, config)
  \/ /\ At(p, "promote") /\ next = 1 /\ aside = <<old>> /\ FilesAre(p, <<>>, config)
  \/ /\ At(p, "group") /\ next = 2 /\ aside = <<old>>
     /\ FilesAre(p, <<OwnEntry(p)>>, config)
  \/ /\ At(p, "promote") /\ next = 2 /\ aside = <<old, config>>
     /\ FilesAre(p, <<OwnEntry(p)>>, <<>>)
  \/ /\ At(p, "group") /\ next = 3 /\ aside = <<old, config>>
     /\ FilesAre(p, <<OwnEntry(p)>>, <<pack[p].entries>>)

\* A call that is alone: where it is, and what it has done to the files it found.
AlonePack(p) ==
  /\ \A q \in PackCalls : ~At(q, "idle") => q = p
  /\ pack[p].target \in Packs
  /\ pack[p].before = [f \in FileNames |-> pack[p].before[f]]
  /\ \/ /\ At(p, "map") \/ At(p, "headers") \/ At(p, "read")
        /\ files = pack[p].before /\ pack[p].aside = <<>> /\ pack[p].next = 1
     \/ /\ pack[p].entries = OtherEntries(pack[p].before, pack[p].target) \cup OwnEntry(p)
        /\ InGroup(p)

PackRecord(r) ==
  DOMAIN r = {"stage", "target", "version", "entries", "next", "aside", "before"}

PackInv ==
  /\ files = [f \in FileNames |-> files[f]]
  /\ pack = [p \in PackCalls |-> pack[p]] /\ \A p \in PackCalls : PackRecord(pack[p])
  /\ \A p \in PackCalls \ crossed : At(p, "idle") \/ AlonePack(p)

LEMMA OutputsOf ==
  ASSUME NEW t \in Packs
  PROVE  /\ Outputs(t) = <<Source(t), Config>> /\ Source(t) # Config
         /\ Source(t) \in FileNames /\ Config \in FileNames
<1>1. Outputs(t) = <<Source(t), Config>> /\ Outputs(t)[1] = Source(t) /\ Outputs(t)[2] = Config
  BY DEF Outputs, Source
<1>2. Source(t)[1] = "source" /\ Config[1] = "config"
  BY DEF Source, Config
<1>3. Outputs(t)[1] \in FileNames /\ Outputs(t)[2] \in FileNames
  BY DEF FileNames
<1> QED BY <1>1, <1>2, <1>3

LEMMA AppendToFew ==
  /\ \A x : Append(<<>>, x) = <<x>>
  /\ \A x, y : Append(<<x>>, y) = <<x, y>>
<1>1. ASSUME NEW x PROVE Append(<<>>, x) = <<x>>
  OBVIOUS
<1>2. ASSUME NEW x, NEW y PROVE Append(<<x>>, y) = <<x, y>>
  <2>1. <<x>> \in Seq({x, y}) /\ Len(<<x>>) = 1 /\ <<x>>[1] = x
    OBVIOUS
  <2>2. /\ Append(<<x>>, y) \in Seq({x, y}) /\ Len(Append(<<x>>, y)) = 2
        /\ Append(<<x>>, y)[1] = x /\ Append(<<x>>, y)[2] = y
    BY <2>1
  <2>3. Append(<<x>>, y) = [i \in 1..2 |-> Append(<<x>>, y)[i]]
    BY <2>2
  <2>4. <<x, y>> = [i \in 1..2 |-> <<x, y>>[i]] /\ <<x, y>>[1] = x /\ <<x, y>>[2] = y
    OBVIOUS
  <2>5. \A i \in 1..2 : Append(<<x>>, y)[i] = <<x, y>>[i]
    BY <2>2, <2>4
  <2> QED BY <2>3, <2>4, <2>5
<1> QED BY <1>1, <1>2

\* What a failure of the group restores.
LEMMA RestoredFiles ==
  ASSUME PackInv, NEW p \in PackCalls, AlonePack(p), At(p, "group") \/ At(p, "promote")
  PROVE  Restored(p) = pack[p].before
<1> DEFINE t == pack[p].target
           aside == pack[p].aside
           next == pack[p].next
           before == pack[p].before
           undo(f) == {n \in DOMAIN aside : Outputs(t)[n] = f /\ PutsBack(p, n)}
<1>1. t \in Packs /\ before = [f \in FileNames |-> before[f]] /\ InGroup(p)
  BY DEF AlonePack, At
<1>2. /\ Outputs(t)[1] = Source(t) /\ Outputs(t)[2] = Config /\ Source(t) # Config
      /\ Source(t) \in FileNames /\ Config \in FileNames
  BY <1>1, OutputsOf
<1>3. DOMAIN aside \subseteq {1, 2}
  BY <1>1 DEF InGroup
<1>4. ASSUME NEW f \in FileNames
      PROVE  (IF undo(f) = {} THEN files[f] ELSE aside[CHOOSE n \in undo(f) : TRUE]) = before[f]
  <2>1. CASE f \notin {Source(t), Config}
    <3>1. undo(f) = {}
      BY <1>2, <1>3, <2>1
    <3>2. files[f] = before[f]
      BY <1>1, <2>1 DEF InGroup, FilesAre
    <3> QED BY <3>1, <3>2
  <2>2. CASE f = Source(t)
    <3>1. undo(f) \subseteq {1}
      BY <1>2, <1>3, <2>2
    <3>2. CASE 1 \in undo(f)
      <4>1. undo(f) = {1}
        BY <3>1, <3>2
      <4>2. (CHOOSE n \in undo(f) : TRUE) = 1
        BY <4>1
      <4>3. aside[1] = before[f]
        <5>1. 1 \in DOMAIN aside
          BY <3>2
        <5> QED BY <1>1, <2>2, <5>1 DEF InGroup
      <4> QED BY <4>1, <4>2, <4>3
    <3>3. CASE 1 \notin undo(f)
      <4>1. undo(f) = {}
        BY <3>1, <3>3
      <4>2. 1 \in DOMAIN aside => ~PutsBack(p, 1)
        BY <1>2, <2>2, <3>3
      <4>3. files[f] = before[f]
        BY <1>1, <2>2, <4>2 DEF InGroup, FilesAre, PutsBack, IsPromoted
      <4> QED BY <4>1, <4>3
    <3> QED BY <3>2, <3>3
  <2>3. CASE f = Config
    <3>1. undo(f) \subseteq {2}
      BY <1>2, <1>3, <2>3
    <3>2. CASE 2 \in undo(f)
      <4>1. undo(f) = {2}
        BY <3>1, <3>2
      <4>2. (CHOOSE n \in undo(f) : TRUE) = 2
        BY <4>1
      <4>3. aside[2] = before[f]
        <5>1. 2 \in DOMAIN aside
          BY <3>2
        <5> QED BY <1>1, <2>3, <5>1 DEF InGroup
      <4> QED BY <4>1, <4>2, <4>3
    <3>3. CASE 2 \notin undo(f)
      <4>1. undo(f) = {}
        BY <3>1, <3>3
      <4>2. 2 \in DOMAIN aside => ~PutsBack(p, 2)
        BY <1>2, <2>3, <3>3
      <4>3. files[f] = before[f]
        BY <1>1, <2>3, <4>2 DEF InGroup, FilesAre, PutsBack, IsPromoted
      <4> QED BY <4>1, <4>3
    <3> QED BY <3>2, <3>3
  <2> QED BY <2>1, <2>2, <2>3
<1>5. Restored(p) = [f \in FileNames |->
                       IF undo(f) = {} THEN files[f] ELSE aside[CHOOSE n \in undo(f) : TRUE]]
  BY DEF Restored
<1> HIDE DEF undo
<1>6. Restored(p) = [f \in FileNames |-> before[f]]
  BY <1>4, <1>5
<1> QED BY <1>1, <1>6

\* A call does something by itself: others that are under way are beside it.
LEMMA PackGoesOn ==
  ASSUME PackInv, NEW p \in PackCalls, ~At(p, "idle"), NEW new,
         PackStep(p, new), PackRecord(new), UNCHANGED crossed,
         files' = [f \in FileNames |-> files'[f]],
         p \notin crossed => new.stage = "idle" \/ AlonePack(p)'
  PROVE  PackInv'
<1>1. /\ pack' = [q \in PackCalls |-> pack'[q]] /\ pack'[p] = new
      /\ \A q \in PackCalls : q # p => pack'[q] = pack[q]
  BY DEF PackInv, PackStep
<1>2. \A q \in PackCalls : PackRecord(pack'[q])
  BY <1>1 DEF PackInv
<1>3. ASSUME NEW q \in PackCalls \ crossed PROVE At(q, "idle")' \/ AlonePack(q)'
  <2>1. CASE q = p
    BY <1>1, <2>1 DEF At
  <2>2. CASE q # p
    <3>1. At(q, "idle")
      BY <2>2 DEF PackInv, AlonePack
    <3> QED BY <1>1, <2>2, <3>1 DEF At
  <2> QED BY <2>1, <2>2
<1> QED BY <1>1, <1>2, <1>3 DEF PackInv

\* A call that is alone goes to another stage, with its target and what it found.
LEMMA AloneGoesOn ==
  ASSUME PackInv, NEW p \in PackCalls, AlonePack(p), ~At(p, "idle"), NEW new,
         PackStep(p, new), PackRecord(new),
         new.target = pack[p].target, new.before = pack[p].before
  PROVE  /\ pack'[p] = new
         /\ \A q \in PackCalls : ~At(q, "idle")' => q = p
         /\ new.target \in Packs /\ new.before = [f \in FileNames |-> new.before[f]]
<1>1. pack'[p] = new /\ \A q \in PackCalls : q # p => pack'[q] = pack[q]
  BY DEF PackInv, PackStep
<1> QED BY <1>1 DEF AlonePack, At

LEMMA PackInvStep == PackInv /\ [PackNext]_packVars => PackInv'
<1> SUFFICES ASSUME PackInv, [PackNext]_packVars PROVE PackInv'
  OBVIOUS
<1>1. ASSUME NEW p \in PackCalls, NEW t \in PacksOf[p], BeginPack(p, t) PROVE PackInv'
  <2> DEFINE new == [NoPack EXCEPT !.stage = "map", !.target = t, !.version = harness[t],
                                   !.before = IF Busy = {} THEN files ELSE <<>>]
  <2>1. /\ pack' = [q \in PackCalls |-> IF q # p THEN [pack[q] EXCEPT !.before = <<>>] ELSE new]
        /\ At(p, "idle") /\ UNCHANGED files
        /\ crossed' = IF Busy = {} THEN crossed \ {p} ELSE crossed \cup Busy \cup {p}
    BY <1>1 DEF BeginPack
  <2>2. /\ new.stage = "map" /\ new.target = t /\ new.aside = <<>> /\ new.next = 1
        /\ new.before = (IF Busy = {} THEN files ELSE <<>>) /\ PackRecord(new)
    BY DEF NoPack, PackRecord
  <2>3. t \in Packs
    BY PackAssumption
  <2> HIDE DEF new
  <2>4. pack'[p] = new
    BY <2>1
  <2>5. \A q \in PackCalls : q # p => pack'[q].stage = pack[q].stage /\ PackRecord(pack'[q])
    BY <2>1 DEF PackInv, PackRecord
  <2>6. ASSUME NEW q \in PackCalls \ crossed' PROVE At(q, "idle")' \/ AlonePack(q)'
    <3>1. CASE Busy = {}
      <4>1. \A d \in PackCalls : d # p => At(d, "idle")'
        BY <2>5, <3>1 DEF Busy, At
      <4>2. CASE q = p
        <5>1. new.before = files /\ files' = files
          BY <2>1, <2>2, <3>1
        <5> QED BY <2>2, <2>3, <2>4, <4>1, <4>2, <5>1 DEF AlonePack, At, PackInv
      <4> QED BY <4>1, <4>2
    <3>2. CASE Busy # {}
      BY <2>1, <2>5, <2>6, <3>2 DEF Busy, At
    <3> QED BY <3>1, <3>2
  <2>7. pack' = [q \in PackCalls |-> pack'[q]]
    BY <2>1
  <2> QED BY <2>1, <2>2, <2>4, <2>5, <2>6, <2>7 DEF PackInv
<1>2. ASSUME NEW p \in PackCalls, HeadersAside(p) PROVE PackInv'
  <2> DEFINE new == [pack[p] EXCEPT !.stage = "headers"]
  <2>1. PackStep(p, new) /\ At(p, "map") /\ UNCHANGED <<files, crossed>>
    BY <1>2 DEF HeadersAside
  <2>2. new.stage = "headers" /\ new.target = pack[p].target /\ new.before = pack[p].before
        /\ new.aside = pack[p].aside /\ new.next = pack[p].next /\ PackRecord(new)
    BY DEF PackInv, PackRecord
  <2> HIDE DEF new
  <2>3. ASSUME p \notin crossed PROVE AlonePack(p)'
    <3>1. AlonePack(p) /\ ~At(p, "idle")
      BY <2>1, <2>3 DEF PackInv, At
    <3>2. files = pack[p].before /\ pack[p].aside = <<>> /\ pack[p].next = 1
      BY <2>1, <3>1 DEF AlonePack, InGroup, At
    <3>3. /\ pack'[p] = new /\ new.target \in Packs
          /\ \A q \in PackCalls : ~At(q, "idle")' => q = p
          /\ new.before = [f \in FileNames |-> new.before[f]]
      BY <2>1, <2>2, <3>1, AloneGoesOn
    <3>4. /\ At(p, "headers")' /\ files' = pack'[p].before
          /\ pack'[p].aside = <<>> /\ pack'[p].next = 1
      BY <2>1, <2>2, <3>2, <3>3 DEF At
    <3>5. /\ pack'[p].target \in Packs
          /\ pack'[p].before = [f \in FileNames |-> pack'[p].before[f]]
      BY <3>3
    <3> QED BY <3>3, <3>4, <3>5 DEF AlonePack
  <2> QED BY <2>1, <2>2, <2>3, PackGoesOn DEF PackInv, At
<1>3. ASSUME NEW p \in PackCalls, HeadersIn(p) \/ NoHeaders(p) PROVE PackInv'
  <2> DEFINE new == [pack[p] EXCEPT !.stage = "read"]
  <2>1. PackStep(p, new) /\ (At(p, "map") \/ At(p, "headers")) /\ UNCHANGED <<files, crossed>>
    BY <1>3 DEF HeadersIn, NoHeaders
  <2>2. new.stage = "read" /\ new.target = pack[p].target /\ new.before = pack[p].before
        /\ new.aside = pack[p].aside /\ new.next = pack[p].next /\ PackRecord(new)
    BY DEF PackInv, PackRecord
  <2> HIDE DEF new
  <2>3. ASSUME p \notin crossed PROVE AlonePack(p)'
    <3>1. AlonePack(p) /\ ~At(p, "idle")
      BY <2>1, <2>3 DEF PackInv, At
    <3>2. files = pack[p].before /\ pack[p].aside = <<>> /\ pack[p].next = 1
      BY <2>1, <3>1 DEF AlonePack, InGroup, At
    <3>3. /\ pack'[p] = new /\ new.target \in Packs
          /\ \A q \in PackCalls : ~At(q, "idle")' => q = p
          /\ new.before = [f \in FileNames |-> new.before[f]]
      BY <2>1, <2>2, <3>1, AloneGoesOn
    <3>4. /\ At(p, "read")' /\ files' = pack'[p].before
          /\ pack'[p].aside = <<>> /\ pack'[p].next = 1
      BY <2>1, <2>2, <3>2, <3>3 DEF At
    <3>5. /\ pack'[p].target \in Packs
          /\ pack'[p].before = [f \in FileNames |-> pack'[p].before[f]]
      BY <3>3
    <3> QED BY <3>3, <3>4, <3>5 DEF AlonePack
  <2> QED BY <2>1, <2>2, <2>3, PackGoesOn DEF PackInv, At
<1>4. ASSUME NEW p \in PackCalls, ReadConfig(p) PROVE PackInv'
  <2> DEFINE all == OtherEntries(files, pack[p].target) \cup OwnEntry(p)
             new == [pack[p] EXCEPT !.stage = "group", !.entries = all]
  <2>1. PackStep(p, new) /\ At(p, "read") /\ UNCHANGED <<files, crossed>>
    <3>1. all = {e \in IF files[Config] = <<>> THEN {} ELSE files[Config][1] : e.target # pack[p].target}
                  \cup {[target |-> pack[p].target, version |-> pack[p].version]}
      BY DEF OtherEntries, OwnEntry
    <3> QED BY <1>4, <3>1 DEF ReadConfig
  <2>2. new.stage = "group" /\ new.target = pack[p].target /\ new.before = pack[p].before
        /\ new.aside = pack[p].aside /\ new.next = pack[p].next /\ PackRecord(new)
        /\ new.version = pack[p].version /\ new.entries = all
    BY DEF PackInv, PackRecord
  <2> HIDE DEF new
  <2>3. ASSUME p \notin crossed PROVE AlonePack(p)'
    <3>1. AlonePack(p) /\ ~At(p, "idle")
      BY <2>1, <2>3 DEF PackInv, At
    <3>2. files = pack[p].before /\ pack[p].aside = <<>> /\ pack[p].next = 1
      BY <2>1, <3>1 DEF AlonePack, InGroup, At
    <3>3. /\ pack'[p] = new /\ new.target \in Packs
          /\ \A q \in PackCalls : ~At(q, "idle")' => q = p
          /\ new.before = [f \in FileNames |-> new.before[f]]
      BY <2>1, <2>2, <3>1, AloneGoesOn
    <3>4. new.entries = OtherEntries(new.before, new.target) \cup OwnEntry(p)'
      BY <2>2, <3>2, <3>3 DEF OtherEntries, OwnEntry
    <3>5. InGroup(p)'
      BY <2>1, <2>2, <3>2, <3>3 DEF InGroup, FilesAre, At
    <3> QED BY <3>3, <3>4, <3>5 DEF AlonePack, OtherEntries
  <2> QED BY <2>1, <2>2, <2>3, PackGoesOn DEF PackInv, At
<1>5. ASSUME NEW p \in PackCalls, SetAside(p) PROVE PackInv'
  <2> DEFINE kept == Append(pack[p].aside, files[Output(p)])
             new == [pack[p] EXCEPT !.stage = "promote", !.aside = kept]
  <2>1. /\ PackStep(p, new) /\ At(p, "group") /\ pack[p].next <= 2 /\ UNCHANGED crossed
        /\ files' = [files EXCEPT ![Output(p)] = <<>>]
    BY <1>5 DEF SetAside, PackInv, PackRecord
  <2>2. new.stage = "promote" /\ new.target = pack[p].target /\ new.before = pack[p].before
        /\ new.aside = kept /\ new.next = pack[p].next /\ PackRecord(new)
        /\ new.version = pack[p].version /\ new.entries = pack[p].entries
    BY DEF PackInv, PackRecord
  <2> HIDE DEF new
  <2>3. ASSUME p \notin crossed PROVE AlonePack(p)'
    <3>1. AlonePack(p) /\ ~At(p, "idle")
      BY <2>1, <2>3 DEF PackInv, At
    <3>2. /\ pack'[p] = new /\ new.target \in Packs
          /\ \A q \in PackCalls : ~At(q, "idle")' => q = p
          /\ new.before = [f \in FileNames |-> new.before[f]]
      BY <2>1, <2>2, <3>1, AloneGoesOn
    <3>3. /\ pack[p].entries = OtherEntries(pack[p].before, pack[p].target) \cup OwnEntry(p)
          /\ InGroup(p)
      BY <2>1, <3>1 DEF AlonePack, At
    <3>4. new.entries = OtherEntries(new.before, new.target) \cup OwnEntry(p)'
      BY <2>2, <3>2, <3>3 DEF OtherEntries, OwnEntry
    <3>5. /\ Outputs(new.target) = <<Source(new.target), Config>>
          /\ Source(new.target) # Config
          /\ Source(new.target) \in DOMAIN files /\ Config \in DOMAIN files
      BY <3>2, OutputsOf DEF PackInv
    <3>6. CASE pack[p].next = 1
      <4>1. Output(p) = Source(new.target)
        BY <2>2, <3>5, <3>6 DEF Output
      <4>2. pack[p].aside = <<>>
            /\ FilesAre(p, new.before[Source(new.target)], new.before[Config])
        BY <2>1, <2>2, <3>3, <3>6 DEF InGroup, At
      <4>3. new.aside = <<new.before[Source(new.target)]>>
        BY <2>2, <4>1, <4>2, AppendToFew DEF FilesAre
      <4>4. /\ files'[Source(new.target)] = <<>> /\ files'[Config] = new.before[Config]
            /\ \A f \in FileNames \ {Source(new.target), Config} : files'[f] = new.before[f]
        BY <2>1, <2>2, <3>2, <3>5, <4>1, <4>2 DEF FilesAre
      <4>5. InGroup(p)'
        BY <2>2, <3>2, <3>6, <4>3, <4>4 DEF InGroup, At, FilesAre
      <4> QED BY <3>2, <3>4, <4>5 DEF AlonePack, OtherEntries
    <3>7. CASE pack[p].next = 2
      <4>1. Output(p) = Config
        BY <2>2, <3>5, <3>7 DEF Output
      <4>2. pack[p].aside = <<new.before[Source(new.target)]>>
            /\ FilesAre(p, <<OwnEntry(p)>>, new.before[Config])
        BY <2>1, <2>2, <3>3, <3>7 DEF InGroup, At
      <4>3. new.aside = <<new.before[Source(new.target)], new.before[Config]>>
        BY <2>2, <4>1, <4>2, AppendToFew DEF FilesAre
      <4>4. /\ files'[Source(new.target)] = <<OwnEntry(p)'>> /\ files'[Config] = <<>>
            /\ \A f \in FileNames \ {Source(new.target), Config} : files'[f] = new.before[f]
        BY <2>1, <2>2, <3>2, <3>5, <4>1, <4>2 DEF FilesAre, OwnEntry
      <4>5. InGroup(p)'
        BY <2>2, <3>2, <3>7, <4>3, <4>4 DEF InGroup, At, FilesAre
      <4> QED BY <3>2, <3>4, <4>5 DEF AlonePack, OtherEntries
    <3> QED BY <2>1, <3>3, <3>6, <3>7 DEF InGroup, At
  <2>4. files' = [f \in FileNames |-> files'[f]]
    BY <2>1 DEF PackInv
  <2> QED BY <2>1, <2>2, <2>3, <2>4, PackGoesOn DEF At
<1>6. ASSUME NEW p \in PackCalls, Promote(p) PROVE PackInv'
  <2> DEFINE new == [pack[p] EXCEPT !.stage = "group", !.next = @ + 1]
  <2>1. /\ PackStep(p, new) /\ At(p, "promote") /\ UNCHANGED crossed
        /\ files' = [files EXCEPT ![Output(p)] = <<NewContent(p)>>]
    BY <1>6 DEF Promote
  <2>2. new.stage = "group" /\ new.target = pack[p].target /\ new.before = pack[p].before
        /\ new.aside = pack[p].aside /\ new.next = pack[p].next + 1 /\ PackRecord(new)
        /\ new.version = pack[p].version /\ new.entries = pack[p].entries
    BY DEF PackInv, PackRecord
  <2> HIDE DEF new
  <2>3. ASSUME p \notin crossed PROVE AlonePack(p)'
    <3>1. AlonePack(p) /\ ~At(p, "idle")
      BY <2>1, <2>3 DEF PackInv, At
    <3>2. /\ pack'[p] = new /\ new.target \in Packs
          /\ \A q \in PackCalls : ~At(q, "idle")' => q = p
          /\ new.before = [f \in FileNames |-> new.before[f]]
      BY <2>1, <2>2, <3>1, AloneGoesOn
    <3>3. /\ pack[p].entries = OtherEntries(pack[p].before, pack[p].target) \cup OwnEntry(p)
          /\ InGroup(p)
      BY <2>1, <3>1 DEF AlonePack, At
    <3>4. new.entries = OtherEntries(new.before, new.target) \cup OwnEntry(p)'
      BY <2>2, <3>2, <3>3 DEF OtherEntries, OwnEntry
    <3>5. /\ Outputs(new.target) = <<Source(new.target), Config>>
          /\ Source(new.target) # Config
          /\ Source(new.target) \in DOMAIN files /\ Config \in DOMAIN files
      BY <3>2, OutputsOf DEF PackInv
    <3>6. CASE pack[p].next = 1
      <4>1. Output(p) = Source(new.target) /\ NewContent(p) = OwnEntry(p)'
        BY <2>2, <3>2, <3>5, <3>6 DEF Output, NewContent, OwnEntry
      <4>2. pack[p].aside = <<new.before[Source(new.target)]>>
            /\ FilesAre(p, <<>>, new.before[Config])
        BY <2>1, <2>2, <3>3, <3>6 DEF InGroup, At
      <4>3. /\ files'[Source(new.target)] = <<OwnEntry(p)'>>
            /\ files'[Config] = new.before[Config]
            /\ \A f \in FileNames \ {Source(new.target), Config} : files'[f] = new.before[f]
        BY <2>1, <2>2, <3>2, <3>5, <4>1, <4>2 DEF FilesAre
      <4>4. new.next = 2
        BY <2>2, <3>6
      <4>5. InGroup(p)'
        BY <2>2, <3>2, <4>2, <4>3, <4>4 DEF InGroup, At, FilesAre
      <4> QED BY <3>2, <3>4, <4>5 DEF AlonePack, OtherEntries
    <3>7. CASE pack[p].next = 2
      <4>1. Output(p) = Config /\ NewContent(p) = new.entries
        BY <2>2, <3>5, <3>7 DEF Output, NewContent
      <4>2. pack[p].aside = <<new.before[Source(new.target)], new.before[Config]>>
            /\ FilesAre(p, <<OwnEntry(p)>>, <<>>)
        BY <2>1, <2>2, <3>3, <3>7 DEF InGroup, At
      <4>3. /\ files'[Source(new.target)] = <<OwnEntry(p)'>>
            /\ files'[Config] = <<new.entries>>
            /\ \A f \in FileNames \ {Source(new.target), Config} : files'[f] = new.before[f]
        BY <2>1, <2>2, <3>2, <3>5, <4>1, <4>2 DEF FilesAre, OwnEntry
      <4>4. new.next = 3
        BY <2>2, <3>7
      <4>5. InGroup(p)'
        BY <2>2, <3>2, <4>2, <4>3, <4>4 DEF InGroup, At, FilesAre
      <4> QED BY <3>2, <3>4, <4>5 DEF AlonePack, OtherEntries
    <3> QED BY <2>1, <3>3, <3>6, <3>7 DEF InGroup, At
  <2>4. files' = [f \in FileNames |-> files'[f]]
    BY <2>1 DEF PackInv
  <2> QED BY <2>1, <2>2, <2>3, <2>4, PackGoesOn DEF At
<1>7. ASSUME NEW p \in PackCalls,
             HeadersFail(p) \/ PackBlocked(p) \/ PackPublished(p) \/ GroupFails(p) \/ PackDies(p)
      PROVE  PackInv'
  <2>1. PackStep(p, NoPack) /\ ~At(p, "idle") /\ UNCHANGED crossed
    BY <1>7 DEF HeadersFail, PackBlocked, PackPublished, GroupFails, PackDies, At
  <2>2. NoPack.stage = "idle" /\ PackRecord(NoPack)
    BY DEF NoPack, PackRecord
  <2>3. files' = files \/ files' = Restored(p)
    BY <1>7 DEF HeadersFail, PackBlocked, PackPublished, GroupFails, PackDies
  <2>4. files' = [f \in FileNames |-> files'[f]]
    BY <2>3 DEF PackInv, Restored
  <2> HIDE DEF NoPack
  <2> QED BY <2>1, <2>2, <2>4, PackGoesOn
<1>8. CASE UNCHANGED packVars \/ \E t \in Packs : EditHarness(t)
  <2>1. UNCHANGED <<files, pack, crossed>>
    BY <1>8 DEF packVars, EditHarness
  <2>2. ASSUME NEW p \in PackCalls, InGroup(p) PROVE InGroup(p)'
    BY <2>1, <2>2 DEF InGroup, FilesAre, At, OwnEntry
  <2>3. ASSUME NEW p \in PackCalls, AlonePack(p) PROVE AlonePack(p)'
    BY <2>1, <2>2, <2>3 DEF AlonePack, At, OwnEntry, OtherEntries
  <2> QED BY <2>1, <2>3 DEF PackInv, At
<1> QED BY <1>1, <1>2, <1>3, <1>4, <1>5, <1>6, <1>7, <1>8 DEF PackNext

\* The files of a pack are published together, or all files are as they were: a
\* call beside which no other ran (generate_klee_pack).
THEOREM PublishedTogether == PackSpec => TogetherOrNotAtAll
<1>1. PackInit => PackInv
  BY DEF PackInit, PackInv, PackRecord, NoPack, At
<1>2. PackInv /\ [PackNext]_packVars =>
        [\A p \in PackCalls \ crossed :
           LET t == pack[p].target
               new == {[target |-> t, version |-> pack[p].version]}
               others(fs) == IF fs[Config] = <<>> THEN {} ELSE {e \in fs[Config][1] : e.target # t} IN
           /\ GroupFails(p) \/ PackBlocked(p) => files' = pack[p].before
           /\ PackPublished(p) =>
                files = [pack[p].before EXCEPT ![<<"source", t>>] = <<new>>,
                                               ![Config] = <<others(pack[p].before) \cup new>>]
        ]_packVars
  <2> SUFFICES ASSUME PackInv, NEW p \in PackCalls \ crossed
               PROVE  /\ GroupFails(p) \/ PackBlocked(p) => files' = pack[p].before
                      /\ PackPublished(p) =>
                           files = [pack[p].before EXCEPT
                                      ![Source(pack[p].target)] = <<OwnEntry(p)>>,
                                      ![Config] = <<OtherEntries(pack[p].before, pack[p].target)
                                                      \cup OwnEntry(p)>>]
    BY DEF Source, OwnEntry, OtherEntries
  <2>1. ASSUME GroupFails(p) PROVE files' = pack[p].before
    <3>1. AlonePack(p) /\ (At(p, "group") \/ At(p, "promote"))
      BY <2>1 DEF GroupFails, PackInv, At
    <3> QED BY <2>1, <3>1, RestoredFiles DEF GroupFails
  <2>2. ASSUME PackBlocked(p) PROVE files' = pack[p].before
    <3>1. AlonePack(p) /\ (At(p, "map") \/ At(p, "read"))
      BY <2>2 DEF PackBlocked, PackInv, At
    <3> QED BY <2>2, <3>1 DEF PackBlocked, AlonePack, InGroup, At
  <2>3. ASSUME PackPublished(p)
        PROVE  files = [pack[p].before EXCEPT
                          ![Source(pack[p].target)] = <<OwnEntry(p)>>,
                          ![Config] = <<OtherEntries(pack[p].before, pack[p].target) \cup OwnEntry(p)>>]
    <3>1. AlonePack(p) /\ At(p, "group") /\ pack[p].next = 3
      BY <2>3 DEF PackPublished, PackInv, At
    <3>2. /\ pack[p].target \in Packs
          /\ pack[p].before = [f \in FileNames |-> pack[p].before[f]]
          /\ pack[p].entries = OtherEntries(pack[p].before, pack[p].target) \cup OwnEntry(p)
          /\ FilesAre(p, <<OwnEntry(p)>>, <<pack[p].entries>>)
      BY <3>1 DEF AlonePack, InGroup, At
    <3>3. Source(pack[p].target) # Config
      BY <3>2, OutputsOf
    <3>4. files = [f \in FileNames |-> files[f]]
      BY DEF PackInv
    <3> QED BY <3>2, <3>3, <3>4 DEF FilesAre
  <2> QED BY <2>1, <2>2, <2>3
<1> QED BY <1>1, <1>2, PackInvStep, PTL DEF PackSpec, TogetherOrNotAtAll

-----------------------------------------------------------------------------
(* Comparisons of implementations *)

CompareFields ==
  {"stage", "impls", "todo", "input", "got", "scanned", "agreed", "split", "failed",
   "skipped", "listed", "reported"}

\* The verdicts so far on the input at hand are those of its content, unless it
\* was changed meanwhile.
VerdictsOf(x) ==
  /\ compare.input = {x} /\ x \notin compare.todo
  /\ \A d \in compare.listed : d.path # x
  /\ DOMAIN compare.got \subseteq compare.impls
  /\ x \notin edited.under =>
       \A i \in DOMAIN compare.got : compare.got[i] \in {Behaves[i][corpus[x]], NoVerdict}

Replayable(d) ==
  /\ d.exemplar \in exemplars /\ DOMAIN d.verdicts = compare.impls
  /\ d.path \notin edited.under =>
       /\ \A i \in compare.impls : d.verdicts[i] = Behaves[i][d.exemplar]
       /\ \/ Cardinality({d.verdicts[i] : i \in compare.impls}) > 1
          \/ \E i \in compare.impls : compare.impls = {i} /\ d.verdicts[i].class = "crash"

\* What is missing in the counts is the input at hand.
CountsAddUp ==
  LET counted == compare.agreed + compare.split + compare.failed
      kept == compare.skipped + Cardinality(compare.listed) IN
  /\ compare.stage # "replay" => compare.scanned <= counted
  /\ compare.stage = "replay" => compare.scanned <= counted + 1
  /\ compare.stage # "exemplar" => compare.split = kept
  /\ compare.stage = "exemplar" => compare.split = kept + 1

DifferentialInv ==
  /\ corpus = [x \in Paths |-> corpus[x]] /\ binaries \subseteq Implementations
  /\ DOMAIN compare = CompareFields
  /\ compare.stage \in {"idle", "run", "replay", "exemplar"}
  /\ compare.impls \subseteq Implementations /\ compare.todo \subseteq Paths
  /\ compare.scanned \in Nat /\ compare.agreed \in Nat /\ compare.split \in Nat
  /\ compare.failed \in Nat /\ compare.skipped \in Nat /\ IsFiniteSet(compare.listed)
  /\ compare.stage # "idle" => compare.impls # {}
  /\ compare.stage \in {"idle", "run"} => compare.input = {}
  /\ compare.stage \in {"replay", "exemplar"} => \E x \in Paths : VerdictsOf(x)
  /\ compare.stage = "exemplar" => DOMAIN compare.got = compare.impls /\ Diverges(compare.got)
  /\ \A d \in compare.listed : d.path \notin compare.todo
  /\ \A d \in compare.listed : Replayable(d)
  /\ CountsAddUp
  /\ compare.reported \subseteq compare.listed
  /\ compare.stage = "idle" =>
       \/ Cardinality(compare.reported) = Cardinality(compare.listed)
       \/ /\ Cardinality(compare.reported) = TopCap
          /\ Cardinality(compare.listed) > TopCap

LEMMA TwoDiffer ==
  ASSUME NEW S, IsFiniteSet(S), NEW a \in S, NEW b \in S, a # b
  PROVE  Cardinality(S) > 1
<1>1. IsFiniteSet({a}) /\ Cardinality({a}) = 1
  BY FS_Singleton
<1>2. Cardinality({a} \cup {b}) = 2 /\ IsFiniteSet({a} \cup {b})
  <2>1. b \notin {a}
    OBVIOUS
  <2>2. /\ IsFiniteSet({a} \cup {b})
        /\ Cardinality({a} \cup {b}) = Cardinality({a}) + 1
    BY <1>1, <2>1, FS_AddElement
  <2> QED BY <1>1, <2>2
<1>3. {a} \cup {b} \subseteq S
  OBVIOUS
<1>4. Cardinality({a} \cup {b}) <= Cardinality(S)
  BY <1>3, FS_Subset
<1> QED BY <1>2, <1>4, FS_CardinalityType

LEMMA FewAreOne ==
  ASSUME NEW S, IsFiniteSet(S), S # {}, ~(Cardinality(S) > 1)
  PROVE  Cardinality(S) = 1
BY FS_CardinalityType, FS_EmptySet

LEMMA ImageIsFinite ==
  ASSUME NEW f, IsFiniteSet(DOMAIN f)
  PROVE  IsFiniteSet({f[i] : i \in DOMAIN f})
<1> DEFINE g == [i \in DOMAIN f |-> f[i]]
<1>1. g \in Surjection(DOMAIN f, {f[i] : i \in DOMAIN f})
  BY DEF Surjection
<1> QED BY <1>1, FS_Surjection

\* Implementations that diverge gave verdicts that differ; one by itself crashed.
LEMMA DivergentVerdicts ==
  ASSUME NEW got, IsFiniteSet(DOMAIN got), Diverges(got)
  PROVE  \/ Cardinality({got[i] : i \in DOMAIN got}) > 1
         \/ \E i \in DOMAIN got : DOMAIN got = {i} /\ got[i].class = "crash"
<1> DEFINE verdicts == {got[i] : i \in DOMAIN got}
<1>1. IsFiniteSet(verdicts)
  BY ImageIsFinite
<1>2. CASE Cardinality(DOMAIN got) = 1 /\ Classes(got) = {"crash"}
  <2>1. PICK i \in DOMAIN got : got[i].class = "crash"
    BY <1>2 DEF Classes
  <2>2. DOMAIN got = {i}
    <3> SUFFICES ASSUME NEW j \in DOMAIN got, j # i PROVE FALSE
      BY <2>1
    <3>1. Cardinality(DOMAIN got) > 1
      BY <2>1, TwoDiffer
    <3> QED BY <1>2, <3>1
  <2> QED BY <2>1, <2>2
<1>3. CASE ~(Cardinality(DOMAIN got) = 1 /\ Classes(got) = {"crash"})
  <2>1. \E i, j \in DOMAIN got : got[i] # got[j]
    <3>1. CASE Cardinality(Classes(got)) > 1
      <4>1. Classes(got) # {}
        BY <3>1, FS_EmptySet
      <4>2. PICK i \in DOMAIN got : TRUE
        BY <4>1 DEF Classes
      <4>3. Classes(got) # {got[i].class}
        <5>1. Cardinality({got[i].class}) = 1
          BY FS_Singleton
        <5> QED BY <3>1, <5>1
      <4>4. PICK j \in DOMAIN got : got[j].class # got[i].class
        BY <4>2, <4>3 DEF Classes
      <4> QED BY <4>2, <4>4
    <3>2. CASE \E i, j \in DOMAIN got : got[i].out # got[j].out
      BY <3>2
    <3> QED BY <1>3, <3>1, <3>2 DEF Diverges
  <2> QED BY <1>1, <2>1, TwoDiffer
<1> QED BY <1>2, <1>3

\* A call that begins has found nothing yet.
LEMMA RunBegins ==
  ASSUME NEW impls, compare' \in {NoCompare, Run(impls)}
  PROVE  /\ DOMAIN compare' = CompareFields
         /\ compare'.input = {} /\ compare'.listed = {} /\ compare'.reported = {}
         /\ compare'.scanned = 0 /\ compare'.agreed = 0 /\ compare'.split = 0
         /\ compare'.failed = 0 /\ compare'.skipped = 0
         /\ compare'.stage \in {"idle", "run"} /\ compare'.todo \subseteq Paths
         /\ compare'.impls \in {{}, impls}
         /\ compare'.stage # "idle" => compare'.impls = impls /\ compare' # NoCompare
<1>1. CASE compare' = NoCompare
  BY <1>1 DEF NoCompare, CompareFields
<1>2. CASE compare' # NoCompare
  <2>1. compare' = [NoCompare EXCEPT !.stage = "run", !.impls = impls,
                                     !.todo = {x \in Paths : corpus[x] # Gone}]
    BY <1>2 DEF Run
  <2> QED BY <2>1 DEF NoCompare, CompareFields
<1> QED BY <1>1, <1>2

\* What can be replayed stays so while exemplars are only added.
LEMMA ReplayableStays ==
  ASSUME \A d \in compare.listed : Replayable(d), compare'.impls = compare.impls,
         exemplars \subseteq exemplars', edited.under \subseteq edited'.under
  PROVE  \A d \in compare.listed : Replayable(d)'
<1> SUFFICES ASSUME NEW d \in compare.listed PROVE Replayable(d)'
  OBVIOUS
<1>1. Replayable(d)
  OBVIOUS
<1>2. /\ d.exemplar \in exemplars' /\ DOMAIN d.verdicts = compare'.impls
      /\ d.path \notin edited'.under => d.path \notin edited.under
  BY <1>1 DEF Replayable
<1>3. d.path \notin edited'.under =>
        /\ \A i \in compare'.impls : d.verdicts[i] = Behaves[i][d.exemplar]
        /\ \/ Cardinality({d.verdicts[i] : i \in compare'.impls}) > 1
           \/ \E i \in compare'.impls : compare'.impls = {i} /\ d.verdicts[i].class = "crash"
  BY <1>1, <1>2 DEF Replayable
<1> QED BY <1>2, <1>3 DEF Replayable

LEMMA DifferentialInvStep == DifferentialInv /\ [DifferentialNext]_differentialVars => DifferentialInv'
<1> SUFFICES ASSUME DifferentialInv, [DifferentialNext]_differentialVars PROVE DifferentialInv'
  OBVIOUS
<1> DEFINE counted == compare.agreed + compare.split + compare.failed
<1>0. IsFiniteSet(compare.impls)
  BY DifferentialAssumption, FS_Subset DEF DifferentialInv
<1>1. ASSUME NEW impls \in SUBSET Implementations, compare' \in {NoCompare, Run(impls)},
             compare' = NoCompare \/ impls # {}, binaries' \subseteq Implementations, UNCHANGED <<corpus, exemplars, edited>>
      PROVE  DifferentialInv'
  <2>1. /\ DOMAIN compare' = CompareFields
        /\ compare'.input = {} /\ compare'.listed = {} /\ compare'.reported = {}
        /\ compare'.scanned = 0 /\ compare'.agreed = 0 /\ compare'.split = 0
        /\ compare'.failed = 0 /\ compare'.skipped = 0
        /\ compare'.stage \in {"idle", "run"} /\ compare'.todo \subseteq Paths
        /\ compare'.impls \in {{}, impls}
        /\ compare'.stage # "idle" => compare'.impls = impls /\ compare' # NoCompare
    BY <1>1, RunBegins
  <2>2. IsFiniteSet({}) /\ Cardinality({}) = 0
    BY FS_EmptySet
  <2>3. CountsAddUp'
    BY <2>1, <2>2 DEF CountsAddUp
  <2>4. compare'.impls \subseteq Implementations
    BY <2>1
  <2> QED BY <1>1, <2>1, <2>2, <2>3, <2>4 DEF DifferentialInv
<1>12. CASE Resolve
  <2>1. PICK built \in SUBSET (Implementations \ binaries) :
          /\ binaries' = binaries \cup built
          /\ compare' = IF Cardinality(binaries') < 2 THEN NoCompare ELSE Run(binaries')
    BY <1>12 DEF Resolve
  <2>2. binaries' \subseteq Implementations
    BY <2>1 DEF DifferentialInv
  <2>3. compare' = NoCompare \/ binaries' # {}
    BY <2>1, FS_EmptySet
  <2>4. compare' \in {NoCompare, Run(binaries')}
    BY <2>1
  <2>5. UNCHANGED <<corpus, exemplars, edited>>
    BY <1>12 DEF Resolve
  <2> QED BY <1>1, <2>2, <2>3, <2>4, <2>5
<1>13. ASSUME NEW impls \in SUBSET Implementations, Explicit(impls) PROVE DifferentialInv'
  <2>1. binaries' \subseteq Implementations
    BY <1>13 DEF Explicit, DifferentialInv
  <2> QED BY <1>1, <1>13, <2>1 DEF Explicit
<1>2. ASSUME NEW x \in Paths, TakeInput(x) PROVE DifferentialInv'
  <2>1. /\ compare' = [compare EXCEPT !.stage = "replay", !.todo = @ \ {x}, !.input = {x},
                         !.got = <<>>, !.scanned = @ + 1]
        /\ compare.stage = "run" /\ x \in compare.todo
        /\ UNCHANGED <<corpus, binaries, exemplars, edited>>
    BY <1>2 DEF TakeInput
  <2>2. /\ DOMAIN compare' = CompareFields /\ compare'.stage = "replay"
        /\ compare'.todo = compare.todo \ {x} /\ compare'.input = {x} /\ compare'.got = <<>>
        /\ compare'.scanned = compare.scanned + 1
        /\ compare'.impls = compare.impls /\ compare'.agreed = compare.agreed
        /\ compare'.split = compare.split /\ compare'.failed = compare.failed
        /\ compare'.skipped = compare.skipped /\ compare'.listed = compare.listed
        /\ compare'.reported = compare.reported
    BY <2>1 DEF DifferentialInv, CompareFields
  <2>3. VerdictsOf(x)'
    BY <2>1, <2>2 DEF VerdictsOf, DifferentialInv
  <2>4. \A d \in compare.listed : Replayable(d)'
    BY <2>1, <2>2, ReplayableStays DEF DifferentialInv
  <2>5. CountsAddUp'
    BY <2>1, <2>2, FS_CardinalityType DEF CountsAddUp, DifferentialInv
  <2> QED BY <2>1, <2>2, <2>3, <2>4, <2>5 DEF DifferentialInv
<1>3. ASSUME NEW i \in Implementations, ReplayOn(i) PROVE DifferentialInv'
  <2>1. PICK x \in Paths : VerdictsOf(x)
    BY <1>3 DEF ReplayOn, DifferentialInv
  <2>2. Input = x
    BY <2>1 DEF Input, VerdictsOf
  <2>3. PICK verdict \in {Behaves[i][corpus[x]], NoVerdict} :
          compare' = [compare EXCEPT !.got =
            [j \in {i} \cup DOMAIN compare.got |-> IF j = i THEN verdict ELSE compare.got[j]]]
    BY <1>3, <2>2 DEF ReplayOn
  <2>4. /\ compare.stage = "replay" /\ i \in compare.impls
        /\ UNCHANGED <<corpus, binaries, exemplars, edited>>
    BY <1>3 DEF ReplayOn
  <2>5. /\ DOMAIN compare' = CompareFields /\ compare'.stage = "replay"
        /\ compare'.todo = compare.todo /\ compare'.input = compare.input
        /\ compare'.scanned = compare.scanned
        /\ compare'.impls = compare.impls /\ compare'.agreed = compare.agreed
        /\ compare'.split = compare.split /\ compare'.failed = compare.failed
        /\ compare'.skipped = compare.skipped /\ compare'.listed = compare.listed
        /\ compare'.reported = compare.reported
        /\ compare'.got =
             [j \in {i} \cup DOMAIN compare.got |-> IF j = i THEN verdict ELSE compare.got[j]]
    BY <2>3, <2>4 DEF DifferentialInv, CompareFields
  <2>6. VerdictsOf(x)'
    BY <2>1, <2>3, <2>4, <2>5 DEF VerdictsOf
  <2>7. \A d \in compare.listed : Replayable(d)'
    BY <2>4, <2>5, ReplayableStays DEF DifferentialInv
  <2>8. CountsAddUp'
    BY <2>4, <2>5 DEF CountsAddUp, DifferentialInv
  <2> QED BY <2>4, <2>5, <2>6, <2>7, <2>8 DEF DifferentialInv
<1>4. CASE Agree
  <2> DEFINE got == compare.got
  <2>1. /\ compare' = [compare EXCEPT !.stage = "run", !.input = {}, !.failed = @ + Failed(got),
                         !.agreed = IF Cardinality(Classes(got)) = 1 THEN @ + 1 ELSE @]
        /\ compare.stage = "replay" /\ DOMAIN got = compare.impls /\ ~Diverges(got)
        /\ UNCHANGED <<corpus, binaries, exemplars, edited>>
    BY <1>4 DEF Agree, Compared
  <2>2. /\ DOMAIN compare' = CompareFields /\ compare'.stage = "run"
        /\ compare'.todo = compare.todo /\ compare'.input = {}
        /\ compare'.scanned = compare.scanned
        /\ compare'.impls = compare.impls
        /\ compare'.agreed = (IF Cardinality(Classes(got)) = 1 THEN compare.agreed + 1
                              ELSE compare.agreed)
        /\ compare'.split = compare.split /\ compare'.failed = compare.failed + Failed(got)
        /\ compare'.skipped = compare.skipped /\ compare'.listed = compare.listed
        /\ compare'.reported = compare.reported
    BY <2>1 DEF DifferentialInv, CompareFields
  <2>3. Failed(got) \in {0, 1}
    BY DEF Failed
  <2>4. Cardinality(Classes(got)) = 1 \/ Failed(got) = 1
    <3>1. CASE "none" \in Classes(got)
      BY <3>1 DEF Failed
    <3>2. CASE "none" \notin Classes(got)
      <4>1. ~(Cardinality(Classes(got)) > 1)
        BY <2>1, <3>2 DEF Diverges, Usable
      <4>2. IsFiniteSet(Classes(got))
        <5> DEFINE classes == [i \in DOMAIN got |-> got[i].class]
        <5>1. IsFiniteSet({classes[i] : i \in DOMAIN classes})
          BY <1>0, <2>1, ImageIsFinite
        <5>2. {classes[i] : i \in DOMAIN classes} = Classes(got)
          BY DEF Classes
        <5> QED BY <5>1, <5>2
      <4>3. Classes(got) # {}
        <5>1. compare.impls # {}
          BY <2>1 DEF DifferentialInv
        <5>2. PICK i \in DOMAIN got : TRUE
          BY <2>1, <5>1
        <5>3. got[i].class \in Classes(got)
          BY <5>2 DEF Classes
        <5> QED BY <5>3
      <4> QED BY <4>1, <4>2, <4>3, FewAreOne
    <3> QED BY <3>1, <3>2
  <2> HIDE DEF got
  <2>5. \A d \in compare.listed : Replayable(d)'
    BY <2>1, <2>2, ReplayableStays DEF DifferentialInv
  <2>6. /\ compare'.agreed \in Nat /\ compare'.failed \in Nat
        /\ compare'.agreed + compare'.failed >= compare.agreed + compare.failed + 1
    BY <2>2, <2>3, <2>4 DEF DifferentialInv
  <2>7. CountsAddUp'
    <3>1. compare.scanned <= compare.agreed + compare.split + compare.failed + 1
      BY <2>1 DEF CountsAddUp, DifferentialInv
    <3>2. compare'.scanned <= compare'.agreed + compare'.split + compare'.failed
      BY <2>2, <2>6, <3>1 DEF DifferentialInv
    <3> QED BY <2>1, <2>2, <3>2 DEF CountsAddUp, DifferentialInv
  <2> QED BY <2>1, <2>2, <2>5, <2>6, <2>7 DEF DifferentialInv
<1>5. CASE Split
  <2> DEFINE got == compare.got
  <2>1. /\ compare' = [compare EXCEPT !.stage = "exemplar", !.split = @ + 1,
                                      !.failed = @ + Failed(got)]
        /\ compare.stage = "replay" /\ DOMAIN got = compare.impls /\ Diverges(got)
        /\ UNCHANGED <<corpus, binaries, exemplars, edited>>
    BY <1>5 DEF Split, Compared
  <2>2. /\ DOMAIN compare' = CompareFields /\ compare'.stage = "exemplar"
        /\ compare'.todo = compare.todo /\ compare'.input = compare.input
        /\ compare'.scanned = compare.scanned /\ compare'.got = compare.got
        /\ compare'.impls = compare.impls /\ compare'.agreed = compare.agreed
        /\ compare'.split = compare.split + 1 /\ compare'.failed = compare.failed + Failed(got)
        /\ compare'.skipped = compare.skipped /\ compare'.listed = compare.listed
        /\ compare'.reported = compare.reported
    BY <2>1 DEF DifferentialInv, CompareFields
  <2>3. Failed(got) \in {0, 1}
    BY DEF Failed
  <2>4. PICK x \in Paths : VerdictsOf(x)
    BY <2>1 DEF DifferentialInv
  <2>5. VerdictsOf(x)'
    BY <2>1, <2>2, <2>4 DEF VerdictsOf
  <2>6. Diverges(compare'.got)
    BY <2>1, <2>2
  <2>7. \A d \in compare.listed : Replayable(d)'
    BY <2>1, <2>2, ReplayableStays DEF DifferentialInv
  <2> HIDE DEF got
  <2>8. CountsAddUp'
    BY <2>1, <2>2, <2>3, FS_CardinalityType DEF CountsAddUp, DifferentialInv
  <2>9. compare'.failed \in Nat /\ compare'.split \in Nat
    BY <2>2, <2>3 DEF DifferentialInv
  <2> QED BY <2>1, <2>2, <2>5, <2>6, <2>7, <2>8, <2>9 DEF DifferentialInv, got
<1>6. CASE KeepExemplar
  <2>1. PICK x \in Paths : VerdictsOf(x)
    BY <1>6 DEF KeepExemplar, DifferentialInv
  <2>2. Input = x
    BY <2>1 DEF Input, VerdictsOf
  <2>0. PICK one : one = [path |-> x, exemplar |-> corpus[x], verdicts |-> compare.got]
    OBVIOUS
  <2>3. /\ compare' = [compare EXCEPT !.stage = "run", !.input = {}, !.listed = @ \cup {one}]
        /\ exemplars' = exemplars \cup {corpus[x]} /\ compare.stage = "exemplar"
        /\ UNCHANGED <<corpus, binaries, edited>>
    BY <1>6, <2>0, <2>2 DEF KeepExemplar
  <2>4. /\ DOMAIN compare' = CompareFields /\ compare'.stage = "run"
        /\ compare'.todo = compare.todo /\ compare'.input = {}
        /\ compare'.scanned = compare.scanned
        /\ compare'.impls = compare.impls /\ compare'.agreed = compare.agreed
        /\ compare'.split = compare.split /\ compare'.failed = compare.failed
        /\ compare'.skipped = compare.skipped /\ compare'.listed = compare.listed \cup {one}
        /\ compare'.reported = compare.reported
    BY <2>3 DEF DifferentialInv, CompareFields
  <2>5. one \notin compare.listed
    BY <2>0, <2>1 DEF VerdictsOf
  <2>6. /\ IsFiniteSet(compare'.listed)
        /\ Cardinality(compare'.listed) = Cardinality(compare.listed) + 1
    <3>1. IsFiniteSet(compare.listed)
      BY DEF DifferentialInv
    <3> QED BY <2>4, <2>5, <3>1, FS_AddElement
  <2>7. Replayable(one)'
    <3>1. one.exemplar = corpus[x] /\ one.path = x /\ one.verdicts = compare.got
      BY <2>0
    <3>2. DOMAIN compare.got = compare.impls /\ Diverges(compare.got)
      BY <2>3 DEF DifferentialInv
    <3>3. \/ Cardinality({compare.got[i] : i \in compare.impls}) > 1
          \/ \E i \in compare.impls : compare.impls = {i} /\ compare.got[i].class = "crash"
      BY <1>0, <3>2, DivergentVerdicts
    <3>4. ASSUME x \notin edited.under, NEW i \in compare.impls
          PROVE  compare.got[i] = Behaves[i][corpus[x]]
      <4>1. compare.got[i].class # "none"
        BY <3>2 DEF Diverges, Usable, Classes
      <4>2. compare.got[i] # NoVerdict
        BY <4>1 DEF NoVerdict
      <4> QED BY <2>1, <3>2, <3>4, <4>2 DEF VerdictsOf
    <3>5. \/ Cardinality({one.verdicts[i] : i \in compare.impls}) > 1
          \/ \E i \in compare.impls : compare.impls = {i} /\ one.verdicts[i].class = "crash"
      BY <3>1, <3>3
    <3>6. /\ one.exemplar \in exemplars' /\ DOMAIN one.verdicts = compare'.impls
          /\ one.path \notin edited'.under =>
               \A i \in compare'.impls : one.verdicts[i] = Behaves[i][one.exemplar]
      BY <2>3, <2>4, <3>1, <3>2, <3>4
    <3> QED BY <2>4, <3>5, <3>6 DEF Replayable
  <2>8. \A d \in compare.listed : Replayable(d)'
    BY <2>3, <2>4, ReplayableStays DEF DifferentialInv
  <2>9. CountsAddUp'
    <3>1. Cardinality(compare.listed) \in Nat
      BY FS_CardinalityType DEF DifferentialInv
    <3>2. /\ compare.scanned <= compare.agreed + compare.split + compare.failed
          /\ compare.split = compare.skipped + Cardinality(compare.listed) + 1
      BY <2>3 DEF CountsAddUp, DifferentialInv
    <3>3. compare'.split = compare'.skipped + Cardinality(compare'.listed)
      BY <2>4, <2>6, <3>1, <3>2 DEF DifferentialInv
    <3> QED BY <2>4, <3>2, <3>3 DEF CountsAddUp
  <2>10. one.path \notin compare.todo
    BY <2>0, <2>1 DEF VerdictsOf
  <2> QED BY <2>3, <2>4, <2>6, <2>7, <2>8, <2>9, <2>10 DEF DifferentialInv
<1>7. CASE NoRoom
  <2>1. /\ compare' = [compare EXCEPT !.stage = "run", !.input = {}, !.skipped = @ + 1]
        /\ compare.stage = "exemplar"
        /\ UNCHANGED <<corpus, binaries, exemplars, edited>>
    BY <1>7 DEF NoRoom
  <2>2. /\ DOMAIN compare' = CompareFields /\ compare'.stage = "run"
        /\ compare'.todo = compare.todo /\ compare'.input = {}
        /\ compare'.scanned = compare.scanned
        /\ compare'.impls = compare.impls /\ compare'.agreed = compare.agreed
        /\ compare'.split = compare.split /\ compare'.failed = compare.failed
        /\ compare'.skipped = compare.skipped + 1 /\ compare'.listed = compare.listed
        /\ compare'.reported = compare.reported
    BY <2>1 DEF DifferentialInv, CompareFields
  <2>3. \A d \in compare.listed : Replayable(d)'
    BY <2>1, <2>2, ReplayableStays DEF DifferentialInv
  <2>4. CountsAddUp'
    BY <2>1, <2>2, FS_CardinalityType DEF CountsAddUp, DifferentialInv
  <2> QED BY <2>1, <2>2, <2>3, <2>4 DEF DifferentialInv
<1>8. CASE CompareBlocked
  <2>1. compare' = NoCompare /\ UNCHANGED <<corpus, binaries, exemplars, edited>>
    BY <1>8 DEF CompareBlocked
  <2>2. binaries' \subseteq Implementations
    BY <2>1 DEF DifferentialInv
  <2> QED BY <1>1, <2>1, <2>2
<1>9. CASE ReportSplits
  <2>1. PICK shown \in SUBSET compare.listed :
          /\ Cardinality(shown) = IF Cardinality(compare.listed) < TopCap
                                  THEN Cardinality(compare.listed) ELSE TopCap
          /\ compare' = [compare EXCEPT !.stage = "idle", !.reported = shown]
    BY <1>9 DEF ReportSplits
  <2>2. compare.stage = "run" /\ UNCHANGED <<corpus, binaries, exemplars, edited>>
    BY <1>9 DEF ReportSplits
  <2>3. /\ DOMAIN compare' = CompareFields /\ compare'.stage = "idle"
        /\ compare'.todo = compare.todo /\ compare'.input = compare.input
        /\ compare'.scanned = compare.scanned
        /\ compare'.impls = compare.impls /\ compare'.agreed = compare.agreed
        /\ compare'.split = compare.split /\ compare'.failed = compare.failed
        /\ compare'.skipped = compare.skipped /\ compare'.listed = compare.listed
        /\ compare'.reported = shown
    BY <2>1 DEF DifferentialInv, CompareFields
  <2>4. \A d \in compare.listed : Replayable(d)'
    BY <2>2, <2>3, ReplayableStays DEF DifferentialInv
  <2>5. CountsAddUp'
    BY <2>2, <2>3 DEF CountsAddUp, DifferentialInv
  <2>6. \/ Cardinality(shown) = Cardinality(compare.listed)
        \/ Cardinality(shown) = TopCap /\ Cardinality(compare.listed) > TopCap
    <3>1. Cardinality(compare.listed) \in Nat /\ TopCap \in Nat
      BY FS_CardinalityType, DifferentialAssumption DEF DifferentialInv
    <3> QED BY <2>1, <3>1
  <2> QED BY <2>2, <2>3, <2>4, <2>5, <2>6 DEF DifferentialInv
<1>10. ASSUME NEW x \in Paths, NEW content \in Contents \cup {Gone}, ChangeInput(x, content)
       PROVE  DifferentialInv'
  <2>1. /\ corpus' = [corpus EXCEPT ![x] = content]
        /\ edited'.under = (IF x \in compare.input THEN edited.under \cup {x} ELSE edited.under)
        /\ UNCHANGED <<binaries, exemplars, compare>>
    BY <1>10 DEF ChangeInput
  <2>2. corpus' = [y \in Paths |-> corpus'[y]] /\ \A y \in Paths : y # x => corpus'[y] = corpus[y]
    BY <2>1 DEF DifferentialInv
  <2>3. ASSUME NEW y \in Paths, VerdictsOf(y) PROVE VerdictsOf(y)'
    BY <2>1, <2>2, <2>3 DEF VerdictsOf
  <2>4. \A d \in compare.listed : Replayable(d)'
    BY <2>1, ReplayableStays DEF DifferentialInv
  <2>5. CountsAddUp'
    BY <2>1 DEF CountsAddUp, DifferentialInv
  <2> QED BY <2>1, <2>2, <2>3, <2>4, <2>5 DEF DifferentialInv
<1>11. CASE UNCHANGED differentialVars
  <2>1. UNCHANGED <<corpus, binaries, exemplars, compare, edited>>
    BY <1>11 DEF differentialVars
  <2> QED BY <2>1 DEF DifferentialInv, VerdictsOf, Replayable, CountsAddUp
<1> QED BY <1>2, <1>3, <1>4, <1>5, <1>6, <1>7, <1>8, <1>9, <1>10, <1>11, <1>12, <1>13
        DEF DifferentialNext

\* Every listed divergence can be replayed from its exemplar, with verdicts that
\* differ or the crash of the only implementation, unless its input was changed
\* under the comparison; and the counts of a report add up (differential.py).
THEOREM ListedReplay == DifferentialSpec => []DivergencesReplay
<1>1. DifferentialInit => DifferentialInv
  <2> SUFFICES ASSUME DifferentialInit PROVE DifferentialInv
    OBVIOUS
  <2>1. /\ DOMAIN compare = CompareFields
        /\ compare.stage = "idle" /\ compare.impls = {} /\ compare.todo = {}
        /\ compare.input = {} /\ compare.listed = {} /\ compare.reported = {}
        /\ compare.scanned = 0 /\ compare.agreed = 0 /\ compare.split = 0
        /\ compare.failed = 0 /\ compare.skipped = 0
    BY DEF DifferentialInit, NoCompare, CompareFields
  <2>2. IsFiniteSet({}) /\ Cardinality({}) = 0
    BY FS_EmptySet
  <2>3. CountsAddUp
    BY <2>1, <2>2 DEF CountsAddUp
  <2> QED BY <2>1, <2>2, <2>3 DEF DifferentialInit, DifferentialInv
<1>2. DifferentialInv => DivergencesReplay
  <2> SUFFICES ASSUME DifferentialInv PROVE DivergencesReplay
    OBVIOUS
  <2>1. \A d \in compare.listed : Replayable(d)
    BY DEF DifferentialInv
  <2>2. compare.stage = "idle" =>
          /\ compare.scanned <= compare.agreed + compare.split + compare.failed
          /\ compare.split = compare.skipped + Cardinality(compare.listed)
    BY DEF DifferentialInv, CountsAddUp
  <2>3. compare.stage = "idle" =>
          \/ compare.split = compare.skipped + Cardinality(compare.reported)
          \/ /\ Cardinality(compare.reported) = TopCap
             /\ compare.split > compare.skipped + TopCap
    <3>1. Cardinality(compare.listed) \in Nat /\ TopCap \in Nat /\ compare.skipped \in Nat
      BY FS_CardinalityType, DifferentialAssumption DEF DifferentialInv
    <3> QED BY <2>2, <3>1 DEF DifferentialInv
  <2>4. compare.reported \subseteq compare.listed
    BY DEF DifferentialInv
  <2> QED BY <2>1, <2>2, <2>3, <2>4 DEF DivergencesReplay, Replayable
<1> QED BY <1>1, <1>2, DifferentialInvStep, PTL DEF DifferentialSpec

-----------------------------------------------------------------------------
(* Sweeps of a corpus *)

SweepFields ==
  {"stage", "inputs", "rep", "base", "seen", "todo", "groups", "files", "skipped", "shown"}

SweptInputs == UNION {{inputs[i] : i \in DOMAIN inputs} : inputs \in Corpora}

Once(seq) == \A i, j \in 1..Len(seq) : seq[i] = seq[j] => i = j
Within(seq, e) == \E i \in 1..Len(seq) : seq[i] = e

ShownIn(shown, s) == {x[1] : x \in {y \in shown : y[2] = s}}

\* The inputs counted for a signature, the one at hand too when its turn has not
\* come yet.
CountedFor(r, s) ==
  (IF s \in DOMAIN r.groups THEN r.groups[s].n ELSE 0) + (IF Within(r.todo, s) THEN 1 ELSE 0)

SweepTyped(r) ==
  /\ DOMAIN r = SweepFields
  /\ r.inputs \in Seq(SweptInputs) /\ Once(r.inputs)
  /\ r.todo \in Seq(Signatures) /\ Once(r.todo)
  /\ r.skipped \in Nat
  /\ DOMAIN r.groups \subseteq Signatures
  /\ \A s \in DOMAIN r.groups : DOMAIN r.groups[s] = {"exemplar", "n"} /\ r.groups[s].n \in Nat
  /\ IsFiniteSet(r.shown) /\ r.shown \subseteq SweptInputs \X Signatures

\* Of a call: what it knows of the input at hand, and of those to come.
AtHand(r) ==
  /\ r.todo # <<>> => r.inputs # <<>>
  /\ \A s \in Signatures : Within(r.todo, s) => s \in r.seen
  /\ r.inputs # <<>> => r.seen = {s \in Signatures : <<r.inputs[1], s>> \in r.shown}
  /\ \A i \in 2..Len(r.inputs), s \in Signatures : <<r.inputs[i], s>> \notin r.shown

\* And of its groups, with the exemplars that are on disk.
Groups(r, onDisk) ==
  /\ \A x \in r.shown : x[2] \notin r.base
  /\ \A s \in DOMAIN r.groups :
       /\ s \notin r.base
       /\ r.groups[s].exemplar \in onDisk /\ <<r.groups[s].exemplar, s>> \in r.shown
  /\ r.stage = "link" => r.todo # <<>> /\ r.todo[1] \notin DOMAIN r.groups
  /\ \A s \in Signatures :
       /\ CountedFor(r, s) <= Cardinality(ShownIn(r.shown, s))
       /\ r.skipped = 0 => CountedFor(r, s) = Cardinality(ShownIn(r.shown, s))
  /\ r.stage = "reported" => r.todo = <<>>

Swept(r, onDisk) == SweepTyped(r) /\ AtHand(r) /\ Groups(r, onDisk)

SweepInv ==
  /\ sweep = [p \in Sweeps |-> sweep[p]]
  /\ \A p \in Sweeps : Swept(sweep[p], hits)

LEMMA ShownInFinite ==
  ASSUME NEW shown, IsFiniteSet(shown), NEW s
  PROVE  IsFiniteSet(ShownIn(shown, s)) /\ Cardinality(ShownIn(shown, s)) \in Nat
<1> DEFINE these == {y \in shown : y[2] = s}
           f == [x \in these |-> x[1]]
<1>1. IsFiniteSet(these)
  BY FS_Subset
<1>2. f \in Surjection(these, ShownIn(shown, s))
  BY DEF Surjection, ShownIn
<1> HIDE DEF f, these
<1>3. IsFiniteSet(ShownIn(shown, s))
  BY <1>1, <1>2, FS_Surjection
<1> QED BY <1>3, FS_CardinalityType

\* One input more shows some signatures.
AlsoShown(shown, x, sigs) == shown \cup ({x} \X sigs)

LEMMA ShownMore ==
  ASSUME NEW shown, IsFiniteSet(shown), NEW x, NEW sigs, IsFiniteSet(sigs),
         NEW all, all = AlsoShown(shown, x, sigs), NEW s
  PROVE  /\ IsFiniteSet(all)
         /\ s \in sigs => ShownIn(all, s) = ShownIn(shown, s) \cup {x}
         /\ s \notin sigs => ShownIn(all, s) = ShownIn(shown, s)
<1> DEFINE f == [q \in sigs |-> <<x, q>>]
           more == {x} \X sigs
<1>1. f \in Surjection(sigs, more)
  <2>1. f \in [sigs -> more]
    OBVIOUS
  <2>2. ASSUME NEW y \in more PROVE \E q \in sigs : f[q] = y
    <3>1. y[2] \in sigs /\ y = <<x, y[2]>>
      BY <2>2
    <3> QED BY <3>1
  <2> QED BY <2>1, <2>2 DEF Surjection
<1>2. IsFiniteSet(more)
  BY <1>1, FS_Surjection
<1>3. IsFiniteSet(shown \cup more)
  BY <1>2, FS_Union
<1>4. ASSUME NEW e \in ShownIn(shown \cup more, s)
      PROVE  e \in ShownIn(shown, s) \/ (s \in sigs /\ e = x)
  <2>1. PICK y \in shown \cup more : y[2] = s /\ e = y[1]
    BY <1>4 DEF ShownIn
  <2> QED BY <2>1 DEF ShownIn
<1>5. \A e \in ShownIn(shown, s) : e \in ShownIn(shown \cup more, s)
  BY DEF ShownIn
<1>6. ASSUME s \in sigs PROVE x \in ShownIn(shown \cup more, s)
  <2>1. <<x, s>> \in more /\ <<x, s>>[1] = x /\ <<x, s>>[2] = s
    BY <1>6
  <2> QED BY <2>1 DEF ShownIn
<1>7. IsFiniteSet(shown \cup more) /\ all = shown \cup more
  BY <1>3 DEF AlsoShown
<1> HIDE DEF more
<1> QED BY <1>7, <1>4, <1>5, <1>6

LEMMA OnceTail ==
  ASSUME NEW S, NEW seq \in Seq(S), Once(seq), seq # <<>>
  PROVE  /\ seq[1] \in S /\ Head(seq) = seq[1] /\ Tail(seq) \in Seq(S) /\ Once(Tail(seq))
         /\ Len(Tail(seq)) = Len(seq) - 1
         /\ \A i \in 1..(Len(seq) - 1) : Tail(seq)[i] = seq[i + 1]
         /\ Within(seq, seq[1])
         /\ \A e : Within(Tail(seq), e) <=> Within(seq, e) /\ e # seq[1]
<1>1. Len(seq) \in Nat \ {0} /\ seq[1] \in S /\ Head(seq) = seq[1] /\ Tail(seq) \in Seq(S)
      /\ Len(Tail(seq)) = Len(seq) - 1
      /\ \A i \in 1..(Len(seq) - 1) : Tail(seq)[i] = seq[i + 1]
  OBVIOUS
<1>2. Once(Tail(seq))
  <2> SUFFICES ASSUME NEW i \in 1..(Len(seq) - 1), NEW j \in 1..(Len(seq) - 1),
                      Tail(seq)[i] = Tail(seq)[j]
               PROVE  i = j
    BY <1>1 DEF Once
  <2>1. seq[i + 1] = seq[j + 1] /\ i + 1 \in 1..Len(seq) /\ j + 1 \in 1..Len(seq)
    BY <1>1
  <2>2. i + 1 = j + 1
    BY <2>1 DEF Once
  <2> QED BY <2>2
<1>3. Within(seq, seq[1])
  BY <1>1 DEF Within
<1>4. ASSUME NEW e, Within(Tail(seq), e) PROVE Within(seq, e) /\ e # seq[1]
  <2>1. PICK i \in 1..(Len(seq) - 1) : seq[i + 1] = e
    BY <1>1, <1>4 DEF Within
  <2>2. i + 1 \in 1..Len(seq) /\ 1 \in 1..Len(seq) /\ i + 1 # 1
    BY <1>1
  <2> QED BY <2>1, <2>2 DEF Within, Once
<1>5. ASSUME NEW e, Within(seq, e), e # seq[1] PROVE Within(Tail(seq), e)
  <2>1. PICK i \in 1..Len(seq) : seq[i] = e
    BY <1>5 DEF Within
  <2>2. i - 1 \in 1..(Len(seq) - 1) /\ Tail(seq)[i - 1] = seq[(i - 1) + 1]
    BY <1>1, <1>5, <2>1
  <2>3. (i - 1) + 1 = i
    OBVIOUS
  <2> QED BY <1>1, <2>1, <2>2, <2>3 DEF Within
<1> QED BY <1>1, <1>2, <1>3, <1>4, <1>5

\* Exemplars of other calls come in addition.
LEMMA SweptStays ==
  ASSUME NEW r, NEW old, NEW new, Swept(r, old), old \subseteq new
  PROVE  Swept(r, new)
BY DEF Swept, Groups

LEMMA SweepGoesOn ==
  ASSUME SweepInv, NEW p \in Sweeps, NEW r, Sets(p, r), hits \subseteq hits', Swept(r, hits')
  PROVE  SweepInv'
<1>1. /\ sweep' = [q \in Sweeps |-> sweep'[q]] /\ sweep'[p] = r
      /\ \A q \in Sweeps : q # p => sweep'[q] = sweep[q]
  BY DEF SweepInv, Sets
<1>2. ASSUME NEW q \in Sweeps PROVE Swept(sweep'[q], hits')
  <2>1. CASE q = p
    BY <1>1, <2>1
  <2>2. CASE q # p
    <3>1. Swept(sweep[q], hits)
      BY DEF SweepInv
    <3>2. Swept(sweep[q], hits')
      BY <3>1, SweptStays
    <3> QED BY <1>1, <2>2, <3>2
  <2> QED BY <2>1, <2>2
<1> QED BY <1>1, <1>2 DEF SweepInv

LEMMA NothingWithin == Once(<<>>) /\ \A e : ~Within(<<>>, e)
BY DEF Once, Within

\* A call that has not begun.
LEMMA NoSweepSwept == \A onDisk : Swept(NoSweep, onDisk)
<1>1. /\ DOMAIN NoSweep = SweepFields /\ NoSweep.inputs = <<>> /\ NoSweep.todo = <<>>
      /\ NoSweep.skipped = 0 /\ NoSweep.groups = <<>> /\ NoSweep.shown = {}
      /\ NoSweep.stage = "idle"
  BY DEF NoSweep, SweepFields
<1> DEFINE r == NoSweep
<1> HIDE DEF r
<1>2. IsFiniteSet({}) /\ Cardinality({}) = 0
  BY FS_EmptySet
<1>3. SweepTyped(r)
  BY <1>1, <1>2, NothingWithin DEF SweepTyped, r
<1>4. AtHand(r)
  BY <1>1, NothingWithin DEF AtHand, r
<1>5. \A s : ShownIn(r.shown, s) = {} /\ CountedFor(r, s) = 0
  BY <1>1, NothingWithin DEF ShownIn, CountedFor, r
<1>6. ASSUME NEW onDisk PROVE Groups(r, onDisk)
  <2>1. DOMAIN r.groups = {} /\ r.shown = {} /\ r.todo = <<>> /\ r.stage = "idle"
    BY <1>1 DEF r
  <2>2. \A s : Cardinality(ShownIn(r.shown, s)) = 0
    BY <1>2, <1>5
  <2>3. r.stage # "link" /\ r.stage # "reported"
    BY <2>1
  <2> QED BY <1>5, <2>1, <2>2, <2>3 DEF Groups
<1> QED BY <1>3, <1>4, <1>6 DEF Swept, r

LEMMA BaselineSwept ==
  ASSUME NEW base, NEW inputs \in Corpora, NEW onDisk
  PROVE  Swept([NoSweep EXCEPT !.stage = "run", !.base = base, !.inputs = inputs], onDisk)
<1>1. PICK r : r = [NoSweep EXCEPT !.stage = "run", !.base = base, !.inputs = inputs]
  OBVIOUS
<1>2. /\ DOMAIN r = SweepFields /\ r.inputs = inputs /\ r.todo = <<>> /\ r.seen = {}
      /\ r.skipped = 0 /\ r.groups = <<>> /\ r.shown = {} /\ r.stage = "run"
  BY <1>1 DEF NoSweep, SweepFields
<1>3. inputs \in Seq(SweptInputs) /\ Once(inputs)
  <2>1. inputs \in Seq({inputs[i] : i \in DOMAIN inputs})
        /\ \A i, j \in DOMAIN inputs : inputs[i] = inputs[j] => i = j
    BY SweepAssumption
  <2>2. {inputs[i] : i \in DOMAIN inputs} \subseteq SweptInputs
    BY DEF SweptInputs
  <2>3. DOMAIN inputs = 1..Len(inputs) /\ Len(inputs) \in Nat
    BY <2>1
  <2>4. \A i \in 1..Len(inputs) : inputs[i] \in SweptInputs
    BY <2>2, <2>3
  <2>5. inputs = [i \in 1..Len(inputs) |-> inputs[i]]
    BY <2>1
  <2> QED BY <2>1, <2>3, <2>4, <2>5 DEF Once
<1>4. IsFiniteSet({}) /\ Cardinality({}) = 0
  BY FS_EmptySet
<1>5. SweepTyped(r)
  BY <1>2, <1>3, <1>4, NothingWithin DEF SweepTyped
<1>6. AtHand(r)
  BY <1>2, NothingWithin DEF AtHand
<1>7. \A s : ShownIn(r.shown, s) = {} /\ CountedFor(r, s) = 0
  BY <1>2, NothingWithin DEF ShownIn, CountedFor
<1>8. Groups(r, onDisk)
  <2>1. DOMAIN r.groups = {} /\ r.stage # "link" /\ r.stage # "reported"
    BY <1>2
  <2>2. \A s : Cardinality(ShownIn(r.shown, s)) = 0
    BY <1>4, <1>7
  <2> QED BY <1>2, <1>7, <2>1, <2>2 DEF Groups
<1> QED BY <1>1, <1>5, <1>6, <1>8 DEF Swept

\* The call before a replay and after.
OneReplay(r, sigs, new, order, q) ==
  /\ r.stage = "run" /\ r.inputs # <<>> /\ r.todo = <<>>
  /\ new = (sigs \ r.base) \ r.seen
  /\ order \in [1..Cardinality(new) -> new]
  /\ \A s \in new : \E i \in DOMAIN order : order[i] = s
  /\ DOMAIN q = SweepFields /\ q.inputs = r.inputs /\ q.todo = order
  /\ q.seen = r.seen \cup new /\ q.skipped = r.skipped /\ q.groups = r.groups
  /\ q.shown = r.shown \cup ({r.inputs[1]} \X (sigs \ r.base))
  /\ q.stage = "run" /\ q.base = r.base

\* One replay: signatures that are new count, whatever it shows besides.
LEMMA ReplaySwept ==
  ASSUME NEW r, NEW onDisk, Swept(r, onDisk), NEW sigs \in SUBSET Signatures,
         NEW new, NEW order, NEW q, OneReplay(r, sigs, new, order, q)
  PROVE  Swept(q, onDisk)
<1> DEFINE x == r.inputs[1]
           shows == sigs \ r.base
           all == r.shown \cup ({x} \X shows)
<1>2. SweepTyped(r) /\ AtHand(r) /\ Groups(r, onDisk)
  BY DEF Swept
<1>1. /\ new = shows \ r.seen /\ order \in [1..Cardinality(new) -> new]
      /\ \A s \in new : \E i \in DOMAIN order : order[i] = s
      /\ r.inputs # <<>> /\ r.todo = <<>>
  BY DEF OneReplay
<1>3. /\ DOMAIN q = SweepFields /\ q.inputs = r.inputs /\ q.todo = order
      /\ q.seen = r.seen \cup new /\ q.skipped = r.skipped /\ q.groups = r.groups
      /\ q.shown = all /\ q.stage = "run" /\ q.base = r.base
  BY DEF OneReplay
<1>4. IsFiniteSet(shows) /\ IsFiniteSet(new) /\ Cardinality(new) \in Nat
  BY <1>1, SweepAssumption, FS_Subset, FS_CardinalityType
<1>5. /\ order \in Seq(Signatures) /\ Len(order) = Cardinality(new)
      /\ DOMAIN order = 1..Cardinality(new)
  <2>1. order \in [1..Cardinality(new) -> Signatures]
    <3>1. new \subseteq Signatures
      BY <1>1
    <3>2. \A i \in 1..Cardinality(new) : order[i] \in Signatures
      BY <1>1, <3>1
    <3> QED BY <1>1, <3>2
  <2>2. order \in Seq(Signatures)
    <3>1. PICK n \in Nat : n = Cardinality(new)
      BY <1>4
    <3>2. order \in [1..n -> Signatures]
      BY <2>1, <3>1
    <3> QED BY <3>2
  <2>3. DOMAIN order = 1..Cardinality(new)
    BY <1>1
  <2>4. Len(order) = Cardinality(new)
    BY <1>4, <2>2, <2>3
  <2> QED BY <2>2, <2>3, <2>4
<1>6. Once(order)
  <2>1. order \in Surjection(1..Cardinality(new), new)
    BY <1>1, <1>5 DEF Surjection
  <2>2. IsFiniteSet(1..Cardinality(new)) /\ Cardinality(1..Cardinality(new)) = Cardinality(new)
    BY <1>4, FS_Interval
  <2>3. order \in Injection(1..Cardinality(new), new)
    BY <2>1, <2>2, FS_SurjSameCardinalityImpliesInj
  <2> QED BY <1>5, <2>3 DEF Once, Injection, IsInjective
<1>7. \A s : Within(order, s) <=> s \in new
  <2>1. \A i \in 1..Len(order) : order[i] \in new
    BY <1>1, <1>5
  <2>2. \A s \in new : \E i \in 1..Len(order) : order[i] = s
    BY <1>1, <1>5
  <2> QED BY <2>1, <2>2 DEF Within
<1>8. x \in SweptInputs
  BY <1>1, <1>2 DEF SweepTyped
<1>9. /\ IsFiniteSet(all)
      /\ \A s : /\ s \in shows => ShownIn(all, s) = ShownIn(r.shown, s) \cup {x}
                /\ s \notin shows => ShownIn(all, s) = ShownIn(r.shown, s)
  <2>1. IsFiniteSet(r.shown)
    BY <1>2 DEF SweepTyped
  <2>2. PICK more, first, those : more = all /\ first = x /\ those = shows
    OBVIOUS
  <2>3. more = AlsoShown(r.shown, first, those) /\ IsFiniteSet(those)
    BY <1>4, <2>2 DEF AlsoShown
  <2>4. ASSUME NEW s
        PROVE  /\ IsFiniteSet(more)
               /\ s \in those => ShownIn(more, s) = ShownIn(r.shown, s) \cup {first}
               /\ s \notin those => ShownIn(more, s) = ShownIn(r.shown, s)
    BY <2>1, <2>3, ShownMore
  <2> HIDE DEF all, shows, x
  <2> QED BY <2>2, <2>4
<1>10. all \subseteq SweptInputs \X Signatures
  BY <1>2, <1>8 DEF SweepTyped
<1>11. SweepTyped(q)
  BY <1>2, <1>3, <1>5, <1>6, <1>9, <1>10 DEF SweepTyped
<1>12. AtHand(q)
  <2>1. r.seen = {s \in Signatures : <<x, s>> \in r.shown}
    BY <1>1, <1>2 DEF AtHand
  <2>2. \A s \in Signatures : <<x, s>> \in all <=> <<x, s>> \in r.shown \/ s \in shows
    OBVIOUS
  <2>3. \A s \in r.base : <<x, s>> \notin r.shown
    BY <1>2 DEF Groups
  <2>4. r.seen \cup new = {s \in Signatures : <<x, s>> \in all}
    <3>1. ASSUME NEW s \in r.seen \cup new PROVE s \in Signatures /\ <<x, s>> \in all
      BY <1>1, <2>1, <2>2, <3>1
    <3>2. ASSUME NEW s \in Signatures, <<x, s>> \in all PROVE s \in r.seen \cup new
      BY <1>1, <2>1, <2>2, <3>2
    <3> QED BY <3>1, <3>2
  <2>5. ASSUME NEW i \in 2..Len(r.inputs), NEW s \in Signatures PROVE <<r.inputs[i], s>> \notin all
    <3>1. r.inputs[i] # x
      BY <1>1, <1>2 DEF SweepTyped, Once
    <3>2. <<r.inputs[i], s>> \notin r.shown
      BY <1>2 DEF AtHand
    <3> QED BY <3>1, <3>2
  <2> HIDE DEF x, all
  <2> QED BY <1>1, <1>3, <1>7, <2>4, <2>5 DEF AtHand, x
<1>13. Groups(q, onDisk)
  <2>1. \A y \in all : y[2] \notin r.base
    BY <1>2 DEF Groups
  <2>2. ASSUME NEW s \in Signatures
        PROVE  /\ CountedFor(q, s) <= Cardinality(ShownIn(all, s))
               /\ q.skipped = 0 => CountedFor(q, s) = Cardinality(ShownIn(all, s))
    <3>1. IsFiniteSet(ShownIn(r.shown, s)) /\ Cardinality(ShownIn(r.shown, s)) \in Nat
      BY <1>2, ShownInFinite DEF SweepTyped
    <3>2. CountedFor(r, s) \in Nat
      BY <1>2 DEF SweepTyped, CountedFor
    <3>3. ~Within(r.todo, s)
      BY <1>1, NothingWithin
    <3>4. /\ CountedFor(r, s) <= Cardinality(ShownIn(r.shown, s))
          /\ r.skipped = 0 => CountedFor(r, s) = Cardinality(ShownIn(r.shown, s))
      BY <1>2 DEF Groups
    <3>5. x \in ShownIn(r.shown, s) <=> s \in r.seen
      <4>1. s \in r.seen <=> <<x, s>> \in r.shown
        BY <1>1, <1>2 DEF AtHand
      <4>2. ASSUME <<x, s>> \in r.shown PROVE x \in ShownIn(r.shown, s)
        <5>1. <<x, s>>[1] = x /\ <<x, s>>[2] = s
          OBVIOUS
        <5> QED BY <4>2, <5>1 DEF ShownIn
      <4>3. ASSUME x \in ShownIn(r.shown, s) PROVE <<x, s>> \in r.shown
        <5>1. PICK y \in r.shown : y[2] = s /\ y[1] = x
          BY <4>3 DEF ShownIn
        <5>2. y = <<y[1], y[2]>>
          BY <1>2, <5>1 DEF SweepTyped
        <5> QED BY <5>1, <5>2
      <4> QED BY <4>1, <4>2, <4>3
    <3>6. CASE s \in new
      <4>1. CountedFor(q, s) = CountedFor(r, s) + 1
        BY <1>2, <1>3, <1>7, <3>3, <3>6 DEF CountedFor, SweepTyped
      <4>2. Cardinality(ShownIn(all, s)) = Cardinality(ShownIn(r.shown, s)) + 1
        <5>1. x \notin ShownIn(r.shown, s) /\ s \in shows
          BY <1>1, <3>5, <3>6
        <5>2. ShownIn(all, s) = ShownIn(r.shown, s) \cup {x}
          BY <1>9, <5>1
        <5> HIDE DEF x, all
        <5> QED BY <3>1, <5>1, <5>2, FS_AddElement
      <4> QED BY <1>3, <3>1, <3>2, <3>4, <4>1, <4>2
    <3>7. CASE s \notin new
      <4>1. CountedFor(q, s) = CountedFor(r, s)
        BY <1>3, <1>7, <3>3, <3>7 DEF CountedFor
      <4>2. ShownIn(all, s) = ShownIn(r.shown, s)
        <5>1. s \in shows => x \in ShownIn(r.shown, s)
          BY <1>1, <3>5, <3>7
        <5>2. CASE s \in shows
          <6>1. ShownIn(all, s) = ShownIn(r.shown, s) \cup {x}
            BY <1>9, <5>2
          <6>2. x \in ShownIn(r.shown, s)
            BY <5>1, <5>2
          <6> HIDE DEF x, all
          <6> QED BY <6>1, <6>2
        <5>3. CASE s \notin shows
          BY <1>9, <5>3
        <5> QED BY <5>2, <5>3
      <4> QED BY <1>3, <3>4, <4>1, <4>2
    <3> QED BY <3>6, <3>7
  <2>3. \A s \in DOMAIN r.groups :
          s \notin r.base /\ r.groups[s].exemplar \in onDisk /\ <<r.groups[s].exemplar, s>> \in all
    BY <1>2 DEF Groups
  <2> HIDE DEF all
  <2> QED BY <1>3, <2>1, <2>2, <2>3 DEF Groups
<1> QED BY <1>11, <1>12, <1>13 DEF Swept

LEMMA LeaveSwept ==
  ASSUME NEW r, NEW onDisk, Swept(r, onDisk), r.inputs # <<>>, r.todo = <<>>
  PROVE  Swept([r EXCEPT !.inputs = Tail(@), !.rep = 0, !.seen = {}], onDisk)
<1>1. PICK q : q = [r EXCEPT !.inputs = Tail(@), !.rep = 0, !.seen = {}]
  OBVIOUS
<1>2. SweepTyped(r) /\ AtHand(r) /\ Groups(r, onDisk)
  BY DEF Swept
<1>3. /\ DOMAIN q = SweepFields /\ q.inputs = Tail(r.inputs) /\ q.todo = <<>>
      /\ q.seen = {} /\ q.skipped = r.skipped /\ q.groups = r.groups
      /\ q.shown = r.shown /\ q.stage = r.stage /\ q.base = r.base
  BY <1>1, <1>2 DEF SweepTyped, SweepFields
<1>4. /\ Tail(r.inputs) \in Seq(SweptInputs) /\ Once(Tail(r.inputs))
      /\ Len(Tail(r.inputs)) = Len(r.inputs) - 1 /\ Len(r.inputs) \in Nat
      /\ \A i \in 1..(Len(r.inputs) - 1) : Tail(r.inputs)[i] = r.inputs[i + 1]
  BY <1>2, OnceTail DEF SweepTyped
<1>5. SweepTyped(q)
  BY <1>2, <1>3, <1>4 DEF SweepTyped
<1>6. AtHand(q)
  <2>1. \A i \in 1..Len(q.inputs), s \in Signatures : <<q.inputs[i], s>> \notin q.shown
    <3> TAKE i \in 1..Len(q.inputs), s \in Signatures
    <3>1. i + 1 \in 2..Len(r.inputs) /\ q.inputs[i] = r.inputs[i + 1]
      BY <1>3, <1>4
    <3> QED BY <1>2, <1>3, <3>1 DEF AtHand
  <2>2. q.inputs # <<>> => 1 \in 1..Len(q.inputs)
    <3>1. PICK rest \in Seq(SweptInputs) : rest = q.inputs
      BY <1>3, <1>4
    <3>2. rest # <<>> => 1 \in 1..Len(rest)
      OBVIOUS
    <3> QED BY <3>1, <3>2
  <2>3. q.inputs # <<>> => q.seen = {s \in Signatures : <<q.inputs[1], s>> \in q.shown}
    BY <1>3, <2>1, <2>2
  <2>4. \A i \in 2..Len(q.inputs), s \in Signatures : <<q.inputs[i], s>> \notin q.shown
    BY <1>3, <1>4, <2>1
  <2>5. q.todo = <<>> /\ \A s : ~Within(q.todo, s)
    BY <1>3, NothingWithin
  <2> QED BY <2>3, <2>4, <2>5 DEF AtHand
<1>7. Groups(q, onDisk)
  BY <1>2, <1>3 DEF Groups, CountedFor
<1> QED BY <1>1, <1>5, <1>6, <1>7 DEF Swept

\* The signature whose turn it is leaves the list.
LEMMA NextSignature ==
  ASSUME NEW r, NEW onDisk, Swept(r, onDisk), r.todo # <<>>
  PROVE  /\ Head(r.todo) = r.todo[1] /\ r.todo[1] \in Signatures /\ r.todo[1] \notin r.base
         /\ <<r.inputs[1], r.todo[1]>> \in r.shown /\ Within(r.todo, r.todo[1])
         /\ Tail(r.todo) \in Seq(Signatures) /\ Once(Tail(r.todo))
         /\ \A s : Within(Tail(r.todo), s) <=> Within(r.todo, s) /\ s # r.todo[1]
<1>1. SweepTyped(r) /\ AtHand(r) /\ Groups(r, onDisk)
  BY DEF Swept
<1>2. /\ Head(r.todo) = r.todo[1] /\ r.todo[1] \in Signatures /\ Within(r.todo, r.todo[1])
      /\ Tail(r.todo) \in Seq(Signatures) /\ Once(Tail(r.todo))
      /\ \A s : Within(Tail(r.todo), s) <=> Within(r.todo, s) /\ s # r.todo[1]
  BY <1>1, OnceTail DEF SweepTyped
<1>3. <<r.inputs[1], r.todo[1]>> \in r.shown
  BY <1>1, <1>2 DEF AtHand
<1>4. <<r.inputs[1], r.todo[1]>>[2] = r.todo[1]
  OBVIOUS
<1> QED BY <1>1, <1>2, <1>3, <1>4 DEF Groups

\* The signature gets a group, or one more input in the group it has, or none.
LEMMA TurnSwept ==
  ASSUME NEW r, NEW onDisk, Swept(r, onDisk), r.todo # <<>>, r.stage # "reported", NEW q,
         DOMAIN q = SweepFields, q.inputs = r.inputs, q.todo = Tail(r.todo), q.seen = r.seen,
         q.shown = r.shown, q.base = r.base, q.stage = "run", q.skipped \in Nat,
         q.skipped = 0 => r.skipped = 0,
         \/ /\ DOMAIN q.groups = DOMAIN r.groups \cup {r.todo[1]}
            /\ \A s \in DOMAIN r.groups \ {r.todo[1]} : q.groups[s] = r.groups[s]
            /\ DOMAIN q.groups[r.todo[1]] = {"exemplar", "n"}
            /\ q.groups[r.todo[1]].n =
                 (IF r.todo[1] \in DOMAIN r.groups THEN r.groups[r.todo[1]].n ELSE 0) + 1
            /\ \/ r.todo[1] \in DOMAIN r.groups
                  /\ q.groups[r.todo[1]].exemplar = r.groups[r.todo[1]].exemplar
               \/ q.groups[r.todo[1]].exemplar = r.inputs[1] /\ r.inputs[1] \in onDisk
         \/ q.groups = r.groups /\ q.skipped # 0
  PROVE  Swept(q, onDisk)
<1> DEFINE sig == r.todo[1]
<1>1. SweepTyped(r) /\ AtHand(r) /\ Groups(r, onDisk)
  BY DEF Swept
<1>2. /\ sig \in Signatures /\ sig \notin r.base
      /\ <<r.inputs[1], sig>> \in r.shown /\ Within(r.todo, sig)
      /\ Tail(r.todo) \in Seq(Signatures) /\ Once(Tail(r.todo))
      /\ \A s : Within(Tail(r.todo), s) <=> Within(r.todo, s) /\ s # sig
  BY NextSignature
<1> HIDE DEF sig
<1>3. SweepTyped(q)
  BY <1>1, <1>2 DEF SweepTyped, sig
<1>4. AtHand(q)
  BY <1>1, <1>2 DEF AtHand
<1>5. \A s \in DOMAIN q.groups :
        /\ s \notin q.base /\ q.groups[s].exemplar \in onDisk
        /\ <<q.groups[s].exemplar, s>> \in q.shown
  BY <1>1, <1>2 DEF Groups, sig
<1>6. ASSUME NEW s \in Signatures
      PROVE  /\ CountedFor(q, s) <= Cardinality(ShownIn(q.shown, s))
             /\ q.skipped = 0 => CountedFor(q, s) = Cardinality(ShownIn(q.shown, s))
  <2>1. /\ CountedFor(r, s) <= Cardinality(ShownIn(r.shown, s))
        /\ r.skipped = 0 => CountedFor(r, s) = Cardinality(ShownIn(r.shown, s))
    BY <1>1 DEF Groups
  <2>2. CountedFor(r, s) \in Nat /\ Cardinality(ShownIn(r.shown, s)) \in Nat
    BY <1>1, ShownInFinite DEF SweepTyped, CountedFor
  <2>3. CASE s # sig
    <3>1. CountedFor(q, s) = CountedFor(r, s)
      BY <1>2, <2>3 DEF CountedFor, sig
    <3> QED BY <2>1, <3>1
  <2>4. CASE s = sig
    <3>1. Within(r.todo, s) /\ ~Within(q.todo, s)
      BY <1>2, <2>4
    <3>2. CASE /\ s \in DOMAIN q.groups
               /\ q.groups[s].n = (IF s \in DOMAIN r.groups THEN r.groups[s].n ELSE 0) + 1
      <4>1. CountedFor(q, s) = CountedFor(r, s)
        <5>1. (IF s \in DOMAIN r.groups THEN r.groups[s].n ELSE 0) \in Nat
          BY <1>1 DEF SweepTyped
        <5> QED BY <3>1, <3>2, <5>1 DEF CountedFor
      <4> QED BY <2>1, <4>1
    <3>3. CASE q.groups = r.groups /\ q.skipped # 0
      <4>1. CountedFor(r, s) = CountedFor(q, s) + 1 /\ CountedFor(q, s) \in Nat
        BY <1>1, <3>1, <3>3 DEF CountedFor, SweepTyped
      <4> QED BY <2>1, <2>2, <3>3, <4>1
    <3> QED BY <2>4, <3>2, <3>3 DEF sig
  <2> QED BY <2>3, <2>4
<1>7. Groups(q, onDisk)
  BY <1>1, <1>5, <1>6 DEF Groups
<1> QED BY <1>3, <1>4, <1>7 DEF Swept

\* Only the stage changes, or what is known of the directory.
LEMMA StageSwept ==
  ASSUME NEW r, NEW onDisk, Swept(r, onDisk), NEW q,
         DOMAIN q = SweepFields, q.inputs = r.inputs, q.todo = r.todo, q.seen = r.seen,
         q.shown = r.shown, q.base = r.base, q.skipped = r.skipped, q.groups = r.groups,
         q.stage = "link" => r.todo # <<>> /\ r.todo[1] \notin DOMAIN r.groups,
         q.stage = "reported" => r.todo = <<>>
  PROVE  Swept(q, onDisk)
<1>1. SweepTyped(r) /\ AtHand(r) /\ Groups(r, onDisk)
  BY DEF Swept
<1>2. SweepTyped(q) /\ AtHand(q)
  BY <1>1 DEF SweepTyped, AtHand
<1>3. \A s : CountedFor(q, s) = CountedFor(r, s)
  BY DEF CountedFor
<1>4. Groups(q, onDisk)
  BY <1>1, <1>3 DEF Groups
<1> QED BY <1>2, <1>4 DEF Swept

LEMMA SweepInvStep == SweepInv /\ [SweepNext]_sweepVars => SweepInv'
<1> SUFFICES ASSUME SweepInv, [SweepNext]_sweepVars PROVE SweepInv'
  OBVIOUS
<1>1. CASE UNCHANGED sweepVars
  BY <1>1 DEF SweepInv, sweepVars
<1>2. CASE SweepNext
  <2>1. PICK p \in Sweeps :
          \/ \E base \in SUBSET Signatures, inputs \in Corpora : Baseline(p, base, inputs)
          \/ \E sigs \in SUBSET Signatures : Replays(p, sigs)
          \/ ReplayFails(p) \/ NextInput(p) \/ Grouped(p)
          \/ ExemplarThere(p) \/ ExemplarSkipped(p) \/ WriteExemplar(p) \/ LinkExemplar(p)
          \/ ExemplarFails(p) \/ SweepReports(p)
    BY <1>2 DEF SweepNext
  <2>2. PICK r : r = sweep[p]
    OBVIOUS
  <2>3. Swept(r, hits) /\ DOMAIN r = SweepFields
    BY <2>2 DEF SweepInv, Swept, SweepTyped
  <2>4. SweepTyped(r) /\ AtHand(r) /\ Groups(r, hits)
    BY <2>3 DEF Swept
  <2>5. CASE \E base \in SUBSET Signatures, inputs \in Corpora : Baseline(p, base, inputs)
    <3>1. PICK base \in SUBSET Signatures, inputs \in Corpora : Baseline(p, base, inputs)
      BY <2>5
    <3>2. Swept([NoSweep EXCEPT !.stage = "run", !.base = base, !.inputs = inputs], hits)
      BY BaselineSwept
    <3>3. /\ Sets(p, [NoSweep EXCEPT !.stage = "run", !.base = base, !.inputs = inputs])
          /\ hits' = hits
      BY <3>1 DEF Baseline, Sets
    <3> QED BY <3>2, <3>3, SweepGoesOn
  <2>6. CASE \E sigs \in SUBSET Signatures : Replays(p, sigs)
    <3>1. PICK sigs \in SUBSET Signatures : Replays(p, sigs)
      BY <2>6
    <3>2. PICK new : new = (sigs \ r.base) \ r.seen
      OBVIOUS
    <3>3. new = Counted(p, sigs) /\ hits' = hits
      BY <2>2, <3>1, <3>2 DEF Counted, Replays
    <3>4. PICK order \in [1..Cardinality(new) -> new] :
            /\ \A s \in new : \E i \in DOMAIN order : order[i] = s
            /\ Sets(p, [r EXCEPT !.rep = @ + 1, !.todo = order, !.seen = @ \cup new,
                         !.shown = @ \cup ({r.inputs[1]} \X (sigs \ r.base))])
      BY <2>2, <3>1, <3>3 DEF Replays, CurrentInput
    <3>5. r.stage = "run" /\ r.inputs # <<>> /\ r.todo = <<>>
      BY <2>2, <3>1 DEF Replays
    <3>6. PICK q : q = [r EXCEPT !.rep = @ + 1, !.todo = order, !.seen = @ \cup new,
                          !.shown = @ \cup ({r.inputs[1]} \X (sigs \ r.base))]
      OBVIOUS
    <3>7. /\ DOMAIN q = SweepFields /\ q.inputs = r.inputs /\ q.todo = order
          /\ q.seen = r.seen \cup new /\ q.skipped = r.skipped /\ q.groups = r.groups
          /\ q.shown = r.shown \cup ({r.inputs[1]} \X (sigs \ r.base))
          /\ q.stage = "run" /\ q.base = r.base
      BY <2>3, <3>5, <3>6 DEF SweepFields
    <3>8. OneReplay(r, sigs, new, order, q)
      BY <3>2, <3>4, <3>5, <3>7 DEF OneReplay
    <3>9. Swept(q, hits)
      BY <2>3, <3>8, ReplaySwept
    <3> QED BY <3>3, <3>4, <3>6, <3>9, SweepGoesOn
  <2>7. CASE ReplayFails(p) \/ NextInput(p)
    <3>1. /\ r.inputs # <<>> /\ r.todo = <<>> /\ hits' = hits
          /\ Sets(p, [r EXCEPT !.inputs = Tail(@), !.rep = 0, !.seen = {}])
      BY <2>2, <2>7 DEF ReplayFails, NextInput, LeavesInput
    <3>2. Swept([r EXCEPT !.inputs = Tail(@), !.rep = 0, !.seen = {}], hits)
      BY <2>3, <3>1, LeaveSwept
    <3> QED BY <3>1, <3>2, SweepGoesOn
  <2>8. CASE Grouped(p)
    <3>1. PICK q : q = [r EXCEPT !.groups[Sig(p)].n = @ + 1, !.todo = Tail(@)]
      OBVIOUS
    <3>2. /\ r.todo # <<>> /\ r.stage = "run" /\ Head(r.todo) \in DOMAIN r.groups
          /\ Sig(p) = Head(r.todo) /\ hits' = hits /\ Sets(p, q)
      BY <2>2, <2>8, <3>1 DEF Grouped, Sig
    <3>3. Head(r.todo) = r.todo[1]
      BY <2>3, <3>2, NextSignature
    <3>4. /\ DOMAIN q = SweepFields /\ q.inputs = r.inputs /\ q.todo = Tail(r.todo)
          /\ q.seen = r.seen /\ q.shown = r.shown /\ q.base = r.base /\ q.stage = "run"
          /\ q.skipped = r.skipped
          /\ q.groups = [r.groups EXCEPT ![r.todo[1]].n = @ + 1]
      BY <2>3, <3>1, <3>2, <3>3 DEF SweepFields
    <3>5. DOMAIN r.groups[r.todo[1]] = {"exemplar", "n"}
      BY <2>4, <3>2, <3>3 DEF SweepTyped
    <3>6. /\ DOMAIN q.groups = DOMAIN r.groups \cup {r.todo[1]}
          /\ \A s \in DOMAIN r.groups \ {r.todo[1]} : q.groups[s] = r.groups[s]
          /\ DOMAIN q.groups[r.todo[1]] = {"exemplar", "n"}
          /\ q.groups[r.todo[1]].n = r.groups[r.todo[1]].n + 1
          /\ q.groups[r.todo[1]].exemplar = r.groups[r.todo[1]].exemplar
      BY <3>2, <3>3, <3>4, <3>5
    <3>7. q.skipped \in Nat
      BY <2>4, <3>4 DEF SweepTyped
    <3>8. Swept(q, hits)
      BY <2>3, <3>2, <3>3, <3>4, <3>6, <3>7, TurnSwept
    <3> QED BY <3>2, <3>8, SweepGoesOn
  <2>9. CASE ExemplarThere(p) \/ LinkExemplar(p)
    <3>1. PICK known : Sets(p, WithGroup(p, known)) /\ r.stage # "reported"
                       /\ r.todo # <<>> /\ Head(r.todo) \notin DOMAIN r.groups
                       /\ hits \subseteq hits' /\ r.inputs[1] \in hits'
      <4>1. CASE ExemplarThere(p)
        BY <2>2, <4>1 DEF ExemplarThere, NewGroup, Sig, CurrentInput
      <4>2. CASE LinkExemplar(p)
        <5>1. r.stage = "link" /\ r.todo # <<>> /\ r.todo[1] \notin DOMAIN r.groups
          BY <2>2, <2>4, <4>2 DEF LinkExemplar, Groups
        <5>2. Head(r.todo) = r.todo[1]
          BY <2>3, <5>1, NextSignature
        <5> QED BY <2>2, <4>2, <5>1, <5>2 DEF LinkExemplar, CurrentInput
      <4> QED BY <2>9, <4>1, <4>2
    <3>2. PICK q : q = WithGroup(p, known)
      OBVIOUS
    <3>3. Head(r.todo) = r.todo[1] /\ Sig(p) = r.todo[1]
      BY <2>2, <2>3, <3>1, NextSignature DEF Sig
    <3>4. q = [r EXCEPT !.todo = Tail(@), !.files = <<known>>, !.stage = "run",
                 !.groups = [s \in {r.todo[1]} \cup DOMAIN r.groups |->
                               IF s = r.todo[1] THEN [exemplar |-> r.inputs[1], n |-> 1]
                               ELSE r.groups[s]]]
      BY <2>2, <3>2, <3>3 DEF WithGroup, FirstOf, CurrentInput
    <3>5. /\ DOMAIN q = SweepFields /\ q.inputs = r.inputs /\ q.todo = Tail(r.todo)
          /\ q.seen = r.seen /\ q.shown = r.shown /\ q.base = r.base /\ q.stage = "run"
          /\ q.skipped = r.skipped
          /\ q.groups = [s \in {r.todo[1]} \cup DOMAIN r.groups |->
                           IF s = r.todo[1] THEN [exemplar |-> r.inputs[1], n |-> 1]
                           ELSE r.groups[s]]
      BY <2>3, <3>4 DEF SweepFields
    <3>6. /\ DOMAIN q.groups = DOMAIN r.groups \cup {r.todo[1]}
          /\ \A s \in DOMAIN r.groups \ {r.todo[1]} : q.groups[s] = r.groups[s]
          /\ DOMAIN q.groups[r.todo[1]] = {"exemplar", "n"}
          /\ r.todo[1] \notin DOMAIN r.groups
          /\ q.groups[r.todo[1]].n = 0 + 1
          /\ q.groups[r.todo[1]].exemplar = r.inputs[1]
      BY <3>1, <3>3, <3>5
    <3>7. q.skipped \in Nat
      BY <2>4, <3>5 DEF SweepTyped
    <3>8. Swept(r, hits')
      BY <2>3, <3>1, SweptStays
    <3>9. Swept(q, hits')
      BY <3>1, <3>5, <3>6, <3>7, <3>8, TurnSwept
    <3> QED BY <3>1, <3>2, <3>9, SweepGoesOn
  <2>10. CASE ExemplarSkipped(p)
    <3>1. PICK known : Sets(p, [r EXCEPT !.todo = Tail(@), !.files = <<known>>, !.skipped = @ + 1])
      BY <2>2, <2>10 DEF ExemplarSkipped, OverCap
    <3>2. r.todo # <<>> /\ r.stage = "run" /\ hits' = hits
      BY <2>2, <2>10 DEF ExemplarSkipped, NewGroup
    <3>3. PICK q : q = [r EXCEPT !.todo = Tail(@), !.files = <<known>>, !.skipped = @ + 1]
      OBVIOUS
    <3>4. /\ DOMAIN q = SweepFields /\ q.inputs = r.inputs /\ q.todo = Tail(r.todo)
          /\ q.seen = r.seen /\ q.shown = r.shown /\ q.base = r.base /\ q.stage = "run"
          /\ q.skipped = r.skipped + 1 /\ q.groups = r.groups
      BY <2>3, <3>2, <3>3 DEF SweepFields
    <3>5. r.skipped \in Nat /\ q.skipped \in Nat /\ q.skipped # 0
      BY <2>4, <3>4 DEF SweepTyped
    <3>6. Swept(q, hits)
      BY <2>3, <3>2, <3>4, <3>5, TurnSwept
    <3> QED BY <3>1, <3>2, <3>3, <3>6, SweepGoesOn
  <2>11. CASE WriteExemplar(p) \/ SweepReports(p)
    <3>1. PICK q :
            /\ Sets(p, q) /\ hits' = hits
            /\ DOMAIN q = SweepFields /\ q.inputs = r.inputs /\ q.todo = r.todo
            /\ q.seen = r.seen /\ q.shown = r.shown /\ q.base = r.base
            /\ q.skipped = r.skipped /\ q.groups = r.groups
            /\ \/ q.stage = "link" /\ r.todo # <<>> /\ Head(r.todo) \notin DOMAIN r.groups
               \/ q.stage = "reported" /\ r.todo = <<>>
      <4>1. CASE WriteExemplar(p)
        <5>1. PICK q : q = [r EXCEPT !.stage = "link", !.files = <<FilesKnown(p)>>]
          OBVIOUS
        <5>2. Sets(p, q) /\ hits' = hits /\ r.todo # <<>> /\ Head(r.todo) \notin DOMAIN r.groups
          BY <2>2, <4>1, <5>1 DEF WriteExemplar, NewGroup, Sig
        <5>3. /\ DOMAIN q = SweepFields /\ q.inputs = r.inputs /\ q.todo = r.todo
              /\ q.seen = r.seen /\ q.shown = r.shown /\ q.base = r.base
              /\ q.skipped = r.skipped /\ q.groups = r.groups /\ q.stage = "link"
          BY <2>3, <5>1 DEF SweepFields
        <5> QED BY <5>2, <5>3
      <4>2. CASE SweepReports(p)
        <5>1. PICK q : q = [r EXCEPT !.stage = "reported"]
          OBVIOUS
        <5>2. Sets(p, q) /\ hits' = hits /\ r.todo = <<>>
          BY <2>2, <4>2, <5>1 DEF SweepReports
        <5>3. /\ DOMAIN q = SweepFields /\ q.inputs = r.inputs /\ q.todo = r.todo
              /\ q.seen = r.seen /\ q.shown = r.shown /\ q.base = r.base
              /\ q.skipped = r.skipped /\ q.groups = r.groups /\ q.stage = "reported"
          BY <2>3, <5>1 DEF SweepFields
        <5> QED BY <5>2, <5>3
      <4> QED BY <2>11, <4>1, <4>2
    <3>2. /\ q.stage = "link" => r.todo # <<>> /\ r.todo[1] \notin DOMAIN r.groups
          /\ q.stage = "reported" => r.todo = <<>>
      <4>1. r.todo # <<>> => Head(r.todo) = r.todo[1]
        BY <2>3, NextSignature
      <4> QED BY <3>1, <4>1
    <3>3. Swept(q, hits)
      BY <2>3, <3>1, <3>2, StageSwept
    <3> QED BY <3>1, <3>3, SweepGoesOn
  <2>12. CASE ExemplarFails(p)
    <3>1. Sets(p, NoSweep) /\ hits' = hits
      BY <2>12 DEF ExemplarFails, Sets
    <3> QED BY <3>1, NoSweepSwept, SweepGoesOn
  <2> QED BY <2>1, <2>5, <2>6, <2>7, <2>8, <2>9, <2>10, <2>11, <2>12
<1> QED BY <1>1, <1>2

\* What a sweep reports is what its replays showed beyond the baseline: every
\* signature with a group and an exemplar on disk that showed it, its inputs counted
\* once each, and all of them unless the exemplar directory was full
\* (sanitizer_sweep).  For any signatures, corpora, repetitions, bound of the
\* directory and number of sweeps that share it.
THEOREM CountedAsShown == SweepSpec => []ReportIsWhatWasSeen
<1>1. SweepInit => SweepInv
  <2> SUFFICES ASSUME SweepInit PROVE SweepInv
    OBVIOUS
  <2>1. sweep = [p \in Sweeps |-> NoSweep]
    BY DEF SweepInit
  <2> QED BY <2>1, NoSweepSwept DEF SweepInv
<1>2. SweepInv => ReportIsWhatWasSeen
  <2> SUFFICES ASSUME SweepInv, NEW p \in Sweeps, sweep[p].stage = "reported"
               PROVE  LET groups == sweep[p].groups IN
                      /\ DOMAIN groups \cap sweep[p].base = {}
                      /\ \A s \in DOMAIN groups :
                           /\ groups[s].exemplar \in hits \cap ShownBy(p, s)
                           /\ groups[s].n <= Cardinality(ShownBy(p, s))
                      /\ sweep[p].skipped = 0 =>
                           \A x \in sweep[p].shown :
                             x[2] \in DOMAIN groups
                             /\ groups[x[2]].n = Cardinality(ShownBy(p, x[2]))
    BY DEF ReportIsWhatWasSeen
  <2>1. PICK r : r = sweep[p]
    OBVIOUS
  <2>2. SweepTyped(r) /\ AtHand(r) /\ Groups(r, hits) /\ r.todo = <<>>
    BY <2>1 DEF SweepInv, Swept, Groups
  <2>3. \A s : ShownBy(p, s) = ShownIn(r.shown, s)
    BY <2>1 DEF ShownBy, ShownIn
  <2>4. DOMAIN r.groups \cap r.base = {}
    BY <2>2 DEF Groups
  <2>5. ASSUME NEW s \in DOMAIN r.groups
        PROVE  /\ r.groups[s].exemplar \in hits \cap ShownIn(r.shown, s)
               /\ r.groups[s].n <= Cardinality(ShownIn(r.shown, s))
    <3>1. r.groups[s].exemplar \in hits /\ <<r.groups[s].exemplar, s>> \in r.shown
      BY <2>2 DEF Groups
    <3>2. r.groups[s].exemplar \in ShownIn(r.shown, s)
      <4>1. PICK x : x = r.groups[s].exemplar
        OBVIOUS
      <4>2. <<x, s>> \in r.shown /\ <<x, s>>[1] = x /\ <<x, s>>[2] = s
        BY <3>1, <4>1
      <4> QED BY <4>1, <4>2 DEF ShownIn
    <3>3. CountedFor(r, s) = r.groups[s].n
      <4>1. r.groups[s].n \in Nat
        BY <2>2 DEF SweepTyped
      <4> QED BY <2>2, <4>1, NothingWithin DEF CountedFor
    <3>4. s \in Signatures
      BY <2>2 DEF SweepTyped
    <3> QED BY <2>2, <3>1, <3>2, <3>3, <3>4 DEF Groups
  <2>6. ASSUME r.skipped = 0, NEW x \in r.shown
        PROVE  x[2] \in DOMAIN r.groups
               /\ r.groups[x[2]].n = Cardinality(ShownIn(r.shown, x[2]))
    <3>1. PICK s : s = x[2] /\ s \in Signatures
      BY <2>2 DEF SweepTyped
    <3>2. CountedFor(r, s) = Cardinality(ShownIn(r.shown, s))
      BY <2>2, <2>6, <3>1 DEF Groups
    <3>3. IsFiniteSet(ShownIn(r.shown, s)) /\ Cardinality(ShownIn(r.shown, s)) \in Nat
      BY <2>2, ShownInFinite DEF SweepTyped
    <3>4. x[1] \in ShownIn(r.shown, s)
      BY <3>1 DEF ShownIn
    <3>5. Cardinality(ShownIn(r.shown, s)) # 0
      BY <3>3, <3>4, FS_EmptySet
    <3>6. ~Within(r.todo, s)
      BY <2>2, NothingWithin
    <3>7. s \in DOMAIN r.groups
      BY <3>2, <3>5, <3>6 DEF CountedFor
    <3>8. r.groups[s].n \in Nat
      BY <2>2, <3>7 DEF SweepTyped
    <3> QED BY <3>1, <3>2, <3>6, <3>7, <3>8 DEF CountedFor
  <2> QED BY <2>1, <2>3, <2>4, <2>5, <2>6
<1> QED BY <1>1, <1>2, SweepInvStep, PTL DEF SweepSpec


=============================================================================
