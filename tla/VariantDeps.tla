------------------------------ MODULE VariantDeps ------------------------------
(***************************************************************************)
(* One dependency of a target, built again with another sanitizer          *)
(* (ensure_sanitizer_dep in sanitizer_variants.py) for the variant builds  *)
(* that link it.                                                           *)
(*                                                                         *)
(* The source tree is copied file by file to a staging directory, built    *)
(* there, and renamed to its destination, which counts as there from then  *)
(* on.  Two builds may prepare the same dependency, and anything may fail. *)
(***************************************************************************)
EXTENDS Naturals, FiniteSets, TLC

CONSTANTS
  DepFiles, Uncopied,   \* files of the source tree; of a file not copied yet
  VariantBuilders,      \* calls
  DepEdits              \* bound: edits of the source tree

ASSUME DepsAssumption == Uncopied \notin Nat /\ DepEdits \in Nat

VARIABLES
  source,      \* versions of the source files
  dest,        \* the destination: none, or a tree and whether it was built
  depStaging,  \* the staging directory of each call: none, or as dest
  stage,       \* what each call is doing
  linked       \* the trees that variant builds have linked

depVars == <<source, dest, depStaging, stage, linked>>

NoTree == [tree |-> [f \in DepFiles |-> Uncopied], built |-> FALSE]
Nothing == [NoTree EXCEPT !.tree = <<>>]

BStep(b, to) == stage' = [stage EXCEPT ![b] = to]

\* A destination with all its artifacts is taken as it is, whatever the source is.
DepPresent(b) ==
  /\ stage[b] = "idle" /\ dest # Nothing
  /\ BStep(b, "link")
  /\ UNCHANGED <<source, dest, depStaging, linked>>

StageDep(b) ==
  /\ stage[b] = "idle" /\ dest = Nothing
  /\ depStaging' = [depStaging EXCEPT ![b] = NoTree]
  /\ BStep(b, "copy")
  /\ UNCHANGED <<source, dest, linked>>

\* One file; a file that changes under the copy ends it (StagingFails).
CopyDepFile(b, f) ==
  /\ stage[b] = "copy" /\ depStaging[b].tree[f] = Uncopied
  /\ depStaging' = [depStaging EXCEPT ![b].tree[f] = source[f]]
  /\ UNCHANGED <<source, dest, stage, linked>>

DepCopied(b) ==
  /\ stage[b] = "copy" /\ \A f \in DepFiles : depStaging[b].tree[f] # Uncopied
  /\ BStep(b, "make")
  /\ UNCHANGED <<source, dest, depStaging, linked>>

\* configure and make succeed and leave the declared artifacts.
DepBuilt(b) ==
  /\ stage[b] = "make"
  /\ depStaging' = [depStaging EXCEPT ![b].built = TRUE]
  /\ BStep(b, "look")
  /\ UNCHANGED <<source, dest, linked>>

\* A failure removes the staging directory.
DepFails(b) ==
  /\ \/ stage[b] \in {"copy", "make"}
     \/ stage[b] = "look" /\ dest # Nothing
  /\ depStaging' = [depStaging EXCEPT ![b] = Nothing]
  /\ BStep(b, "idle")
  /\ UNCHANGED <<source, dest, linked>>

DestinationFree(b) ==
  /\ stage[b] = "look" /\ dest = Nothing
  /\ BStep(b, "rename")
  /\ UNCHANGED <<source, dest, depStaging, linked>>

\* A directory is not renamed over one that holds something.
RenameFails(b) ==
  /\ stage[b] = "rename"
  /\ depStaging' = [depStaging EXCEPT ![b] = Nothing] /\ BStep(b, "idle")
  /\ UNCHANGED <<source, dest, linked>>

\* Mutant: what is there is replaced.
PublishOver(b) ==
  /\ stage[b] = "rename"
  /\ dest' = depStaging[b] /\ depStaging' = [depStaging EXCEPT ![b] = Nothing]
  /\ BStep(b, "sync")
  /\ UNCHANGED <<source, linked>>

Publish(b) ==
  /\ stage[b] = "rename" /\ dest = Nothing
  /\ dest' = depStaging[b] /\ depStaging' = [depStaging EXCEPT ![b] = Nothing]
  /\ BStep(b, "sync")
  /\ UNCHANGED <<source, linked>>

\* The directory and its parent are looked at and synced once more.
Published(b) ==
  /\ stage[b] = "sync" /\ BStep(b, "link")
  /\ UNCHANGED <<source, dest, depStaging, linked>>

\* Should that fail, the call takes back what it has published.
Unpublish(b) ==
  /\ stage[b] = "sync" /\ BStep(b, "idle")
  /\ dest' = Nothing
  /\ UNCHANGED <<source, depStaging, linked>>

\* The build of the variant: its paths are those of the dependency.
Link(b) ==
  /\ stage[b] = "link" /\ BStep(b, "idle")
  /\ linked' = IF dest = Nothing THEN linked ELSE linked \cup {dest}
  /\ UNCHANGED <<source, dest, depStaging>>

BuilderDies(b) ==
  /\ stage[b] # "idle" /\ BStep(b, "idle")
  /\ UNCHANGED <<source, dest, depStaging, linked>>

EditDep(f) ==
  /\ source[f] < DepEdits /\ source' = [source EXCEPT ![f] = @ + 1]
  /\ UNCHANGED <<dest, depStaging, stage, linked>>

DepsInit ==
  /\ source = [f \in DepFiles |-> 0] /\ dest = Nothing
  /\ depStaging = [b \in VariantBuilders |-> Nothing] /\ stage = [b \in VariantBuilders |-> "idle"]
  /\ linked = {}

DepsNext ==
  \/ \E b \in VariantBuilders :
       \/ DepPresent(b) \/ StageDep(b) \/ DepCopied(b) \/ DepBuilt(b) \/ DepFails(b)
       \/ DestinationFree(b) \/ RenameFails(b) \/ Publish(b) \/ Published(b) \/ Unpublish(b)
       \/ Link(b) \/ BuilderDies(b)
       \/ \E f \in DepFiles : CopyDepFile(b, f)
  \/ \E f \in DepFiles : EditDep(f)

DepsSpec == DepsInit /\ [][DepsNext]_depVars

-----------------------------------------------------------------------------
(* Properties *)

\* What has been published stays ("refusing destructive replacement"), however
\* two builds of the same dependency race, fail, clean up and are killed: only
\* the call that published it can take it back, before it has answered.  What is
\* linked was built, and from all of the files.
PublishedStays ==
  [][/\ dest # Nothing /\ dest' # dest =>
          \E b \in VariantBuilders : stage[b] = "sync" /\ stage'[b] = "idle" /\ dest' = Nothing
     /\ \A t \in linked' \ linked : t.built /\ Uncopied \notin {t.tree[f] : f \in DepFiles}]_depVars

=============================================================================
