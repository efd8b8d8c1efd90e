------------------------------ MODULE PackPublish ------------------------------
(***************************************************************************)
(* Targets turned into packs for the symbolic executor (generate_klee_pack *)
(* in harness_gen.py).                                                     *)
(*                                                                         *)
(* A pack is a copy of the harness and an entry in one config file that    *)
(* all targets share (and a wrapper, always the same, which is left out).  *)
(* They are published as a group: each file is set aside, its successor    *)
(* renamed into place, and everything put back should anything fail.  The  *)
(* trees of headers were published before, by renaming directories.        *)
(***************************************************************************)
EXTENDS Naturals, Sequences, FiniteSets

CONSTANTS
  Packs,            \* targets
  PackCalls,
  PacksOf,          \* the targets each of them may be for
  HarnessEdits      \* bound: edits of all harnesses

ASSUME PackAssumption ==
  /\ IsFiniteSet(Packs) /\ PacksOf \in [PackCalls -> SUBSET Packs] /\ HarnessEdits \in Nat

VARIABLES
  harness,    \* version of the harness of each target
  files,      \* the published files: nothing, or one content
  headers,    \* targets whose headers are published
  pack,       \* what each call is doing, and history: the files as it found them
  crossed     \* history: calls that ran beside another

packVars == <<harness, files, headers, pack, crossed>>

Config == <<"config", "all">>
Outputs(t) == <<<<"source", t>>, Config>>
FileNames == {Outputs(t)[n] : t \in Packs, n \in 1..2}

NoPack == [stage |-> "idle", target |-> "none", version |-> 0, entries |-> {},
           next |-> 1, aside |-> <<>>, before |-> <<>>]

At(p, stage) == pack[p].stage = stage
PackStep(p, new) == pack' = [pack EXCEPT ![p] = new]
Busy == {p \in PackCalls : ~At(p, "idle")}

-----------------------------------------------------------------------------
(* Before the group *)

\* The harness and its build steps are read; options are mapped to the container.
BeginPack(p, t) ==
  /\ At(p, "idle")
  /\ pack' = [q \in PackCalls |->
       IF q # p THEN [pack[q] EXCEPT !.before = <<>>]
       ELSE [NoPack EXCEPT !.stage = "map", !.target = t, !.version = harness[t],
                           !.before = IF Busy = {} THEN files ELSE <<>>]]
  /\ crossed' = IF Busy = {} THEN crossed \ {p} ELSE crossed \cup Busy \cup {p}
  /\ UNCHANGED <<harness, files, headers>>

\* The old tree makes room for the new one, which is complete before.
HeadersAside(p) ==
  /\ At(p, "map") /\ pack[p].target \in headers
  /\ PackStep(p, [pack[p] EXCEPT !.stage = "headers"])
  /\ headers' = headers \ {pack[p].target}
  /\ UNCHANGED <<harness, files, crossed>>

HeadersIn(p) ==
  /\ At(p, "headers") \/ At(p, "map")
  /\ pack[p].target \notin headers
  /\ headers' = headers \cup {pack[p].target}
  /\ PackStep(p, [pack[p] EXCEPT !.stage = "read"])
  /\ UNCHANGED <<harness, files, crossed>>

\* The old tree is put back, if no other call has put one there.
HeadersFail(p) ==
  /\ At(p, "headers")
  /\ headers' = headers \cup {pack[p].target}
  /\ PackStep(p, NoPack)
  /\ UNCHANGED <<harness, files, crossed>>

\* Nothing of the workspace is included.
NoHeaders(p) ==
  /\ At(p, "map") /\ PackStep(p, [pack[p] EXCEPT !.stage = "read"])
  /\ UNCHANGED <<harness, files, headers, crossed>>

\* A path cannot be mapped or copied: headers may be published already.
PackBlocked(p) ==
  /\ At(p, "map") \/ At(p, "read")
  /\ PackStep(p, NoPack)
  /\ UNCHANGED <<harness, files, headers, crossed>>

\* A config file that is not there has no entries, for whatever reason.
ReadConfig(p) ==
  LET there == IF files[Config] = <<>> THEN {} ELSE files[Config][1] IN
  /\ At(p, "read")
  /\ PackStep(p, [pack[p] EXCEPT !.stage = "group", !.entries =
       {e \in there : e.target # pack[p].target}
         \cup {[target |-> pack[p].target, version |-> pack[p].version]}])
  /\ UNCHANGED <<harness, files, headers, crossed>>

-----------------------------------------------------------------------------
(* The group; the new files are written under names of their own first *)

Output(p) == Outputs(pack[p].target)[pack[p].next]

NewContent(p) ==
  IF Output(p) = Config THEN pack[p].entries
  ELSE {[target |-> pack[p].target, version |-> pack[p].version]}

SetAside(p) ==
  /\ At(p, "group") /\ pack[p].next <= 2
  /\ files' = [files EXCEPT ![Output(p)] = <<>>]
  /\ PackStep(p, [pack[p] EXCEPT !.stage = "promote", !.aside = Append(@, files[Output(p)])])
  /\ UNCHANGED <<harness, headers, crossed>>

Promote(p) ==
  /\ At(p, "promote")
  /\ files' = [files EXCEPT ![Output(p)] = <<NewContent(p)>>]
  /\ PackStep(p, [pack[p] EXCEPT !.stage = "group", !.next = @ + 1])
  /\ UNCHANGED <<harness, headers, crossed>>

PackPublished(p) ==
  /\ At(p, "group") /\ pack[p].next = 3
  /\ PackStep(p, NoPack)
  /\ UNCHANGED <<harness, files, headers, crossed>>

IsPromoted(p, n) == n < pack[p].next

\* Mutant: a file whose successor is not in place yet is forgotten.
PutsBackPromoted(p, n) == IsPromoted(p, n)

PutsBack(p, n) == IsPromoted(p, n) \/ pack[p].aside[n] # <<>>

\* What was promoted is unlinked; what was set aside is put back, over anything.
Restored(p) ==
  [f \in FileNames |->
     LET undo == {n \in DOMAIN pack[p].aside : Outputs(pack[p].target)[n] = f /\ PutsBack(p, n)} IN
     IF undo = {} THEN files[f] ELSE pack[p].aside[CHOOSE n \in undo : TRUE]]

GroupFails(p) ==
  /\ At(p, "group") \/ At(p, "promote")
  /\ files' = Restored(p)
  /\ PackStep(p, NoPack)
  /\ UNCHANGED <<harness, headers, crossed>>

\* What it has set aside is not looked for again.
PackDies(p) ==
  /\ ~At(p, "idle") /\ PackStep(p, NoPack)
  /\ UNCHANGED <<harness, files, headers, crossed>>

EditHarness(t) ==
  /\ \A u \in Packs : harness[u] < HarnessEdits
  /\ harness' = [harness EXCEPT ![t] = @ + 1]
  /\ UNCHANGED <<files, headers, pack, crossed>>

PackInit ==
  /\ harness = [t \in Packs |-> 0] /\ files = [f \in FileNames |-> <<>>]
  /\ headers = {} /\ pack = [p \in PackCalls |-> NoPack] /\ crossed = {}

PackNext ==
  \/ \E p \in PackCalls :
       \/ \E t \in PacksOf[p] : BeginPack(p, t)
       \/ HeadersAside(p) \/ HeadersIn(p) \/ HeadersFail(p) \/ NoHeaders(p) \/ PackBlocked(p)
       \/ ReadConfig(p) \/ SetAside(p) \/ Promote(p) \/ PackPublished(p) \/ GroupFails(p)
       \/ PackDies(p)
  \/ \E t \in Packs : EditHarness(t)

PackSpec == PackInit /\ [][PackNext]_packVars

-----------------------------------------------------------------------------
(* Properties *)

\* Files of a pack are published "together, restoring every prior file on
\* failure": a call beside which no other ran leaves all files as they were when
\* it fails, wherever that is, and else replaces those of its pack and its entry
\* only: the entries of other targets are as they were.
TogetherOrNotAtAll ==
  [][\A p \in PackCalls \ crossed :
       LET t == pack[p].target
           new == {[target |-> t, version |-> pack[p].version]}
           others(fs) == IF fs[Config] = <<>> THEN {} ELSE {e \in fs[Config][1] : e.target # t} IN
       /\ GroupFails(p) \/ PackBlocked(p) => files' = pack[p].before
       /\ PackPublished(p) =>
            files = [pack[p].before EXCEPT ![<<"source", t>>] = <<new>>,
                                           ![Config] = <<others(pack[p].before) \cup new>>]
    ]_packVars

=============================================================================
