------------------------------- MODULE OwnedBuild -------------------------------
(***************************************************************************)
(* Fuzzers built with OSS-Fuzz and the proofs of a project replayed on     *)
(* them (oss_fuzz_build.py).                                               *)
(*                                                                         *)
(* The sources are copied, an image and the fuzzers are built by OSS-Fuzz, *)
(* and what is then in its output directory is replayed, in a container    *)
(* each time.  Whether the build succeeded is not asked before: what is in *)
(* the directory may be older.  Calls for a project share the copy of the  *)
(* sources, the run, and the directory.                                    *)
(***************************************************************************)
EXTENDS Naturals, FiniteSets

CONSTANTS
  Harnesses,     \* of the fixtures of the project: a proof for each
  BuildCalls,
  Repeats,       \* repetitions of a replay
  SourceEdits    \* bound: changes of the reference source

ASSUME OwnedAssumption ==
  /\ IsFiniteSet(Harnesses) /\ Repeats \in Nat \ {0} /\ SourceEdits \in Nat

VARIABLES
  reference,   \* version of the reference source
  owned,       \* the version that was copied to the run: none or one
  outs,        \* the fuzzers in the two directories that are looked at
  build,       \* what each call is doing
  findings,    \* harnesses with a finding recorded as verified
  together     \* history: calls that ran beside another

ownedVars == <<reference, owned, outs, build, findings, together>>

\* The directory of external builds, and that of builds by other means.
Dirs == {"external", "plain"}
NoBuild == [stage |-> "idle", copied |-> 0, ok |-> TRUE, dir |-> "external", fuzzers |-> {},
            todo |-> {}, case |-> {}, reps |-> 0, bad |-> FALSE]

Others == "others"
Building == {r \in BuildCalls : build[r].stage # "idle"}

-----------------------------------------------------------------------------
(* The build *)

\* Without Docker, the helper or the project there is no build, and all proofs
\* are blocked: nothing is recorded.
StartBuild(r) ==
  /\ build[r].stage = "idle"
  /\ build' = [build EXCEPT ![r] = [NoBuild EXCEPT !.stage = "copy"]]
  /\ together' = IF Building = {} THEN together \ {r} ELSE together \cup Building \cup {r}
  /\ UNCHANGED <<reference, owned, outs, findings>>

\* The old copies of project and source are removed; the compatibility changes of
\* the project are made in the new ones.
PrepareSource(r) ==
  /\ build[r].stage = "copy"
  /\ owned' = {reference}
  /\ build' = [build EXCEPT ![r].stage = "image", ![r].copied = reference]
  /\ UNCHANGED <<reference, outs, findings, together>>

\* The fuzzers are built all the same when the image was not.
BuildImage(r) ==
  /\ build[r].stage = "image"
  /\ \E ok \in BOOLEAN : build' = [build EXCEPT ![r].stage = "clean", ![r].ok = ok]
  /\ UNCHANGED <<reference, owned, outs, findings, together>>

\* Mutant: the build is asked for without --clean.
CleanNothing(r) ==
  /\ build[r].stage = "clean" /\ build' = [build EXCEPT ![r].stage = "make"]
  /\ UNCHANGED <<reference, owned, outs, findings, together>>

CleanOut(r) ==
  /\ build[r].stage = "clean" /\ build' = [build EXCEPT ![r].stage = "make"]
  /\ outs' = [outs EXCEPT !["external"] = <<>>]
  /\ UNCHANGED <<reference, owned, findings, together>>

WithFuzzer(r, h) ==
  [k \in DOMAIN outs["external"] \cup {h} |->
     IF k = h THEN [by |-> r, version |-> CHOOSE v \in owned : TRUE] ELSE outs["external"][k]]

BuildFuzzer(r, h) ==
  /\ build[r].stage = "make" /\ owned # {} /\ h \notin DOMAIN outs["external"]
  /\ outs' = [outs EXCEPT !["external"] = WithFuzzer(r, h)]
  /\ UNCHANGED <<reference, owned, build, findings, together>>

BuildSucceeds(r) ==
  /\ build[r].stage = "make" /\ build' = [build EXCEPT ![r].stage = "select"]
  /\ UNCHANGED <<reference, owned, outs, findings, together>>

BuildFails(r) ==
  /\ build[r].stage \in {"clean", "make"}
  /\ build' = [build EXCEPT ![r].stage = "select", ![r].ok = FALSE]
  /\ UNCHANGED <<reference, owned, outs, findings, together>>

\* The first directory that has fuzzers; its other files are not looked at.
SelectDir(r) ==
  /\ build[r].stage = "select"
  /\ \E dir \in Dirs :
       /\ dir = "plain" <=> DOMAIN outs["external"] = {} /\ DOMAIN outs["plain"] # {}
       /\ build' = [build EXCEPT ![r].stage = "next", ![r].dir = dir, ![r].todo = Harnesses,
                                 ![r].fuzzers = DOMAIN outs[dir],
                                 ![r].ok = @ /\ DOMAIN outs[dir] # {}]
  /\ UNCHANGED <<reference, owned, outs, findings, together>>

-----------------------------------------------------------------------------
(* The replays *)

\* The proof is put into the run; without its fuzzer the case is blocked.
TakeCase(r, h) ==
  /\ build[r].stage = "next" /\ h \in build[r].todo
  /\ IF h \in build[r].fuzzers
     THEN build' = [build EXCEPT ![r].stage = "replay", ![r].todo = @ \ {h},
                                 ![r].case = {h}, ![r].reps = 0, ![r].bad = FALSE]
     ELSE build' = [build EXCEPT ![r].todo = @ \ {h}]
  /\ UNCHANGED <<reference, owned, outs, findings, together>>

Fuzzer(r, h) == outs[build[r].dir][h]

\* The expected crash, in a container that starts and is removed.
Hits(r) ==
  /\ build[r].stage = "replay" /\ build[r].reps < Repeats
  /\ build[r].case \subseteq DOMAIN outs[build[r].dir]
  /\ build' = [build EXCEPT ![r].reps = @ + 1]
  /\ UNCHANGED <<reference, owned, outs, findings, together>>

Misses(r) ==
  /\ build[r].stage = "replay" /\ build[r].reps < Repeats
  /\ build' = [build EXCEPT ![r].reps = @ + 1, ![r].bad = TRUE]
  /\ UNCHANGED <<reference, owned, outs, findings, together>>

\* Every repetition showed the crash: it is recorded, if the build failed too.
Verified(r) ==
  /\ build[r].stage = "replay" /\ build[r].reps = Repeats /\ ~build[r].bad
  /\ findings' = findings \cup build[r].case
  /\ build' = [build EXCEPT ![r].stage = "next", ![r].case = {}]
  /\ UNCHANGED <<reference, owned, outs, together>>

Unverified(r) ==
  /\ build[r].stage = "replay" /\ build[r].reps = Repeats /\ build[r].bad
  /\ build' = [build EXCEPT ![r].stage = "next", ![r].case = {}]
  /\ UNCHANGED <<reference, owned, outs, findings, together>>

\* The summary and the audit are appended to the run.
EndBuild(r) ==
  /\ build[r].stage = "next" /\ build[r].todo = {}
  /\ build' = [build EXCEPT ![r] = NoBuild]
  /\ UNCHANGED <<reference, owned, outs, findings, together>>

BuildDies(r) ==
  /\ build[r].stage # "idle" /\ build' = [build EXCEPT ![r] = NoBuild]
  /\ UNCHANGED <<reference, owned, outs, findings, together>>

EditReference ==
  /\ reference < SourceEdits /\ reference' = reference + 1
  /\ UNCHANGED <<owned, outs, build, findings, together>>

OwnedInit ==
  /\ reference = 0 /\ owned = {} /\ findings = {} /\ together = {}
  /\ build = [r \in BuildCalls |-> NoBuild]
  /\ \E there \in SUBSET Harnesses :
       outs = [d \in Dirs |-> IF d = "plain"
                              THEN [h \in there |-> [by |-> Others, version |-> 0]] ELSE <<>>]

OwnedNext ==
  \/ \E r \in BuildCalls :
       \/ StartBuild(r) \/ PrepareSource(r) \/ BuildImage(r) \/ CleanOut(r)
       \/ BuildSucceeds(r) \/ BuildFails(r) \/ SelectDir(r)
       \/ Hits(r) \/ Misses(r) \/ Verified(r) \/ Unverified(r) \/ EndBuild(r) \/ BuildDies(r)
       \/ \E h \in Harnesses : BuildFuzzer(r, h) \/ TakeCase(r, h)
  \/ EditReference

OwnedSpec == OwnedInit /\ [][OwnedNext]_ownedVars

-----------------------------------------------------------------------------
(* Properties *)

\* What a call whose build succeeded records was found with a fuzzer that this
\* build made, of the source it had copied, although the directory is kept from
\* build to build and looked at whatever came of them; unless the build left no
\* fuzzer there, or another call was at work on the project.
FoundOnOwnBuild ==
  [][\A r \in BuildCalls \ together, h \in Harnesses :
       Verified(r) /\ h \in build[r].case /\ build[r].ok /\ build[r].dir = "external" =>
         Fuzzer(r, h) = [by |-> r, version |-> build[r].copied]]_ownedVars

=============================================================================
