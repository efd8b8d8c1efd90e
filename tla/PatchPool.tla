------------------------------- MODULE PatchPool -------------------------------
(***************************************************************************)
(* The patch environments of a run (prepare_patch_environment in           *)
(* runtime_backends.py).                                                   *)
(*                                                                         *)
(* An environment is a copy of a cached copy of the sources, with a patch  *)
(* applied.  The cache is a directory named after a digest of the names,   *)
(* sizes and times of the files, and counts as there as soon as the        *)
(* directory exists.  Sessions of the run prepare environments together,   *)
(* and the sources are edited meanwhile.                                   *)
(***************************************************************************)
EXTENDS Naturals, Sequences, FiniteSets

CONSTANTS
  PatchedFiles,      \* source files
  Absent,            \* of a file: not copied yet
  Patches, NoPatch,  \* patches; an environment may be asked for without one
  Preparers,         \* sessions of the run
  MaxEdits           \* bound: edits of the sources

ASSUME PatchAssumption ==
  /\ Absent \notin Nat /\ NoPatch \notin Patches
  /\ IsFiniteSet(PatchedFiles) /\ MaxEdits \in Nat

VARIABLES
  sources,   \* the sources as they are
  cached,    \* the cache directories: what each holds so far
  envs,      \* the environments: what each holds, and the patches applied
  prep,      \* what each session is doing
  excuse,    \* history: sessions whose sources or environment somebody disturbed
  edits

patchVars == <<sources, cached, envs, prep, excuse, edits>>

\* No edit gives a file the time it has had before, so none restores a digest.
Tree(version) == [f \in PatchedFiles |-> version]
Empty == [f \in PatchedFiles |-> Absent]
Idle == [stage |-> "idle", key |-> Empty, patch |-> NoPatch, blocked |-> FALSE]

\* Mutant: the cache is named after the directory, whatever it holds.
KeyOfPath(tree) == Tree(0)

\* _source_fingerprint, taken in one step here.
Key(tree) == tree

\* The first letters of both digests are in the name of the environment.
Env(s) == <<prep[s].key, prep[s].patch>>

\* One more directory, or other contents of one.
WithDir(dirs, name, contents) ==
  [n \in DOMAIN dirs \cup {name} |-> IF n = name THEN contents ELSE dirs[n]]

Step(s, stage) == prep' = [prep EXCEPT ![s].stage = stage]

\* A directory that somebody is still copying, or was killed copying, is a hit.
BeginPrepare(s, patch) ==
  LET key == Key(sources) IN
  /\ prep[s].stage = "idle"
  /\ prep' = [prep EXCEPT ![s] =
       [stage |-> IF key \in DOMAIN cached THEN "hit" ELSE "miss",
        key |-> key, patch |-> patch, blocked |-> FALSE]]
  /\ excuse' = IF key \in DOMAIN cached /\ \E f \in PatchedFiles : cached[key][f] = Absent
               THEN excuse \cup {s} ELSE excuse \ {s}
  /\ UNCHANGED <<sources, cached, envs, edits>>

MakeCache(s) ==
  /\ prep[s].stage = "miss" /\ prep[s].key \notin DOMAIN cached
  /\ cached' = WithDir(cached, prep[s].key, Empty)
  /\ Step(s, "copying")
  /\ UNCHANGED <<sources, envs, excuse, edits>>

\* Another session has made the directory since: copytree raises.
CacheExists(s) ==
  /\ prep[s].stage = "miss" /\ prep[s].key \in DOMAIN cached
  /\ prep' = [prep EXCEPT ![s] = Idle]
  /\ UNCHANGED <<sources, cached, envs, excuse, edits>>

CopyFile(s, f) ==
  /\ prep[s].stage = "copying" /\ cached[prep[s].key][f] = Absent
  /\ cached' = [cached EXCEPT ![prep[s].key][f] = sources[f]]
  /\ UNCHANGED <<sources, envs, prep, excuse, edits>>

CopyDone(s) ==
  /\ prep[s].stage = "copying" /\ \A f \in PatchedFiles : cached[prep[s].key][f] # Absent
  /\ Step(s, "hit")
  /\ UNCHANGED <<sources, cached, envs, excuse, edits>>

Fresh(s) == [tree |-> cached[prep[s].key], applied |-> <<>>]

\* Whatever is there under that name is removed, and the cache is copied.
MakeEnv(s) ==
  /\ prep[s].stage = "hit"
  /\ envs' = WithDir(envs, Env(s), Fresh(s))
  /\ Step(s, IF prep[s].patch = NoPatch THEN "build" ELSE "patch")
  /\ LET others == {t \in Preparers \ {s} :
                      prep[t].stage \in {"patch", "build"} /\ Env(t) = Env(s)} IN
       excuse' = IF others = {} THEN excuse ELSE excuse \cup others \cup {s}
  /\ UNCHANGED <<sources, cached, edits>>

\* git apply --check, then git apply; a failure is a blocker, and goes on.
ApplyPatch(s) ==
  /\ prep[s].stage = "patch"
  /\ \/ /\ envs' = [envs EXCEPT ![Env(s)].applied = Append(@, prep[s].patch)]
        /\ Step(s, "build")
     \/ /\ prep' = [prep EXCEPT ![s].stage = "build", ![s].blocked = TRUE]
        /\ UNCHANGED envs
  /\ UNCHANGED <<sources, cached, excuse, edits>>

\* The build and the tests run, on a tree that did not take the patch too; then
\* the manifest says whether there were blockers.
Ready(s) ==
  /\ prep[s].stage = "build" /\ ~prep[s].blocked
  /\ prep' = [prep EXCEPT ![s] = Idle]
  /\ UNCHANGED <<sources, cached, envs, excuse, edits>>

Blocked(s) ==
  /\ prep[s].stage = "build"
  /\ prep' = [prep EXCEPT ![s] = Idle]
  /\ UNCHANGED <<sources, cached, envs, excuse, edits>>

PreparerDies(s) ==
  /\ prep[s].stage # "idle"
  /\ prep' = [prep EXCEPT ![s] = Idle]
  /\ UNCHANGED <<sources, cached, envs, excuse, edits>>

EditFile(f) ==
  /\ edits < MaxEdits /\ edits' = edits + 1
  /\ sources' = [sources EXCEPT ![f] = edits']
  /\ excuse' = excuse \cup {s \in Preparers : prep[s].stage \in {"miss", "copying"}}
  /\ UNCHANGED <<cached, envs, prep>>

PatchInit ==
  /\ sources = Tree(0) /\ cached = <<>> /\ envs = <<>>
  /\ prep = [s \in Preparers |-> Idle] /\ excuse = {} /\ edits = 0

PatchNext ==
  \/ \E s \in Preparers :
       \/ \E patch \in Patches \cup {NoPatch} : BeginPrepare(s, patch)
       \/ MakeCache(s) \/ CacheExists(s) \/ \E f \in PatchedFiles : CopyFile(s, f)
       \/ CopyDone(s) \/ MakeEnv(s) \/ ApplyPatch(s) \/ Ready(s) \/ Blocked(s)
       \/ PreparerDies(s)
  \/ \E f \in PatchedFiles : EditFile(f)

PatchSpec == PatchInit /\ [][PatchNext]_patchVars

-----------------------------------------------------------------------------
(* Properties *)

\* An environment that is reported without blockers holds the sources as they
\* were when it was asked for, with its patch applied to them once, however many
\* were prepared before from other sources and with other patches; unless it was
\* made from a cache somebody had not finished, the sources were edited while
\* they were copied, or two sessions were making the same environment.
ReadyIsPatchedSource ==
  [][\A s \in Preparers \ excuse :
       Ready(s) =>
         /\ envs[Env(s)].tree = prep[s].key
         /\ envs[Env(s)].applied = IF prep[s].patch = NoPatch THEN <<>> ELSE <<prep[s].patch>>
    ]_patchVars

=============================================================================
