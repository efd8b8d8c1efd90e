------------------------------- MODULE Crossover -------------------------------
(***************************************************************************)
(* The patches of the crossover lane (symcc_crossover.py): what turned a   *)
(* parent into the child the solver found, applied to other units.  Left   *)
(* out are the budgets and the disk, which end a pass early, and the files *)
(* that the units of a pass are written to.                                *)
(*                                                                         *)
(* Units are sequences of bytes.  An operator whose code may return None   *)
(* gives a set with at most one element.                                   *)
(***************************************************************************)
EXTENDS Integers, Sequences, FiniteSets

CONSTANTS
  MaxPatches, MaxTail, MaxBlob,   \* limits of the policy
  MaxSolutions,                   \* how many solutions are loaded
  Blobs                           \* what the corpus and the solver may have

ASSUME CrossoverAssumption ==
  /\ {MaxPatches, MaxTail} \subseteq Nat /\ {MaxBlob, MaxSolutions} \subseteq Nat \ {0}
  /\ Blobs \subseteq Seq(0..255)

VARIABLES
  solutions,   \* what is loaded of solutions.jsonl, and of which pair each is
  base,        \* the unit at hand in a pass
  made         \* of what it was made last, and by which of the solutions (history)

crossVars == <<solutions, base, made>>

\* extract_solution: the bytes that differ, by their place, and what the child
\* has more or less at its end.  Nothing if too much differs or nothing does.
Solutions(parent, child) ==
  LET delta == Len(child) - Len(parent)
      changed == {i \in DOMAIN parent \cap DOMAIN child : parent[i] # child[i]}
  IN IF /\ delta \in -MaxTail..MaxTail
        /\ Cardinality(changed) <= MaxPatches
        /\ changed # {} \/ delta # 0
     THEN {[delta |-> delta, patches |-> [i \in changed |-> child[i]],
            tail |-> SubSeq(child, Len(parent) + 1, Len(child))]}
     ELSE {}

\* Places behind the end of the unit are passed over.
Patched(data, patches) ==
  [i \in DOMAIN data |-> IF i \in DOMAIN patches THEN patches[i] ELSE data[i]]

\* Mutant: bytes are cut off in front.
ResizedInFront(data, solution) ==
  IF solution.delta >= 0 THEN data \o solution.tail
  ELSE SubSeq(data, 1 - solution.delta, Len(data))

\* The tail is appended, or as many bytes are cut off as the child lacks.
Resized(data, solution) ==
  IF solution.delta >= 0 THEN data \o solution.tail
  ELSE SubSeq(data, 1, Len(data) + solution.delta)

\* apply_solution: nothing if the result is empty, too long or no other unit.
Applied(data, solution) ==
  LET result == Resized(Patched(data, solution.patches), solution)
  IN IF result \in {<<>>, data} \/ Len(result) > MaxBlob THEN {} ELSE {result}

-----------------------------------------------------------------------------
CrossInit == solutions = <<>> /\ base = <<>> /\ made = <<>>

\* The newest records are loaded.
Newest(records) ==
  IF Len(records) > MaxSolutions
    THEN SubSeq(records, Len(records) - MaxSolutions + 1, Len(records))
    ELSE records

\* Between two passes the solver finds a child of a unit.
Learn ==
  /\ \E parent, child \in Blobs : \E s \in Solutions(parent, child) :
       solutions' = Newest(Append(solutions, [parent |-> parent, child |-> child, solution |-> s]))
  /\ base' = <<>> /\ made' = <<>>

\* The pass comes to the next unit.
TakeUnit ==
  /\ solutions # <<>>
  /\ base' \in {data \in Blobs : Len(data) <= MaxBlob}
  /\ made' = <<>>
  /\ UNCHANGED solutions

\* A solution is chosen at random; what it makes of the unit is the next base.
ApplyOne ==
  /\ \E i \in DOMAIN solutions : \E unit \in Applied(base, solutions[i].solution) :
       base' = unit /\ made' = [of |-> base, by |-> solutions[i]]
  /\ UNCHANGED solutions

CrossNext == Learn \/ TakeUnit \/ ApplyOne

CrossSpec == CrossInit /\ [][CrossNext]_crossVars

-----------------------------------------------------------------------------
\* A solution turns the unit it was learnt from into the child again, and
\* leaves its bytes in every other unit that is long enough to have them
\* ("applied to other corpus entries it flips the same branch").
SolutionTransfers ==
  /\ \A i \in DOMAIN solutions :
       LET r == solutions[i]
       IN r.child # <<>> /\ Len(r.child) <= MaxBlob
            => Applied(r.parent, r.solution) = {r.child}
  /\ made # <<>> =>
       LET s == made.by.solution
       IN /\ Len(base) = Len(made.of) + s.delta
          /\ \A i \in DOMAIN s.patches \cap DOMAIN made.of \cap DOMAIN base :
               base[i] = made.by.child[i]

=============================================================================
