----------------------------- MODULE Minimization ------------------------------
(***************************************************************************)
(* The reduction of a PoV artifact (minimization.py): blocks of bytes are  *)
(* cut out as long as the crash keeps the signal of the original, blocks   *)
(* of half the size when a pass over the artifact cut nothing.             *)
(*                                                                         *)
(* A byte is named by its place in the original, so an artifact is the     *)
(* sequence of the places it has left.  An artifact crashes if it does so  *)
(* with that signal in every repetition; for that it is the set of its     *)
(* places.                                                                 *)
(***************************************************************************)
EXTENDS Naturals, Sequences

CONSTANTS
  AttemptLimit,   \* max_attempts
  Size            \* how many bytes the original has

ASSUME MinimizationAssumption == AttemptLimit \in Nat \ {0} /\ Size \in Nat

VARIABLES
  crashing,    \* which artifacts crash with the signal: no step changes it
  reduction    \* the locals of minimize_pov_artifact

reductionVars == <<crashing, reduction>>

Original == [i \in 1..Size |-> i]

AtLeastOne(n) == IF n > 0 THEN n ELSE 1

\* current, the attempts made, and where the pass is: its block size, the
\* offset, and whether it has cut anything.
Start(data) ==
  [current |-> data, attempts |-> 0, block |-> AtLeastOne(Len(data) \div 2),
   offset |-> 0, changed |-> FALSE]

Places(s) == {s[i] : i \in DOMAIN s}

Cut(s, offset, block) ==
  SubSeq(s, 1, offset) \o SubSeq(s, offset + block + 1, Len(s))

Skip(m) == [m EXCEPT !.offset = @ + m.block]

\* After a cut the pass steps back by a block.
Accept(m, candidate) ==
  [m EXCEPT !.current = candidate, !.changed = TRUE,
            !.offset = IF @ > m.block THEN @ - m.block ELSE 0]

\* A candidate without a byte is not tried.
Try(m, Crashing) ==
  LET candidate == Cut(m.current, m.offset, m.block)
      tried == [m EXCEPT !.attempts = @ + 1]
  IN IF candidate = <<>> THEN Skip(m)
     ELSE IF Places(candidate) \in Crashing THEN Accept(tried, candidate)
     ELSE Skip(tried)

\* Mutant: the blocks are halved after every pass.
NextPassHalves(m) ==
  [m EXCEPT !.offset = 0, !.changed = FALSE, !.block = @ \div 2]

NextPass(m) ==
  [m EXCEPT !.offset = 0, !.changed = FALSE,
            !.block = IF m.changed THEN @ ELSE @ \div 2]

Finished(m) ==
  m.block = 0 \/ m.attempts >= AttemptLimit \/ Len(m.current) <= 1

\* The crash of the original is verified before anything is tried.
ReductionInit ==
  /\ \E more \in SUBSET (SUBSET Places(Original) \ {Places(Original)}) :
       crashing = more \cup {Places(Original)}
  /\ reduction = Start(Original)

TryBlock ==
  /\ ~Finished(reduction) /\ reduction.offset < Len(reduction.current)
  /\ reduction' = Try(reduction, crashing)
  /\ UNCHANGED crashing

EndPass ==
  /\ ~Finished(reduction) /\ reduction.offset >= Len(reduction.current)
  /\ reduction' = NextPass(reduction)
  /\ UNCHANGED crashing

ReductionNext == TryBlock \/ EndPass

ReductionSpec == ReductionInit /\ [][ReductionNext]_reductionVars

-----------------------------------------------------------------------------
\* The artifact always crashes, and unless the attempts have run out or one
\* byte is left, the reduction ends only when it crashes for each of its bytes:
\* without any one of them it would not (minimize_pov_artifact, whatever the
\* set of crashing artifacts is).
ReducedIsMinimal ==
  LET left == Places(reduction.current)
  IN /\ left \in crashing
     /\ /\ Finished(reduction)
        /\ reduction.attempts < AttemptLimit
        /\ Len(reduction.current) > 1
        => \A i \in left : left \ {i} \notin crashing

=============================================================================
