-------------------------------- MODULE Plateau --------------------------------
(***************************************************************************)
(* The plateau assessment of a target (campaign_metrics.py): functions of  *)
(* the metrics lines in rounds.jsonl, oldest first.                        *)
(*                                                                         *)
(* A line has the feature count of the round's fuzzer (stat) if one was    *)
(* parsed and the size of the corpus (size) if the round got that far.     *)
(* What its crashes were is a sequence of its own: "new" root signatures,  *)
(* all "known", none ("quiet"), or "missing" where the round ended before  *)
(* it counted them.                                                        *)
(***************************************************************************)
EXTENDS Integers, Sequences, FiniteSets

CONSTANT FlatRounds   \* policy plateau.flat_rounds

ASSUME PlateauAssumption == FlatRounds \in Nat \ {0}

NoValue == 0
CrashKinds == {"new", "known", "quiet", "missing"}

Value(line) == IF line.stat # NoValue THEN line.stat ELSE line.size

\* The values a series has, whichever of the two numbers each line gave.
Clean(lines) ==
  SelectSeq([i \in DOMAIN lines |-> Value(lines[i])], LAMBDA v : v # NoValue)

\* Mutant: a new maximum does not end the flat stretch.
CountKept(acc, v) ==
  IF v > acc.max THEN [acc EXCEPT !.max = v] ELSE [acc EXCEPT !.flat = @ + 1]

Count(acc, v) ==
  IF v > acc.max THEN [max |-> v, flat |-> 0] ELSE [acc EXCEPT !.flat = @ + 1]

\* Rounds since the running maximum last rose.
Flat(clean) ==
  LET after[n \in 1..Len(clean)] ==
        IF n = 1 THEN [max |-> clean[1], flat |-> 0] ELSE Count(after[n - 1], clean[n])
  IN IF clean = <<>> THEN 0 ELSE after[Len(clean)].flat

Verdict(lines) ==
  IF Len(Clean(lines)) < FlatRounds + 1 THEN "insufficient-data"
  ELSE IF Flat(Clean(lines)) >= FlatRounds THEN "plateaued"
  ELSE "growing"

StreakStep(crashes, acc) ==
  IF acc.over \/ crashes \in {"missing", "new"} THEN [acc EXCEPT !.over = TRUE]
  ELSE IF crashes = "known" THEN [acc EXCEPT !.streak = @ + 1]
  ELSE acc

\* Trailing rounds whose crashes were all known; quiet rounds do not count.
KnownOnlyStreak(rounds) ==
  LET back[n \in 0..Len(rounds)] ==
        IF n = 0 THEN [streak |-> 0, over |-> FALSE]
        ELSE StreakStep(rounds[Len(rounds) - n + 1], back[n - 1])
  IN back[Len(rounds)].streak

-----------------------------------------------------------------------------
(* What the counts mean *)

\* The distance from the first place of the maximum to the end.
FlatIsDistance(clean) ==
  \E i \in DOMAIN clean :
    /\ \A j \in DOMAIN clean : clean[j] <= clean[i] /\ (j < i => clean[j] < clean[i])
    /\ Flat(clean) = Len(clean) - i

\* The rounds with known crashes after which there was neither a new signature
\* nor a line without a count.
StreakIsKnownRounds(rounds) ==
  KnownOnlyStreak(rounds) =
    Cardinality({i \in DOMAIN rounds :
      rounds[i] = "known" /\ \A j \in i..Len(rounds) : rounds[j] \in {"known", "quiet"}})

=============================================================================
