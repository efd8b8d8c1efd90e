-------------------------------- MODULE MCRounds --------------------------------
(***************************************************************************)
(* The rounds of two campaigns and the directed queue of one target, in    *)
(* one run: each behaviour is of one of them, the other stays in its       *)
(* initial state.  The assessment of rounds.jsonl is held against what its *)
(* counts mean on every sequence of up to five lines, in the initial state *)
(* of the rounds only.                                                     *)
(***************************************************************************)
EXTENDS MCCampaignRound, MCDirectedQueue

VARIABLE half

RoundsInit == half \in {"rounds", "queue"} /\ RoundInit /\ DirectedInit

RoundsNext ==
  /\ UNCHANGED half
  /\ \/ half = "rounds" /\ RoundNext /\ UNCHANGED directedVars
     \/ half = "queue" /\ DirectedNext /\ UNCHANGED roundVars

RoundsSpec == RoundsInit /\ [][RoundsNext]_<<half, roundVars, directedVars>>

-----------------------------------------------------------------------------
Samples(set) == UNION {[1..n -> set] : n \in 0..5}

\* For every series of up to five values the flat count is the distance from
\* the first place of the maximum to the end (_assess_target); and for every
\* sequence of up to five lines the streak counts the rounds with known crashes
\* only after which there was neither a new signature nor a line without a count
\* (_known_only_streak).
FoldsMeanWhatTheySay ==
  half = "rounds" /\ RoundInit =>
  /\ \A s \in Samples(1..3) \ {<<>>} : FlatIsDistance(s)
  /\ \A s \in Samples(CrashKinds) : StreakIsKnownRounds(s)

=============================================================================
