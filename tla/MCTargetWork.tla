----------------------------- MODULE MCTargetWork -----------------------------
(***************************************************************************)
(* Six kinds of work on a target which share no state, checked in one     *)
(* run: each behaviour is of one of the six systems, the others stay in   *)
(* their initial states.                                                   *)
(***************************************************************************)
EXTENDS MCPovPredicate, MCWantedJobs, CorpusStore, FullCampaign, Minimization, Crossover

CONSTANTS u1, u2, u3, f1, f2, f3

VARIABLE system

Systems == {"pov jobs", "corpus", "wanted jobs", "full campaign", "reduction",
            "crossover"}

workVars == <<povVars, corpusVars, jobsVars, scriptVars, reductionVars,
              crossVars, system>>

WorkInit ==
  /\ system \in Systems
  /\ PovInit /\ CorpusInit /\ CrossInit
  /\ IF system = "wanted jobs" THEN JobsInit
     ELSE JobsInit /\ lane = "triage"
  /\ IF system = "full campaign" THEN ScriptInit
     ELSE ScriptInit /\ world = CHOOSE w \in Worlds : TRUE
  /\ IF system = "reduction" THEN ReductionInit
     ELSE crashing = {Places(Original)} /\ reduction = Start(Original)

WorkNext ==
  /\ UNCHANGED system
  /\ \/ /\ system = "pov jobs" /\ PovNext
        /\ UNCHANGED <<corpusVars, jobsVars, scriptVars, reductionVars, crossVars>>
     \/ /\ system = "corpus" /\ CorpusNext
        /\ UNCHANGED <<povVars, jobsVars, scriptVars, reductionVars, crossVars>>
     \/ /\ system = "wanted jobs" /\ JobsNext
        /\ UNCHANGED <<povVars, corpusVars, scriptVars, reductionVars, crossVars>>
     \/ /\ system = "full campaign" /\ ScriptNext
        /\ UNCHANGED <<povVars, corpusVars, jobsVars, reductionVars, crossVars>>
     \/ /\ system = "reduction" /\ ReductionNext
        /\ UNCHANGED <<povVars, corpusVars, jobsVars, scriptVars, crossVars>>
     \/ /\ system = "crossover" /\ CrossNext
        /\ UNCHANGED <<povVars, corpusVars, jobsVars, scriptVars, reductionVars>>

\* The other systems never change.
WorkView ==
  CASE system = "pov jobs"      -> <<system, povVars>>
    [] system = "corpus"        -> <<system, corpusVars>>
    [] system = "wanted jobs"   -> <<system, jobsVars>>
    [] system = "full campaign" -> <<system, scriptVars>>
    [] system = "reduction"     -> <<system, reductionVars>>
    [] system = "crossover"     -> <<system, crossVars>>

WorkSpec == WorkInit /\ [][WorkNext]_workVars

-----------------------------------------------------------------------------
\* Three units that overlap in what they cover, so that a merge has a choice.
MCCovers == u1 :> {1} @@ u2 :> {1, 2} @@ u3 :> {2, 3}

\* Of one bug, the later PoVs better; and two bugs, of which the fuzzer finds
\* the first with a poorer PoV.
World(root, class, rank) ==
  [root |-> f1 :> root[1] @@ f2 :> root[2] @@ f3 :> root[3],
   class |-> f1 :> class[1] @@ f2 :> class[2] @@ f3 :> class[3],
   rank |-> f1 :> rank[1] @@ f2 :> rank[2] @@ f3 :> rank[3]]

MCWorlds ==
  {World(<<1, 1, 1>>, <<1, 1, 1>>, <<1, 2, 3>>),
   World(<<1, 2, 1>>, <<1, 2, 1>>, <<2, 1, 1>>)}

MCFixtures == <<f1, f2>>

-----------------------------------------------------------------------------
MCBlobs == UNION {[1..n -> {0, 1}] : n \in 0..3}

=============================================================================
