----------------------------- MODULE MCJobLedger -----------------------------
(***************************************************************************)
(* A small instance of JobLedger for TLC: one job of the workspace and the *)
(* plan of the first of two days, raced over by two runners and a syncer.  *)
(***************************************************************************)
EXTENDS JobLedger, TLC

CONSTANTS hunt, plan, w1, w2, g1, g2

MCJob == {hunt, plan}

MCTypeOf == hunt :> "vuln_hunt" @@ plan :> "fleet_plan"

MCRank == plan :> 1 @@ hunt :> 2

MCPlanDay == hunt :> 0 @@ plan :> 1

Symmetry == Permutations({w1, w2})

=============================================================================
