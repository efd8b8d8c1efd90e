-------------------------- MODULE MCFleetDispatcher --------------------------
(***************************************************************************)
(* Two small instances of FleetDispatcher for TLC.  In the first two jobs  *)
(* with types of their own run side by side on one day; in the second two  *)
(* jobs compete for the one open job their type may have, and the second   *)
(* day brings a plan.                                                      *)
(***************************************************************************)
EXTENDS FleetDispatcher, TLC

CONSTANTS job1, job2, plan, main, g1

TwoJobs == {job1, job2}

TwoTypes == job1 :> "harness_author" @@ job2 :> "vuln_hunt"

OneType == job1 :> "vuln_hunt" @@ job2 :> "vuln_hunt" @@ plan :> "fleet_plan"

MCRank == [j \in Job |-> CASE j = plan -> 1 [] j = job1 -> 2 [] j = job2 -> 3]

MCPlanDay == [j \in Job |-> IF j = plan THEN 2 ELSE 0]

MCMaxUsd == [j \in Job |-> IF j = job2 THEN 1 ELSE 2]

\* Each job bills one run a day, and job1 two where Twice says so.
CONSTANT Twice

MCBill == [day : 1..LastDay, job : Job, run : {1}]
            \cup [day : 1..LastDay, job : Twice, run : {2}]

=============================================================================
