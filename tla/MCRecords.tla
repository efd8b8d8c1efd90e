------------------------------- MODULE MCRecords -------------------------------
(***************************************************************************)
(* One run directory that two processes write to, with one or two          *)
(* signatures; the database is rebuilt beside them.                        *)
(***************************************************************************)
EXTENDS CampaignIndex, TLC

CONSTANTS run1, c1, c2, d1, d2, x, y

Budget(calls, replays, dedupes, failures, prunes, syncs, rewrites) ==
  [calls |-> calls, replays |-> replays, dedupes |-> dedupes, failures |-> failures,
   prunes |-> prunes, syncs |-> syncs, rewrites |-> rewrites]

\* Two calls beside a deletion and a failure; two calls beside finding_dedupe
\* and a failure; one call and a replay beside finding_dedupe, a failure and
\* retention of runs and archives; one call beside rebuilds.
MCBudgets ==
  {Budget(2, 0, 0, 1, 1, 0, 0), Budget(2, 0, 1, 1, 0, 0, 0),
   Budget(1, 1, 1, 1, 3, 0, 0), Budget(1, 0, 0, 0, 0, 3, 1)}

Symmetry == Permutations(Clerks) \cup Permutations(Sigs) \cup Permutations(Builders)

=============================================================================
