---------------------------- MODULE MCPovPredicate ----------------------------
(***************************************************************************)
(* A small instance of PovPredicate for TLC: two hypotheses of one target, *)
(* each tried twice, while the campaign finds crashes of its own.          *)
(***************************************************************************)
EXTENDS PovPredicate, TLC

CONSTANTS h1, h2

=============================================================================
