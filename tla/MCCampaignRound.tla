---------------------------- MODULE MCCampaignRound ----------------------------
(***************************************************************************)
(* Two campaigns and two signatures.                                       *)
(***************************************************************************)
EXTENDS CampaignRound, TLC

CONSTANTS campA, campB, sigA, sigB

Symmetry == Permutations(Campaigns) \cup Permutations(Sigs)

\* A target that was flat for the two rounds of an earlier campaign.
MCEarlier == {<<[stat |-> 2, size |-> 1], [stat |-> 2, size |-> 1]>>}
MCNew == {<<>>}

=============================================================================
