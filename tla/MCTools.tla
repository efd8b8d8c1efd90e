-------------------------------- MODULE MCTools --------------------------------
(***************************************************************************)
(* The tools that the rounds of a campaign and sessions call.  They share  *)
(* no state and are checked in one run: each behaviour is of one of them,  *)
(* the others stay in their initial states.                                *)
(***************************************************************************)
EXTENDS SeedWeights, CandidateScores, PatchPool, BoundedRun, KleeRun,
        VariantDeps, SanitizerSweep, CodecGate, DifferentialRun,
        OwnedBuild, PackPublish, SinkInventory, SinkFrontier

VARIABLE part

Parts ==
  {"weights", "scores", "patches", "commands", "klee", "dependencies",
   "sweeps", "codec", "differential", "builds", "packs", "inventories", "frontier"}

toolsVars ==
  <<weightsVars, scoresVars, patchVars, boundedVars, kleeVars, depVars,
    sweepVars, codecVars, differentialVars, ownedVars, packVars, inventoryVars,
    frontierVars, part>>

ToolsInit ==
  /\ part \in Parts
  /\ WeightsInit /\ ScoresInit /\ PatchInit /\ BoundedInit
  /\ KleeInit /\ DepsInit /\ SweepInit /\ CodecInit /\ DifferentialInit
  /\ OwnedInit /\ PackInit /\ InventoryInit /\ FrontierInit

\* The parts that a behaviour is not of.
OthersStill ==
  /\ part # "weights" => UNCHANGED weightsVars
  /\ part # "scores" => UNCHANGED scoresVars
  /\ part # "patches" => UNCHANGED patchVars
  /\ part # "commands" => UNCHANGED boundedVars
  /\ part # "klee" => UNCHANGED kleeVars
  /\ part # "dependencies" => UNCHANGED depVars
  /\ part # "sweeps" => UNCHANGED sweepVars
  /\ part # "codec" => UNCHANGED codecVars
  /\ part # "differential" => UNCHANGED differentialVars
  /\ part # "builds" => UNCHANGED ownedVars
  /\ part # "packs" => UNCHANGED packVars
  /\ part # "inventories" => UNCHANGED inventoryVars
  /\ part # "frontier" => UNCHANGED frontierVars

ToolsNext ==
  /\ UNCHANGED part /\ OthersStill
  /\ \/ part = "weights" /\ WeightsNext
     \/ part = "scores" /\ ScoresNext
     \/ part = "patches" /\ PatchNext
     \/ part = "commands" /\ BoundedNext
     \/ part = "klee" /\ KleeNext
     \/ part = "dependencies" /\ DepsNext
     \/ part = "sweeps" /\ SweepNext
     \/ part = "codec" /\ CodecNext
     \/ part = "differential" /\ DifferentialNext
     \/ part = "builds" /\ OwnedNext
     \/ part = "packs" /\ PackNext
     \/ part = "inventories" /\ InventoryNext
     \/ part = "frontier" /\ FrontierNext

\* The other parts never change.
ToolsView ==
  CASE part = "weights" -> <<part, weightsVars>>
    [] part = "scores" -> <<part, scoresVars>>
    [] part = "patches" -> <<part, patchVars>>
    [] part = "commands" -> <<part, boundedVars>>
    [] part = "klee" -> <<part, kleeVars>>
    [] part = "dependencies" -> <<part, depVars>>
    [] part = "sweeps" -> <<part, sweepVars>>
    [] part = "codec" -> <<part, codecVars>>
    [] part = "differential" -> <<part, differentialVars>>
    [] part = "builds" -> <<part, ownedVars>>
    [] part = "packs" -> <<part, packVars>>
    [] part = "inventories" -> <<part, inventoryVars>>
    [] part = "frontier" -> <<part, frontierVars>>

ToolsSpec == ToolsInit /\ [][ToolsNext]_toolsVars

-----------------------------------------------------------------------------
(* Bounds of the parts *)

MCCovers == "unit1" :> {"func1"} @@ "unit2" :> {"func1", "func2"}

MCVotes == [p \in Policies |-> 2]

MCCorpora == {<<"input1", "input2">>}

\* The second version of the script decodes one sample less, the first does not keep
\* the object of that one.
MCParses == "script1" :> {"sample1", "sample2"} @@ "script2" :> {"sample1"}
MCRoundTrips == [v \in Versions |-> {"sample1"}]

\* One input on which all behave alike, one with an output of their own each,
\* and one on which the first crashes.
MCBehaves ==
  [i \in Implementations |->
     "gone" :> [class |-> "error", out |-> "none"]
     @@ "same" :> [class |-> "ok", out |-> "same"]
     @@ "differs" :> [class |-> "ok", out |-> i]
     @@ "crashes" :> [class |-> IF i = "left" THEN "crash" ELSE "ok", out |-> "same"]]

\* The exemplar of a crash takes all the room there is.
MCSize == "same" :> 1 @@ "differs" :> 1 @@ "crashes" :> 2

MCPacksOf == "pack1" :> {"target1"} @@ "pack2" :> {"target2"}

MCSourceFiles == <<"file1">>

\* The second version of the file has lost a sink and a fork.
MCRecognised ==
  [kind \in {"sink", "fork"} |->
     "file1" :> (IF kind = "sink" THEN <<{"row1", "row2"}, {"row2"}>> ELSE <<{"row1"}, {}>>)]

MCScanCalls == "scan1" :> "sink" @@ "scan2" :> "fork"
MCMergeCalls == "merge1" :> [inputs |-> <<"curated", "sink">>, out |-> "sink"]

MCExecutes == "seed1" :> {"sink1"} @@ "seed2" :> {"sink2"}

=============================================================================
