------------------------------- MODULE CodecGate -------------------------------
(***************************************************************************)
(* The codec of a target, a script people and workers write (codec.py):    *)
(* validated on the newest units of the corpus, then used to decode inputs.*)
(*                                                                         *)
(* A digest ties the answer of a decode to the validation before it.  It   *)
(* is taken when a call begins; the script is loaded later, by a child     *)
(* process, and all calls for a target stage their inputs in one directory *)
(* and write the probe they are judged by to one file.                     *)
(***************************************************************************)
EXTENDS Integers, FiniteSets

CONSTANTS
  CodecSamples,  \* inputs: units of the corpus and files to decode
  MaxSamples,  \* max_samples: units a validation looks at
  MaxPaths,    \* MAX_DECODE_PATHS: files a decode takes
  Versions,    \* of the script
  Parses,      \* the samples each version decodes
  RoundTrips,  \* those it decodes to the same object once it has encoded them again
  Encodes,     \* the versions that have an encoder
  Reaches,     \* the versions whose probe reaches a function that matters
  MinRate,     \* least percentage of samples to decode
  Strict,      \* require_roundtrip
  Validators, Decoders   \* calls of the two modes

ASSUME CodecAssumption ==
  /\ IsFiniteSet(CodecSamples) /\ MinRate \in Int 
  /\ MaxSamples \in Nat \ {0} /\ MaxPaths \in Nat \ {0}
  /\ Parses \in [Versions -> SUBSET CodecSamples] /\ RoundTrips \in [Versions -> SUBSET CodecSamples]
  /\ Encodes \subseteq Versions /\ Reaches \subseteq Versions
  /\ Strict \in BOOLEAN /\ Validators \cap Decoders = {}

VARIABLES
  script,     \* the version on disk
  staging,    \* the files in codec-staging
  probe,      \* codec-probe.bin: the versions that wrote it, none or one
  codecStatus, \* codec-status.json
  accepted,   \* history: the validation of a positive status that loaded what it has digested
  coding      \* what each call is doing, and history: whether no validation ran beside

codecVars == <<script, staging, probe, codecStatus, accepted, coding>>

CodecCalls == Validators \cup Decoders

NoCall == [stage |-> "idle"]
Enters(p, stage) == coding' = [coding EXCEPT ![p].stage = stage]
Done(p) == coding' = [coding EXCEPT ![p] = NoCall]
Validating == {p \in Validators : coding[p].stage # "idle"}

-----------------------------------------------------------------------------
(* Staging *)

\* What is in the directory, of another call too, is removed.
BeginCodec(p) ==
  /\ coding[p].stage = "idle" /\ staging' = {}
  /\ coding' = [q \in CodecCalls |->
       IF q = p THEN [stage |-> "copy", digest |-> script, loaded |-> script, files |-> {}, good |-> FALSE,
                      wrote |-> FALSE, ran |-> FALSE,
                      alone |-> p \notin Validators \/ Validating = {}]
       ELSE IF q \in Validating /\ p \in Validators
       THEN [coding[q] EXCEPT !.alone = FALSE]
       ELSE coding[q]]
  /\ UNCHANGED <<script, probe, codecStatus, accepted>>

\* An input of a decode has a number before its name.
Files(p, inputs) == {[input |-> x, numbered |-> p \in Decoders] : x \in inputs}

\* Units of the corpus or files asked for.  A validation makes its probe anew.
CopyInputs(p, inputs) ==
  /\ coding[p].stage = "copy" /\ Files(p, inputs) \cap staging = {}
  /\ Cardinality(inputs) <= IF p \in Validators THEN MaxSamples ELSE MaxPaths
  /\ staging' = staging \cup Files(p, inputs)
  /\ probe' = IF p \in Validators THEN {} ELSE probe
  /\ coding' = [coding EXCEPT ![p].stage = "load", ![p].files = staging']
  /\ UNCHANGED <<script, codecStatus, accepted>>

\* An input that changes, is too large or is there already: nothing is recorded.
CopyFails(p) ==
  /\ coding[p].stage = "copy"
  /\ staging' = {} /\ Done(p)
  /\ UNCHANGED <<script, probe, codecStatus, accepted>>

-----------------------------------------------------------------------------
(* The child process *)

\* Its report must agree with what was staged, by the names of a decode and by the
\* number of files of a validation: otherwise it is a child that fails.
LoadScript(p) ==
  /\ coding[p].stage = "load"
  /\ IF p \in Decoders THEN coding[p].files = staging
     ELSE Cardinality(coding[p].files) = Cardinality(staging)
  /\ coding' = [coding EXCEPT ![p].stage = "child", ![p].loaded = script, ![p].files = staging]
  /\ UNCHANGED <<script, staging, probe, codecStatus, accepted>>

ParsedBy(v, files) == {f \in files : f.input \in Parses[v]}
Parsed(p) == ParsedBy(coding[p].loaded, coding[p].files)

\* It makes a probe of the first sample it can.
Probes(p) == p \in Validators /\ Parsed(p) # {}

\* An encoder that raises for every sample leaves no probe.
Raises(p) ==
  /\ coding[p].loaded \in Encodes
  /\ \A f \in Parsed(p) : f.input \notin RoundTrips[coding[p].loaded]

\* A probe that is there already is not replaced: the report is wrong then.
ChildReports(p) ==
  /\ coding[p].stage = "child"
  /\ \E wrote \in BOOLEAN :
       /\ IF wrote THEN Probes(p) /\ probe = {} ELSE Probes(p) => Raises(p)
       /\ probe' = IF wrote THEN {coding[p].loaded} ELSE probe
       /\ coding' = [coding EXCEPT ![p].stage = "judge", ![p].good = TRUE, ![p].wrote = wrote]
  /\ staging' = {}
  /\ UNCHANGED <<script, codecStatus, accepted>>

\* It fails to load, exits without a report or with one that is wrong, or runs out
\* of time.
ChildFails(p) ==
  /\ coding[p].stage \in {"load", "child"} /\ staging' = {}
  /\ coding' = [coding EXCEPT ![p].stage = "judge", ![p].files = {}]
  /\ UNCHANGED <<script, probe, codecStatus, accepted>>

-----------------------------------------------------------------------------
(* The answers *)

NoStatus == [script |-> {}, validated |-> FALSE]

\* Mutant: the status is taken for that of the script as it is.
StaleNever(p) == FALSE

\* The script has changed since the last validation that got as far as a status.
Stale(p) == codecStatus.script # {} /\ codecStatus.script # {coding[p].digest}

\* Blocked when it is stale or the child has failed.  What was decoded is returned
\* all the same, and so is what the status says of the script.
Returned(p) ==
  [ok |-> coding[p].good /\ ~Stale(p), validated |-> codecStatus.validated,
   files |-> coding[p].files]

Decode(p) ==
  /\ coding[p].stage = "judge" /\ p \in Decoders /\ Done(p)
  /\ UNCHANGED <<script, staging, probe, codecStatus, accepted>>

Enough(parsed, files) == 100 * Cardinality(parsed) >= MinRate * Cardinality(files)

KeepsObjects(v, parsed) == v \in Encodes => \A f \in parsed : f.input \in RoundTrips[v]

\* The probe is replayed, if there are functions to look for and a fuzzer.
Judge(p) ==
  /\ coding[p].stage = "judge" /\ p \in Validators
  /\ \E ran \in BOOLEAN :
       LET accepts == /\ coding[p].good /\ coding[p].wrote = (probe # {})
                      /\ Enough(Parsed(p), coding[p].files)
                      /\ Strict => KeepsObjects(coding[p].loaded, Parsed(p)) IN
       /\ ran => accepts /\ probe # {}
       /\ coding' = [coding EXCEPT ![p].stage = "write", ![p].ran = ran,
                       ![p].good = accepts /\ (ran => probe \subseteq Reaches)]
  /\ UNCHANGED <<script, staging, probe, codecStatus, accepted>>

WriteStatus(p) ==
  /\ coding[p].stage = "write" /\ Done(p)
  /\ codecStatus' = [script |-> {coding[p].digest}, validated |-> coding[p].good]
  /\ accepted' =
       IF coding[p].good /\ coding[p].loaded = coding[p].digest
       THEN {[files |-> coding[p].files, ran |-> coding[p].ran, alone |-> coding[p].alone]} ELSE {}
  /\ UNCHANGED <<script, staging, probe>>

\* The answer is negative then, and the status as it was.
WriteFails(p) ==
  /\ coding[p].stage = "write" /\ Done(p)
  /\ UNCHANGED <<script, staging, probe, codecStatus, accepted>>

\* A killed call leaves its files, and a child that goes on: one that has a probe to
\* write matters.
CodecDies(p) ==
  /\ coding[p].stage \notin {"idle", "orphan"}
  /\ IF coding[p].stage = "child" /\ Probes(p) THEN Enters(p, "orphan") ELSE Done(p)
  /\ UNCHANGED <<script, staging, probe, codecStatus, accepted>>

OrphanEnds(p) ==
  /\ coding[p].stage = "orphan" /\ Done(p)
  /\ probe' \in {probe, IF probe = {} THEN {coding[p].loaded} ELSE probe}
  /\ UNCHANGED <<script, staging, codecStatus, accepted>>

EditScript(v) ==
  /\ script # v /\ script' = v
  /\ UNCHANGED <<staging, probe, codecStatus, accepted, coding>>

CodecInit ==
  /\ script \in Versions /\ staging = {} /\ probe = {} /\ codecStatus = NoStatus /\ accepted = {}
  /\ coding = [p \in CodecCalls |-> NoCall]

CodecNext ==
  \/ \E p \in CodecCalls :
       \/ BeginCodec(p)
       \/ \E inputs \in SUBSET CodecSamples \ {{}} : CopyInputs(p, inputs)
       \/ CopyFails(p) \/ LoadScript(p) \/ ChildReports(p) \/ ChildFails(p)
       \/ Decode(p) \/ Judge(p) \/ WriteStatus(p) \/ WriteFails(p)
       \/ CodecDies(p) \/ OrphanEnds(p)
  \/ \E v \in Versions : EditScript(v)

CodecSpec == CodecInit /\ [][CodecNext]_codecVars

-----------------------------------------------------------------------------
(* Properties *)

\* What a decode returns without blockers and as validated was decoded by a script
\* that a validation has accepted: of the units that validation looked at it decodes
\* enough, keeps the objects of those it decodes if that was asked for, and reached
\* a function if its probe was replayed and no other validation ran beside it.  However
\* the script was edited since, and whatever ran beside: unless it was edited between
\* the digest of one of the two calls and its loading.
DecodedByValidated ==
  [][\A p \in Decoders :
       LET v == coding[p].loaded IN
       Decode(p) /\ Returned(p).ok /\ Returned(p).validated /\ v = coding[p].digest =>
         \A last \in accepted :
           LET validated == ParsedBy(v, last.files) IN
           /\ Enough(validated, last.files)
           /\ Strict => KeepsObjects(v, validated)
           /\ last.ran /\ last.alone => v \in Reaches]_codecVars

=============================================================================
