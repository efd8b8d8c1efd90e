------------------------------ MODULE FullCampaign ------------------------------
(***************************************************************************)
(* A full campaign on one run (full_campaign.py): a script of tool calls   *)
(* that replays the benchmark proofs of a project, grades, groups,         *)
(* reports and exports what it verified, hands every phase over with a     *)
(* checkpoint, and closes when the completion audit finds no blocker.      *)
(*                                                                         *)
(* The script may die anywhere and be started again on the same run, and   *)
(* sessions work on the run meanwhile.  All files of the run are only      *)
(* appended to; run is what the audits make of them: of every phase the    *)
(* latest tool event and the latest checkpoint count, of the findings,     *)
(* receipts and agents whether they are there.  Calls that read several    *)
(* files are one step, and so is the audit.                                *)
(***************************************************************************)
EXTENDS Naturals, Sequences

CONSTANTS
  Fixtures,     \* the benchmark proofs, in the order they are replayed
  Fuzzed,       \* the PoV of a crash that is no benchmark
  Worlds,       \* what PoVs may have in common, as records of functions: root,
                \* the group finding_dedupe puts them in; class, their harness,
                \* sanitizer and error token; rank, their quality
  Halted,       \* bound: the phases a session may find blocked
  MaxStarts,    \* bound: how often the script is started
  MaxSessions   \* bound: pieces of work of sessions

ASSUME CampaignAssumption ==
  /\ Fixtures \in Seq({Fixtures[i] : i \in DOMAIN Fixtures})
  /\ Halted \subseteq {"readiness", "scope", "input-material", "fuzzing", "grading",
                      "reachability", "dedupe", "patch", "report", "export"}

VARIABLES
  world,      \* one of Worlds, for good
  run,        \* the run directory
  script,     \* what the script has still to do
  replayed,   \* the proofs this execution of the script has verified
  result,     \* its result, or "none"
  session,    \* what a session has still to append
  starts, sessions

scriptVars == <<world, run, script, replayed, result, session, starts, sessions>>

Pov == {Fixtures[i] : i \in DOMAIN Fixtures} \cup {Fuzzed}

-----------------------------------------------------------------------------
(* Lines of the files *)

EventOf(type, pov) == [kind |-> "event", what |-> type, of |-> pov, ok |-> TRUE]
ToolEvent(type) == EventOf(type, "")
Finding(pov, verified) == [kind |-> "finding", what |-> "", of |-> pov, ok |-> verified]
Checkpoint(phase, agent) == [kind |-> "checkpoint", what |-> phase, of |-> agent, ok |-> TRUE]
Blocked(phase, agent) == [Checkpoint(phase, agent) EXCEPT !.ok = FALSE]
Call(tool, pov) == [kind |-> "call", what |-> tool, of |-> pov, ok |-> TRUE]

\* The phase a tool event is evidence of, where the audit asks for one.
EventPhase ==
  [dictionary_generate |-> "input-material", grammar_infer |-> "input-material",
   concolic_plan |-> "input-material", fidelity_replay_campaign |-> "fuzzing",
   finding_graded |-> "grading", pov_minimize |-> "grading", finding_recorded |-> "grading",
   finding_classified |-> "dedupe", finding_dedupe |-> "dedupe", patch_grade |-> "patch",
   campaign_report |-> "report", export_bundle_created |-> "export",
   export_accepted |-> "export", export_rejected |-> "export"]

Phases == {"readiness", "scope", "input-material", "fuzzing", "grading", "reachability",
           "dedupe", "patch", "report", "export"}

\* Of a phase: whether its latest checkpoint is missing or older than its latest
\* event ("open"), blocked, or neither, and who wrote the latest of both.
NewRun ==
  [phase |-> [p \in Phases |-> [state |-> "none", by |-> "script"]],
   agents |-> {}, findings |-> {}, evidence |-> {}, waiting |-> {}, seen |-> {}]

InPhase(r, phase, state, who) == [r EXCEPT !.phase[phase] = [state |-> state, by |-> who]]

\* seen: the tools that left an event, and the kinds of receipts accepted.
\* evidence: PoVs with a recordable verdict and a positive replay, of which
\* the second is appended last.  waiting: who recorded findings since the latest
\* finding_dedupe.
LoggedEvent(r, e, who) ==
  LET noted == IF e.what \in DOMAIN EventPhase THEN InPhase(r, EventPhase[e.what], "open", who)
               ELSE r
  IN [noted EXCEPT
        !.seen = @ \cup {e.what} \cup IF e.what = "export_accepted" THEN {e.of} ELSE {},
        !.evidence = IF e.what = "finding_verified" THEN @ \cup {e.of} ELSE @,
        !.waiting = CASE e.what = "finding_recorded" -> @ \cup {who}
                      [] e.what = "finding_dedupe"   -> {}
                      [] OTHER                       -> @]

Logged(r, line, who) ==
  CASE line.kind = "event" -> LoggedEvent(r, line, who)
    [] line.kind = "checkpoint" ->
         [InPhase(r, line.what, IF line.ok THEN "handed over" ELSE "blocked", who)
            EXCEPT !.agents = @ \cup {line.of}]
    [] line.kind = "finding" ->
         [r EXCEPT !.findings = @ \cup
            {[pov |-> line.of, sound |-> line.ok /\ line.of \in r.evidence]}]

\* _classify_verify_and_record
Recorded(pov) ==
  <<EventOf("finding_classified", pov), EventOf("finding_verified", pov),
    Finding(pov, TRUE), EventOf("finding_recorded", pov)>>

-----------------------------------------------------------------------------
(* The tools, by the event they append once they are through *)

DictionaryGenerate == ToolEvent("dictionary_generate")
GrammarInfer == ToolEvent("grammar_infer")
ConcolicPlan == ToolEvent("concolic_plan")
FindingGrade(pov) == EventOf("finding_graded", pov)
PovMinimize == ToolEvent("pov_minimize")
FindingDedupe == ToolEvent("finding_dedupe")
CampaignReport == ToolEvent("campaign_report")
ExportBundleCreate == ToolEvent("export_bundle_created")
PatchGrade == ToolEvent("patch_grade")
SubmitPatch == EventOf("export_accepted", "patch")

\* The JSON report is there to be submitted, so the receipt is always accepted.
SubmitSarif == EventOf("export_accepted", "sarif")

-----------------------------------------------------------------------------
(* The completion audit *)

DefaultPhases ==
  {"readiness", "scope", "input-material", "fuzzing", "grading", "dedupe", "report"}

DefaultAgents ==
  {"planner", "native-harness", "input-generator", "artifact-manager", "harness-builder",
   "corpus-manager", "dictionary-generator", "grammar-reverser", "concolic-generator",
   "fuzz-finder", "crash-grader", "dedupe-judge", "reporter", "export-agent"}

PatchWork == run.phase["patch"].state # "none"

\* audit_campaign_phases and _phase_gate.
PhaseGate ==
  /\ \A p \in Phases : run.phase[p].state \in {"none", "handed over"}
  /\ \A p \in DefaultPhases \cup {"export"} : run.phase[p].state # "none"

\* audit_finding_lifecycle
LifecycleGate ==
  /\ \A f \in run.findings : f.sound
  /\ run.findings # {} => run.waiting = {} /\ "finding_dedupe" \in run.seen

\* audit_campaign_fidelity: a proof is represented by any finding of its class.
Represented ==
  \A i \in DOMAIN Fixtures :
    \E f \in run.findings : f.sound /\ world.class[f.pov] = world.class[Fixtures[i]]

\* _report_gate and audit_export_completion
ExportGate ==
  /\ {"campaign_report", "sarif", "export_bundle_created"} \subseteq run.seen
  /\ run.findings # {} => "pov" \in run.seen
  /\ "patch_grade" \in run.seen => "patch" \in run.seen

\* audit_subagent_orchestration
AgentGate ==
  DefaultAgents \cup (IF PatchWork THEN {"patcher", "patch-grader"} ELSE {})
    \subseteq run.agents

Complete == PhaseGate /\ LifecycleGate /\ Represented /\ ExportGate /\ AgentGate

-----------------------------------------------------------------------------
(* The script *)

Opening == <<Checkpoint("readiness", "planner"), Checkpoint("scope", "harness-builder")>>

InputMaterial ==
  <<DictionaryGenerate, GrammarInfer, ConcolicPlan,
    Checkpoint("input-material", "dictionary-generator"),
    Checkpoint("input-material", "grammar-reverser"),
    Checkpoint("input-material", "concolic-generator"),
    Checkpoint("input-material", "corpus-manager"),
    Checkpoint("input-material", "input-generator")>>

Replay ==
  [i \in DOMAIN Fixtures |-> Call("replay", Fixtures[i])]
    \o <<ToolEvent("fidelity_replay_campaign"), Checkpoint("fuzzing", "fuzz-finder"),
         Checkpoint("fuzzing", "native-harness"), Call("choose", "")>>

\* Mutant: the phase is handed over before the findings are grouped.
ClosingHandedOverEarly(pov) ==
  <<FindingGrade(pov), PovMinimize,
    Checkpoint("grading", "crash-grader"),
    Checkpoint("dedupe", "dedupe-judge"), FindingDedupe,
    CampaignReport, Checkpoint("report", "reporter"),
    ExportBundleCreate, Call("submit pov", pov),
    SubmitSarif,
    Checkpoint("export", "export-agent"), Checkpoint("export", "artifact-manager"),
    Call("audit", "")>>

\* For the first proof that was verified.
Closing(pov) ==
  <<FindingGrade(pov), PovMinimize,
    Checkpoint("grading", "crash-grader"),
    FindingDedupe, Checkpoint("dedupe", "dedupe-judge"),
    CampaignReport, Checkpoint("report", "reporter"),
    ExportBundleCreate, Call("submit pov", pov),
    SubmitSarif,
    Checkpoint("export", "export-agent"), Checkpoint("export", "artifact-manager"),
    Call("audit", "")>>

GiveUp == <<[Call("audit", "") EXCEPT !.ok = FALSE]>>

Doing(tool) == script # <<>> /\ Head(script).kind = "call" /\ Head(script).what = tool

\* A target that is not ready (parity, runtime guard, validation, harness
\* command, sources) ends in the audit with blockers.
StartScript ==
  /\ script = <<>> /\ starts < MaxStarts
  /\ starts' = starts + 1
  /\ script' \in {Opening \o GiveUp, Opening \o InputMaterial \o Replay}
  /\ replayed' = <<>> /\ result' = "none"
  /\ UNCHANGED <<world, run, session, sessions>>

AppendLine ==
  /\ script # <<>> /\ Head(script).kind # "call"
  /\ run' = Logged(run, Head(script), "script")
  /\ script' = Tail(script)
  /\ UNCHANGED <<world, replayed, result, session, starts, sessions>>

\* A proof that crashes as expected is recorded, whatever is known of it.
ReplayProof ==
  /\ Doing("replay")
  /\ LET pov == Head(script).of IN
     \/ script' = Recorded(pov) \o Tail(script) /\ replayed' = Append(replayed, pov)
     \/ script' = Tail(script) /\ UNCHANGED replayed
  /\ UNCHANGED <<world, run, result, session, starts, sessions>>

Choose ==
  /\ Doing("choose")
  /\ script' = IF replayed = <<>> THEN GiveUp ELSE Closing(Head(replayed))
  /\ UNCHANGED <<world, run, replayed, result, session, starts, sessions>>

\* The finding of its group that finding_dedupe ranks first; of one PoV, the
\* verified one.
Represents(f) ==
  \A g \in run.findings :
    world.root[g.pov] = world.root[f.pov] =>
      \/ world.rank[g.pov] < world.rank[f.pov]
      \/ g.pov = f.pov /\ (g.sound => f.sound)

\* mock_submit_pov: only a verified representative is accepted.
SubmitPov ==
  /\ Doing("submit pov")
  /\ LET accepted == \E f \in run.findings :
           f.pov = Head(script).of /\ f.sound /\ Represents(f)
     IN run' = Logged(run, IF accepted THEN EventOf("export_accepted", "pov")
                           ELSE ToolEvent("export_rejected"), "script")
  /\ script' = Tail(script)
  /\ UNCHANGED <<world, replayed, result, session, starts, sessions>>

\* campaign_full_completion_audit: the result is what it says, unless the script
\* has met a blocker itself.
Audit ==
  /\ Doing("audit")
  /\ result' = IF Complete /\ Head(script).ok THEN "ok" ELSE "blocked"
  /\ script' = <<>>
  /\ UNCHANGED <<world, run, replayed, session, starts, sessions>>

\* A tool call raises, or the process is killed.
ScriptDies ==
  /\ script # <<>>
  /\ script' = <<>>
  /\ UNCHANGED <<world, run, replayed, result, session, starts, sessions>>

-----------------------------------------------------------------------------
(* Sessions beside it *)

\* A crash or a fixture taken in, graded and grouped; a finding listed without a replay;
\* grouping, a report; a patch that passes its grades, handed over and
\* exported; a phase handed over, or blocked.
Work ==
  {Recorded(p) \o <<Checkpoint("grading", "crash-grader"), FindingDedupe,
                    Checkpoint("dedupe", "dedupe-judge")>> : p \in Pov}
  \cup {<<Finding(p, FALSE), EventOf("finding_recorded", p)>> : p \in Pov}
  \cup {<<FindingDedupe>>, <<CampaignReport>>,
        <<PatchGrade, Checkpoint("patch", "patcher"),
          Checkpoint("patch", "patch-grader"), SubmitPatch,
          Checkpoint("export", "export-agent")>>}
  \cup {<<Blocked(p, "planner"), Checkpoint(p, "planner")>> : p \in Halted}

SessionStarts ==
  /\ session = <<>> /\ sessions < MaxSessions
  /\ sessions' = sessions + 1
  /\ session' \in Work
  /\ UNCHANGED <<world, run, script, replayed, result, starts>>

SessionAppends ==
  /\ session # <<>>
  /\ run' = Logged(run, Head(session), "session")
  /\ session' \in {Tail(session), <<>>}
  /\ UNCHANGED <<world, script, replayed, result, starts, sessions>>

-----------------------------------------------------------------------------
ScriptInit ==
  /\ world \in Worlds
  /\ run = NewRun
  /\ script = <<>> /\ replayed = <<>> /\ result = "none"
  /\ session = <<>> /\ starts = 0 /\ sessions = 0

ScriptNext ==
  \/ StartScript \/ AppendLine \/ ReplayProof \/ Choose \/ SubmitPov \/ Audit \/ ScriptDies
  \/ SessionStarts \/ SessionAppends

ScriptSpec == ScriptInit /\ [][ScriptNext]_scriptVars

-----------------------------------------------------------------------------
(* Properties *)

\* The campaign has what it is for: a proof verified by this execution, a
\* verified finding for every benchmark, and an accepted PoV.
Earned == replayed # <<>> /\ Represented /\ "pov" \in run.seen

\* What a session left that the script does not put right.
Obstructed ==
  \/ \E f \in run.findings : ~f.sound
  \/ "session" \in run.waiting
  \/ \E p \in Phases : run.phase[p].by = "session" /\ run.phase[p].state # "handed over"
  \/ /\ PatchWork
     /\ {"patch", "patcher", "patch-grader"} \ (run.seen \cup run.agents) # {}

\* The script and the audit fit each other: a campaign closes only if it has
\* earned it, and if it has, it is blocked only by what a session left, never
\* by the order of its own steps, by what an execution that died anywhere left
\* in the run, or by work of sessions that was left half done before its turn.
ClosesWhenEarned ==
  [][Audit => /\ result' = "ok" => Earned
              /\ result' = "blocked" /\ Earned => Obstructed]_scriptVars

=============================================================================
