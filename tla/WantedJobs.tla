------------------------------ MODULE WantedJobs ------------------------------
(***************************************************************************)
(* What the state of a target calls for (jobs.py, the _want_ scans), when  *)
(* the work is accepted (job_predicates.py), and what the ledger makes of  *)
(* both when one command runs after another.                               *)
(*                                                                         *)
(* The workspace is a record of what the scans and the predicates of one   *)
(* target look at.  A wanted job has an id, <<type, qualifier>>, and a     *)
(* gen, here the evidence of which the code stores a hash: a settled job   *)
(* is queued again when its gen has become another.  Caps, attempts and    *)
(* overlapping commands are in JobLedger.  Left out is evidence that never *)
(* changes (paths, tags, the bound of 25 keys, the workorder, which is     *)
(* looked for in a directory it is not written to) and the context that is *)
(* not hashed.                                                             *)
(***************************************************************************)
EXTENDS Naturals, SequencesExt

CONSTANTS
  Sinks,    \* the dangerous sinks of the scan, worst first: records of the
            \* method (the function it is in) and the place
  Ladder,   \* the rungs of the escalation ladder, in their order
  Top,      \* how many uncovered sinks a coverage report lists
  Days,     \* bound: dates, numbered
  Changes,  \* bound: how often others change the workspace
  Leads     \* what a hypothesis may say of a bug: its place and class

VARIABLES
  lane,     \* the type of the jobs that are asked for (jobs sync --type)
  ws,       \* the workspace
  ledger,   \* the folded job ledger: a function of the ids that have events
  changes   \* how often others have changed the workspace

jobsVars == <<lane, ws, ledger, changes>>

ASSUME JobsAssumption ==
  Sinks \in Seq([method : STRING, place : Nat]) /\ Ladder \in Seq(STRING) /\ Top \in Nat

SinkKeys == ToSet(Sinks)
AllMethods == {s.method : s \in SinkKeys}

Wish(type, qualifier, trigger) == [id |-> <<type, qualifier>>, gen |-> trigger]

\* The elements of the sequence that are in the set T, in their order.
Picked(s, T) ==
  LET upTo[n \in 0..Len(s)] ==
        IF n = 0 THEN <<>>
        ELSE IF s[n] \in T THEN Append(upTo[n - 1], s[n]) ELSE upTo[n - 1]
  IN upTo[Len(s)]

-----------------------------------------------------------------------------
(* What the scans compute from files *)

\* candidates_sync: the status a candidate gets from the manifest of its target.
Derived == IF ws.manifest = "none" THEN "unharnessed" ELSE ws.manifest

\* plateau_status: the first rung of the ladder that was not tried, unless all
\* that the target yields is known.
NextRung ==
  LET open == Picked(Ladder, ToSet(Ladder) \ ws.tried)
  IN IF ws.stale THEN "rotate-target" ELSE IF open = <<>> THEN "none" ELSE Head(open)

\* sink-coverage.json lists sinks as the scan does; one is covered if its
\* function is.
Uncovered ==
  LET rows == Picked(Sinks, {s \in SinkKeys : s.method \notin ws.covered})
  IN SubSeq(rows, 1, IF Len(rows) < Top THEN Len(rows) ELSE Top)

Methods(rows) == [i \in DOMAIN rows |-> rows[i].method]

\* Sinks of which sink-status.json says that they are reached.
Reached(statuses) == Picked(Sinks, {s \in SinkKeys : ws.status[s] \in statuses})

\* _dangerous_sink_keys: sinks with a status, and those in the coverage report.
Visible ==
  {s \in SinkKeys : ws.status[s] # "untracked" \/ s.method \in ws.covered}
    \cup ToSet(Uncovered)

-----------------------------------------------------------------------------
(* The scans.  Each gives the jobs of a type, in the order of the code. *)

WantFleetPlan == <<Wish("fleet_plan", ws.today, ws.today)>>

\* The evidence carries the row of the newest run that has the signature;
\* rows tells of each run, oldest first, whether its finding is verified.
WantTriage ==
  IF ~ws.known \/ ws.report THEN <<>>
  ELSE <<Wish("triage", "signature",
              IF ws.rows = <<>> THEN <<>> ELSE <<Len(ws.rows), Last(ws.rows)>>)>>

\* aim is the sink of the active task, or else of the first queued one, if any.
WantAllowlistBuild ==
  IF ws.aim = <<>> \/ ToSet(ws.aim) \subseteq ws.built THEN <<>>
  ELSE <<Wish("allowlist_build", Head(ws.aim).method, <<Head(ws.aim), ws.priority>>)>>

WantHarnessAuthor ==
  IF ws.candidate \notin {"unharnessed", "scaffolded", "awaiting-authoring"} THEN <<>>
  ELSE <<Wish("harness_author", "target", ws.candidate)>>

WantFrontierSeed ==
  IF ~ws.flat \/ NextRung \notin {"frontier", "structured-seeds"} \/ Uncovered = <<>> THEN <<>>
  ELSE <<Wish("frontier_seed", Head(Uncovered).method, <<NextRung, Methods(Uncovered)>>)>>

WantSteering ==
  LET reached == Reached({"reached", "exploited"}) IN
  (IF ws.flat /\ NextRung = "dictionary" /\ ws.dict = "none"
     THEN <<Wish("steering", "dict", <<>>)>> ELSE <<>>)
  \o (IF ws.weights /\ ws.bits = "none" THEN <<Wish("steering", "bits", <<>>)>> ELSE <<>>)
  \o (IF reached # <<>> /\ ws.codec # "good" THEN <<Wish("steering", "codec", reached)>> ELSE <<>>)

WantSolverAssist ==
  IF \/ ~ws.flat
     \/ ws.tried \cap {"symcc-long", "klee-directed"} = {}
     \/ ~ws.dry
     \/ Uncovered = <<>>
    THEN <<>>
  ELSE <<Wish("solver_assist", Head(Uncovered).method, <<ws.tried, Methods(Uncovered)>>)>>

\* Mutant: whether there are hypotheses is part of the trigger.
VulnTriggerWithResult == <<Visible, ws.hyps # <<>>>>

\* "gen must hash only the TRIGGER (the sink rows)".
VulnTrigger == <<Visible>>

WantVulnHunt ==
  IF Visible = {} THEN <<>> ELSE <<Wish("vuln_hunt", "target", VulnTrigger)>>

\* One job for each open hypothesis, and one for each reached sink, named
\* after the function it is in.
WantPovProduce ==
  LET open == Picked(ws.hyps, {h \in ToSet(ws.hyps) : h.state = "open"})
      reached == Reached({"reached"})
  IN [i \in DOMAIN open |-> Wish("pov_produce", open[i].id, <<open[i].lead>>)]
     \o [i \in DOMAIN reached |->
           Wish("pov_produce", reached[i].method, <<reached[i], reached[i] \in ws.close>>)]

Wanted(type) ==
  CASE type = "fleet_plan"      -> WantFleetPlan
    [] type = "triage"          -> WantTriage
    [] type = "allowlist_build" -> WantAllowlistBuild
    [] type = "harness_author"  -> WantHarnessAuthor
    [] type = "frontier_seed"   -> WantFrontierSeed
    [] type = "steering"        -> WantSteering
    [] type = "solver_assist"   -> WantSolverAssist
    [] type = "vuln_hunt"       -> WantVulnHunt
    [] type = "pov_produce"     -> WantPovProduce

-----------------------------------------------------------------------------
(* The workspace *)

JobTypes == {"fleet_plan", "triage", "allowlist_build", "harness_author", "frontier_seed",
             "steering", "solver_assist", "vuln_hunt", "pov_produce"}

Hypothesis(id, lead, state) == [id |-> id, lead |-> lead, state |-> state]

\* At most one row that was not appended by a pov_produce worker; a bad one
\* lacks a key or cites no file.
HuntedRows ==
  {<<>>} \cup {<<Hypothesis("H1", lead, state)>> : lead \in Leads, state \in {"open", "bad"}}

\* The status of a sink is that of its function, except that a finding exploits
\* one place.
Statuses ==
  {f \in [SinkKeys -> {"untracked", "reached", "exploited"}] :
     \A s, t \in SinkKeys : s.method = t.method /\ f[s] = "untracked" => f[t] = "untracked"}

Values ==
  [plan |-> BOOLEAN, today |-> 1..Days,
   known |-> BOOLEAN, report |-> BOOLEAN, rows |-> {<<>>, <<FALSE>>, <<TRUE>>, <<TRUE, FALSE>>},
   aim |-> {<<>>} \cup {<<s>> : s \in SinkKeys}, built |-> SUBSET SinkKeys, priority |-> 1..2,
   manifest |-> {"none", "scaffolded", "awaiting-authoring", "validated"}, binary |-> BOOLEAN,
   candidate |-> {"unharnessed", "scaffolded", "awaiting-authoring", "validated", "fuzzing"},
   flat |-> BOOLEAN, stale |-> BOOLEAN, tried |-> SUBSET ToSet(Ladder), dry |-> BOOLEAN,
   covered |-> SUBSET AllMethods,
   dict |-> {"none", "empty", "good"}, weights |-> BOOLEAN, bits |-> {"none", "bad", "good"},
   codec |-> {"none", "good"},
   status |-> Statuses, close |-> SUBSET SinkKeys, hyps |-> HuntedRows]

\* What the scan of a type depends on, beside what its workers write.
Watched ==
  [fleet_plan |-> {"today"}, triage |-> {"known", "rows"},
   allowlist_build |-> {"aim", "priority"}, harness_author |-> {"manifest", "candidate"},
   frontier_seed |-> {"flat", "stale", "tried", "covered"},
   steering |-> {"flat", "tried", "weights", "status"},
   solver_assist |-> {"flat", "tried", "dry", "covered"},
   vuln_hunt |-> {"covered", "status", "hyps"}, pov_produce |-> {"status", "close", "hyps"}]

\* What the workers of a type write.
Written ==
  [fleet_plan |-> {"plan"}, triage |-> {"report", "rows"}, allowlist_build |-> {"built"},
   harness_author |-> {"manifest", "binary"}, frontier_seed |-> {"covered"},
   steering |-> {"dict", "bits", "codec"}, solver_assist |-> {"covered"},
   vuln_hunt |-> {"hyps"}, pov_produce |-> {"hyps"}]

\* A new file, coverage and rows of findings only grow.
Grown(f, v) ==
  CASE f \in {"covered", "built", "tried"} -> ws[f] \subseteq v
    [] f = "rows"                          -> IsPrefix(ws.rows, v)
    [] f = "today"                         -> v = ws.today + 1
    [] f = "candidate" -> (v = Derived /\ ws.candidate # "fuzzing") \/ v = "fuzzing"
    [] OTHER           -> TRUE

Change(f, v) == Grown(f, v) /\ v # ws[f] /\ ws' = [ws EXCEPT ![f] = v]

-----------------------------------------------------------------------------
(* The ledger *)

Open == {"queued", "running"}

\* since: who has changed the workspace since the job was queued (history).
Entry(gen) == [state |-> "queued", gen |-> gen, since |-> {}]

Touched(l, who) ==
  [id \in DOMAIN l |-> [l[id] EXCEPT !.since = @ \cup {IF id \in who THEN "worker" ELSE "others"}]]

Needed(j) ==
  \/ j.id \notin DOMAIN ledger
  \/ ledger[j.id].state \notin Open /\ ledger[j.id].gen # j.gen

\* Plans of another day are dropped first; the jobs are compared with the ledger
\* as it was read, and the last of two with one id is the one that counts.
Sync ==
  LET dropped == [id \in DOMAIN ledger |->
        IF lane = "fleet_plan" /\ id[2] # ws.today /\ ledger[id].state \in Open
          THEN [ledger[id] EXCEPT !.state = "dropped"] ELSE ledger[id]]
      queued == Picked(Wanted(lane), {j \in ToSet(Wanted(lane)) : Needed(j)})
      ids == {j.id : j \in ToSet(queued)}
      latest(id) == Last(Picked(queued, {j \in ToSet(queued) : j.id = id}))
  IN /\ ledger' = [id \in DOMAIN ledger \cup ids |->
                    IF id \in ids THEN Entry(latest(id).gen) ELSE dropped[id]]
     /\ UNCHANGED <<lane, ws, changes>>

\* A worker of the job writes one of its files.  The rows of others stay: it
\* may refute its own hypothesis or append a refutation.
Deliver(id) ==
  /\ ledger[id].state = "queued"
  /\ \/ /\ lane # "pov_produce"
        /\ \E f \in Written[lane] : \E v \in Values[f] : Change(f, v)
     \/ /\ lane = "pov_produce"
        /\ \/ \E i \in DOMAIN ws.hyps :
                ws.hyps[i].id = id[2] /\ ws' = [ws EXCEPT !.hyps[i].state = "refuted"]
           \/ /\ \A i \in DOMAIN ws.hyps : ws.hyps[i].state # "refuted"
              /\ \E other \in {"R1", id[2]}, lead \in Leads :
                   ws' = [ws EXCEPT !.hyps = Append(@, Hypothesis(other, lead, "refuted"))]
  /\ ledger' = Touched(ledger, {id})
  /\ UNCHANGED <<lane, changes>>

\* Rounds, sessions and other workers change what the scan looks at.
OthersChange ==
  /\ changes < Changes /\ changes' = changes + 1
  /\ \E f \in Watched[lane] : \E v \in Values[f] : Change(f, v)
  /\ ledger' = Touched(ledger, {})
  /\ UNCHANGED lane

\* The predicates.
FleetPlanDone == ws.plan
TriageDone == ws.report /\ TRUE \in ToSet(ws.rows)
AllowlistBuildDone(id) == ledger[id].gen[1] \in ws.built
HarnessAuthorDone == ws.manifest = "validated" /\ ws.binary
CoverageFlipped(id) == id[2] \in ws.covered
SteeringDone(id) ==
  "good" = CASE id[2] = "dict" -> ws.dict [] id[2] = "bits" -> ws.bits [] id[2] = "codec" -> ws.codec
VulnHuntDone == ws.hyps # <<>> /\ \A h \in ToSet(ws.hyps) : h.state # "bad"

\* found: a verified finding of the target was recorded in time, whoever recorded
\* it (PovPredicate).
PovProduceDone(id, found) ==
  LET own == Picked(ws.hyps, {h \in ToSet(ws.hyps) : h.id = id[2]})
  IN found \/ (own # <<>> /\ Head(own).state = "refuted")

Satisfied(id, found) ==
  CASE lane = "fleet_plan"      -> FleetPlanDone
    [] lane = "triage"          -> TriageDone
    [] lane = "allowlist_build" -> AllowlistBuildDone(id)
    [] lane = "harness_author"  -> HarnessAuthorDone
    [] lane = "steering"        -> SteeringDone(id)
    [] lane = "vuln_hunt"       -> VulnHuntDone
    [] lane = "pov_produce"     -> PovProduceDone(id, found)
    [] lane \in {"frontier_seed", "solver_assist"} -> CoverageFlipped(id)

\* The last attempt of a job is judged.
Settle(id) ==
  /\ ledger[id].state = "queued"
  /\ \E found \in BOOLEAN :
       ledger' = [ledger EXCEPT ![id].state = IF Satisfied(id, found) THEN "done" ELSE "parked"]
  /\ UNCHANGED <<lane, ws, changes>>

JobsInit ==
  /\ lane \in JobTypes
  /\ ws = [plan |-> FALSE, today |-> 1, known |-> TRUE, report |-> FALSE, rows |-> <<>>,
           aim |-> <<>>, built |-> {}, priority |-> 2, manifest |-> "none", binary |-> FALSE,
           candidate |-> "unharnessed", flat |-> FALSE, stale |-> FALSE, tried |-> {},
           dry |-> FALSE, covered |-> {}, dict |-> "none", weights |-> FALSE, bits |-> "none",
           codec |-> "none", status |-> [s \in SinkKeys |-> "untracked"], close |-> {},
           hyps |-> <<>>]
  /\ ledger = <<>> /\ changes = 0

JobsNext ==
  \/ Sync
  \/ \E id \in DOMAIN ledger : Deliver(id) \/ Settle(id)
  \/ OthersChange

JobsSpec == JobsInit /\ [][JobsNext]_jobsVars

-----------------------------------------------------------------------------
(* Properties *)

\* A settled job is queued again only if the workspace has changed since it was
\* queued ("same evidence", sync_jobs).
ReopensOnlyOnChange ==
  [][\A id \in DOMAIN ledger :
       ledger[id].state \in {"done", "parked", "dropped"} /\ ledger'[id].state = "queued"
         => ledger[id].since # {}]_jobsVars

\* A job whose work was accepted is not wanted with another gen because of what
\* its own worker left: nothing but somebody else's change opens it again
\* ("never state the job itself flips", _want_vuln_hunt, and the same rule for
\* every scan).
PassedStaysClosed ==
  \A id \in DOMAIN ledger :
    ledger[id].state = "done" /\ "others" \notin ledger[id].since
      => \A j \in ToSet(Wanted(lane)) : j.id = id => j.gen = ledger[id].gen

=============================================================================
