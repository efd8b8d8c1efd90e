# A verification project for agentic-fuzz-engine

agentic-fuzz-engine runs fuzzing campaigns over a workspace of targets: a
deterministic engine keeps ledgers of campaigns, crashes, findings and work to
be done, and bounded headless workers take that work on.  This directory holds
TLA+ modules of the parts whose correctness depends on the order of events,
TLC configurations that check them on small instances, and TLAPS proofs of
their main invariants for any instance.

Paths below are relative to the repository; `engine/` stands for
`src/agentic_fuzz_engine/` and `dispatcher/` for
`tools/dispatcher/fleet_dispatcher/`.

## 1. The system

Almost every command is a process of its own that reads files of the
workspace, decides, writes files and exits.  There are no locks.  Several
commands may be at work at once: the interactive session, campaign rounds, the
fleet dispatcher with its threads, and the workers it spawns, which call the
engine themselves.  What is hard is therefore the same everywhere: a decision
made on a file that has changed since, a read-modify-write of a whole file, two
appends that belong together, a process that dies between two writes.

| Component | State | Operations | What makes it correct |
|---|---|---|---|
| Fleet job ledger, `engine/jobs.py` | `data/jobs.jsonl`, an append-only log; a job is the fold of its events | `sync` (drop stale plans, open wanted jobs under caps), `update` (transition; a failure is followed by requeue or park), `list`, `report` | attempts are consumed by counted failures only and never exceed the policy; no job sticks; settled jobs reopen on new evidence only |
| Job predicates, `engine/job_predicates.py` | none; appends its verdict to the job | one predicate per job type | a job passes for work done in its own attempt |
| Fleet dispatcher, `dispatcher/` | `data/fleet-spend.json`; one process with a thread pool | select a wave, run a job per thread, record its cost, classify, sync | daily cap, solo plans, build slots, a clean end |
| Campaign rounds, `engine/campaign_rounds.py`, `crash_intake.py` | `work/<t>/rounds.jsonl`, seeds, run directories | fuzz and solver lanes, intake, dedupe, checkpoint, metrics, transitions, GC | one metrics line per round; each new crash imported once; candidate follows the round |
| Known crashes, `engine/known_crashes.py` | `known-crashes.json`, quarantine | load, record, probe and partition, prune | no signature lost; unknown crashes never suppressed |
| Candidate ledger and plateau, `engine/campaign_metrics.py` | `data/candidates.jsonl` | append, transition (check then append), sync, plateau status | confirmed and dead candidates do not regress |
| Directed queue, `engine/directed.py` | one JSON file rewritten whole | sync, tick, flag, complete, build | one active task per target; completed work stays completed |
| Sink status, `engine/sink_status.py` | `sink-status.json` | update from coverage and findings | status only grows |
| Garbage collection, `engine/gc.py` | corpus, control file of a merge, archive | resumable merge and swap, archive then delete | no unit lost; recovery after a crash at any step |
| Findings, `engine/state.py`, `finding_lifecycle.py`, `findings_index.py`, `dedupe.py` | `findings.jsonl`, `events.jsonl`, index mirror | record behind a verification gate, mirror, fold, audit | a verified finding has an engine-made verification event |
| Managed persistence, `engine/managed_persistence.py` | files of the workspace | append with fsync, atomic replace, tolerant read | a torn tail costs the line that was cut and the one appended to it, no more |
| Campaign index and scheduler, `engine/campaign_db.py`, `scheduler.py` | an SQLite cache of all ledgers | rebuild and promote, status, schedule | never reported fresh when a write is missing |
| Concolic sync and crossover | seen markers, solutions | sync a corpus, extract and apply patches | every unit tried; applying an extracted patch gives the child |
| PoV minimisation, `engine/minimization.py` | none | cut blocks while the crash keeps its signal | the result crashes and needs each of its bytes |
| Full campaign and audits, `engine/full_campaign.py`, `completion_audit.py`, `phase_audit.py`, `export.py` | `events.jsonl`, `checkpoints.jsonl` and `findings.jsonl` of a run | a script of tool calls, checkpoints of phases, receipts, the completion audit | a campaign closes if it has what it is for, and only then |
| Weighted corpus, `engine/seed_weights.py` | coverage index of a corpus in two files, weights, a directory of links to the best units | index new units, rank, focus, link back | the index is the corpus's, whatever was killed between its two files |
| Candidate scoring, `engine/candidate_scoring.py` | one file per judgment, under a lock | record a judgment, refuse a second one, rank | no two judgments of one revision under one policy |
| Bounded commands, `engine/process_safety.py` | none | run a command under a time limit, end its process group | nothing of a command outlives its call |
| Execution backends, `engine/runtime_backends.py` | directories of a run | symbolic run in a container and harvest of its tests; copy of the sources with a patch applied | an environment holds what was asked for; a reported run was harvested |
| Sanitizer variants, `engine/sanitizer_variants.py` | dependency trees, exemplars | build and publish a dependency, sweep a corpus | what is linked is whole; a report is what was seen |
| Owned builds, `engine/oss_fuzz_build.py` | directories shared by calls of a project | copy sources, build, replay proofs, record findings | a proof is recorded of the build it was replayed on |
| Codec, `engine/codec.py` | staging directory, probe, status | validate a script, decode with it | a decode that counts as validated was made by a version a validation accepted |
| Differential runs, `engine/differential.py` | exemplars | replay a corpus on several implementations | what is listed as a divergence replays as one; the counts of a report add up |
| Packs, `engine/harness_gen.py` | files of a pack, one config for all targets | publish as a group or put everything back | together or not at all |
| Inventories and frontier, `engine/sink_scan.py`, `entry_scan.py`, `fork_inventory.py`, `sink_coverage.py` | tables of sinks; sample directory; `sink-status.json` | scan, merge; replay for coverage and fold into the status | curated rows survive; a sink's status never goes back |

The rest (configuration, crash parsing, authoring aids, most tool handlers)
turns arguments into command lines or text into reports and keeps no protocol
between steps; `PROJECT.json` lists every part with its files and the reason it
is left out.  `PROJECT.json` also lists the hazards, each at its line, with the
property that would catch it.

How the components of the fleet interact: `dispatch` reads the queue through
`jobs list` and the spend file, and starts threads.  A thread calls `jobs
list`, `jobs update --state running`, spawns a worker, waits for it or kills it
after its wall time, adds the worker's cost to the spend file, runs `jobs
predicate` unless the failure was the infrastructure's or the worker said it
is blocked, and calls `jobs update` with the outcome.  After a wave the loop
calls `jobs sync`.  Sessions may run any of these commands meanwhile.

## 2. Modules

### JobLedger

`ledger` is the fold of `data/jobs.jsonl`: state, attempt and `gen` of each
job.  A runner (`worker[w]`) goes through `run_job`: `Check` (get_job and the
early return), `Refuse` (no playbook), `Claim` (the running event, appended
without another look), `Judge` (classification, and the fold at the top of
`jobs_update`, whose attempt it keeps), `Report` (first append), `FollowUp`
(second append), and may `Abandon` its job anywhere.  Any number of runners
may race for a job.  A syncer reads once (`SyncRead`) and appends its events
one at a time (`SyncAppend`), so anything may happen in between, and may be
cut off (`SyncCut`).  `Admitted` is the admission rule of `sync_jobs` with its
two caps, written as a set instead of a loop.  `EvidenceChanges` stands for
all scans of the workspace: a job's evidence hash may become any other.  A
`fleet_plan` job belongs to one day (`PlanDay`), and only that day's evidence
calls for it.

`lost` and `charged` are history variables.  They record which jobs were last
written by a process that died before finishing with them, and how many
failures were meant to count.

### SpendLedger

`_record_spend` by several threads of one process: read, open the one
temporary file, write it, rename it.  File contents are sets of bills.  A file
that two threads wrote over each other may not parse.  `fd` follows what a
thread's open file has become after somebody else's rename, since a later
write may land in the ledger itself.  `issued` and `overlapped` are history.

### FleetDispatcher

Composes the two (EXTENDS both): thread j is runner j of JobLedger and spender
j of SpendLedger, and the dispatch loop is the one syncer.  Every step of the
fleet is a step of those modules under a guard of the loop, or of the loop
itself.  `Selection` is `select_wave`: nothing at or over the cap, a plan
alone, otherwise a pass over the queue in priority order that passes over what
does not fit.  The pass is written without recursion, as the one set of jobs
(`Picked`) that takes a row just if it `Fits` after the rows taken before it;
`Selection` is the set that has this wave as its element.  Sums are counted
dollar by dollar (`Total`), so that the library's theorems about cardinalities
apply to them.  `Rank` tells any two jobs apart, as the id does that
`queued_jobs` sorts by last.  A worker's cost is taken to be at most its `max_usd` (the
worker is started with that limit); the bill is counted at `max_usd`, the
worst case.  `Crash` kills the dispatcher with all threads; `ThreadRaises` is
a ledger command that times out; `RecordingFails` is the rename that raises.

### JobLifecycle

The abstract promise about one job id: phases, attempts and the cause it was
opened for.  It names the one exception the code really has: a job cut off
between a failure and its follow-up may be opened afresh.  FleetDispatcher
implements it (`KeepsLifecycle`, mapping queued and running to "open").

### PovPredicate

How `pov_produce` jobs of one target are judged.  Findings have times, a job
has the time of its last event, and the worker itself runs the predicate,
which is one more event of its job.  `claimedAt` is history.

### WantedJobs

What JobLedger leaves free: which jobs the workspace of one target calls for,
with which evidence, and when their work is accepted.  `ws` is a record of what
the scans and predicates look at; each `Want...` is a scan of `jobs.py` and each
`...Done` a predicate.  A `gen` is the evidence of which the code stores a hash.
`Sync` compares what is wanted with the ledger, `Deliver` is a file the worker of
a job writes, `OthersChange` anything else that changes the workspace, `Settle`
the verdict after the last attempt.  A behaviour asks for the jobs of one type
(`lane`), as `jobs sync --type` does, because the types share no id.  `since`,
who has changed the workspace since a job was queued, is history.  Here one id
may be wanted with several gens at a time; JobLedger assumes one.

### FullCampaign

The script of `run_owned_local_full_campaign` on one run: `script` is what it has
still to append or to call, a step at a time, and `StartScript`, `ReplayProof`,
`Choose`, `SubmitPov` and `Audit` decide what comes next.  `ScriptDies` may come
anywhere, and the script be started again on the same run.  `run` is what the
audits make of the append-only files: of each phase whether its last checkpoint
is older than its last event, the findings with their evidence, who has
recorded since the last grouping, receipts, agents.  `Complete` is the
completion audit with its gates.  A session does one piece of `Work` beside it,
and may leave it half done.

### CorpusStore

The seeds directory of one target.  `dir` is the part of the work directory
that matters: `seeds`, the staging directory of a merge (`new`) and the corpus
it replaces (`old`), each a set of units; `control` and `listed` are the
fuzzer's merge control file, `young` is what `merge.meta` makes of modification
times, `seen` the markers of the concolic lane.  A campaign imports authored
seeds (`StartCampaign`, `PublishSeed`), its lanes add units (`LaneWrites`), the
concolic lane marks and then runs what it has not seen (`SyncBegin`,
`SyncMark`, `SyncSolve`, `SyncEnd`).  A collection is one action per change of
the disk: `GcBegin`, `Stage`, `Stamp`, a merge that ends in one of three ways
(`MergeDone`, `MergePartial`, `MergeFails`), `Preserve` unit by unit, the swap
(`DropOld`, `Retire`, `Promote`) and the clean-up (`ForgetControl`,
`ForgetMeta`, `ForgetMarkers`).  `Crash` may come anywhere; `OthersWrite` and
`LinkBack` are other processes.  `kept` and `explored` are history.

### Crossover

What a crossover patch is and does: `Solutions` (extract_solution) and
`Applied` (apply_solution), on sequences of bytes.  An operator whose code may
return None gives a set of at most one element.  The actions are those of the
lane: a solution of a unit and its solved child enters the window of the newest
ones (`Learn`), a pass takes a unit (`TakeUnit`) and makes of it one unit after
the other (`ApplyOne`), each the base of the next.  `made` is history.

### DirectedQueue

`task` is the queue file of one target.  Every command is a load that computes
what it will write (`copy`) and a `Commit` of it, so any number of others may
write in between; `stale` records whose copy is outdated.  `Ticked`, `Synced`,
`Flagged` and `Completed` are tick_budget, sync_queue, flag and complete as
functions of the queue.  The campaign (`Loop`) measures, syncs on a plateau
and ticks once a round; `NextCampaign` counts rounds from 1 again.  `Rescan`
makes sinks appear and vanish; `Measure` moves them up only, which is all of
sink_status.py that the queue can tell.

### Plateau and CampaignRound

`Plateau` has the assessment of `rounds.jsonl` as functions of its lines; its
two loops are recursive functions over the places of the list.
`CampaignRound` runs campaigns on one target beside each other: `Start` and
`Begin`, `Intake` (suppress by one probe against the signatures known when the
round began, verify the rest, note what is new), `RecordRead` and `RecordWrite`
(record_known, one signature at a time), `Assess`, the transitions of the
candidate as a check and an append (`Transitions`), `EndRound`, `Abort`, and
`Interrupt`, which leaves the line of the round or does not.  An operator
(`Order`) and candidates-sync (`SyncRead`, `SyncAppend`) write the same ledger.

### Records and CampaignIndex

`Records` has the files of runs: the ledger of findings, the events, the index
and the archives.  A clerk is a process in which the engine handles a call; a
call is a sequence of appends (`LogVerdict`, `LogReplay`, `RecordLine`,
`Announce`, `Mirror`) that may stop after any of them (`Abandon`).  `Claim` is
a caller's finding_record with its gate.  `DedupeRead` and `DedupeLog` are
finding_dedupe; `AuditOk` is what audit_finding_lifecycle asks.  Retention
copies, installs the archive and deletes (`GcCopy`, `GcInstall`, `GcDelete`).

`CampaignIndex` extends it with rebuilds of the SQLite index by several
processes (fingerprint, rows, documents, promotion) and the schedule: `Rank`
opens the database anew, `WriteSchedule` stores what it found under the
fingerprint of the rebuild, `RanksUsed` is the test of schedule_list.

### Minimization

The reduction loop of minimize_pov_artifact: `reduction` has its locals,
`crashing` the variants that keep the signal.  An action is an iteration of the
inner loop (`TryBlock`) or the end of a pass (`EndPass`).

### SeedWeights

The index of one corpus: `rows`, `length` and `torn` are `seed-cov.jsonl`,
`listed` is `seed-cov-state.json`, which is written after it.  A round goes
through `Prepare` (or `Unready`), the `Fuzz` lanes and `MergeBack`; an update
through `Invalidate`, `Index` (one unit), `AppendLines`, `Compact`, `Save`,
`RankUnits`.  `Kill` may come anywhere, `Collect` renames units between rounds,
`Arrive` and `Reword` are other processes.  `cut` is history, the listed names
that a kill has cost their line: one appended to a torn line, those of a
vocabulary an update had begun to replace, and those of units that are gone
when a compaction has dropped their lines and the names are not yet saved.  The
last two fields of `update` say which names these will be.

### CandidateScores

A session decides on a judgment (`Decide`), takes the lock of the directory,
looks for a judgment of the same revision under the same policy and repeats,
refuses or stores (`Repeat`, `Refuse`, `Accept`, `Store`).  `Die` releases the
lock; `EditPolicy` and `Damage` are people at work on the files.

### BoundedRun and KleeRun

`BoundedRun` is one call of `bounded_run`: processes that `Fork`, `Leave` the
group and exit, some of them deaf to the first signal, and a `waiter` that goes
through wait, grace and kill.  `KleeRun` runs several symbolic executions that
share a directory of tests; the container (`box`) goes on when its client has
ended, tests get their number when they are opened and their time when they are
finished, and a call takes over what is new enough, a file at a time.  The
extraction loses tests in ways that are no blocker of the run: only so many
files are looked at (`crowded`), only so many bytes are read (`spent`), files
and inputs that are too large, malformed or beyond the limits of the seeds are
counted as rejected (`rejected`), and a directory that is missing or has changed
is a blocker of the extraction alone (`ListFails`, `blocked`).  `ExtractedAll`
says that the report of the extraction has none of the last three.

### PatchPool

Sessions that prepare patch environments: a cache directory that counts as
there as soon as it exists (`MakeCache`, `CopyFile`, `CacheExists`), the
environment made from it, the patch.  `excuse` is history: sessions whose
sources or environment somebody disturbed.

### VariantDeps and SanitizerSweep

`VariantDeps` copies, builds and renames a dependency into place, with the
withdrawal of what was published if a later step fails (`Unpublish`).
`SanitizerSweep` replays inputs, groups reports by signature and keeps
exemplars in a directory all sweeps share.

### OwnedBuild

Calls that copy the sources, build an image and the fuzzers, choose a directory
of fuzzers and replay proofs on them.  `together` is history: calls that ran
beside another.

### CodecGate and DifferentialRun

A codec call takes a digest, stages its inputs, has a child load the script and
judges what the child reports.  A validation stages at most `MaxSamples` units;
which ones are the newest is left open, so it may be any.  `accepted` is
history: the files, and whether its probe was replayed, of the validation behind
a positive status; `alone` says of a validation that no other ran beside it.
`Returned` is what a decode answers: one that finds the status outdated is
blocked, and returns its files and `validated` all the same.

A differential call reads each input once for every replay and once more for the
exemplar, while the corpus changes.  `Resolve` is the auto mode, which needs two
implementations; `Explicit` takes the commands of the caller, and with one of
them lists what it crashes on (the "self-check").  Exemplars are limited in files
and in bytes (`Fitting`), and the report shows the most severe divergences up to
`TopCap`.

### PackPublish, SinkInventory and SinkFrontier

`PackPublish` has the group of files set aside, replaced and put back
(`crossed`: calls beside another).  `SinkInventory` has scans that replace an
inventory as a whole, merges of several, and people who curate rows (`outrun`:
merges whose inputs changed meanwhile).  `SinkFrontier` is the pass of a
plateaued round over a shared sample directory, with `sink-status.json` loaded
and saved in two steps (`lapped`: campaigns whose copy was outdated).

### MCTargetWork, MCRounds and MCTools

PovPredicate, WantedJobs, CorpusStore, FullCampaign, Minimization and Crossover
share no state, so one run checks all six: the variable `system` says which one
a behaviour is of, and
the others stay in their initial states.  `WorkView` leaves those out of the
fingerprint.  `MCRounds` joins CampaignRound and DirectedQueue in the same way
(`half`), `MCTools` the thirteen modules of tools (`part`, `ToolsView`).

## 3. Runs

| Run | Shows |
|---|---|
| `ledger` (pass) | `StuckMeansAbandoned`, `OnlyFailuresConsumeAttempts` with racing runners, stale syncs and deaths |
| `ledger_reopen` (violation of `ReopensOnlyOnNewEvidence`) | see findings |
| `fleet` (pass) | `ExactUnlessOverlapped`, and that every dispatch ends (`DispatchTerminates`), with two jobs side by side |
| `fleet_days` (pass) | `BrakeHolds` and the refinement `KeepsLifecycle`, across midnight and one fault |
| `fleet_cap` (violation of `DailyCapHonoured`) | see findings |
| `pov_credit` (violation of `OwnFindingIsCredited`) | see findings |
| `work` (pass) | of the pov_produce jobs `CreditIsFresh`; of the corpus `CoverageKept`: no step or crash of a collection loses coverage, `SkippedOnlyByCrash`; of the jobs of every type `PassedStaysClosed`: what a worker leaves does not open its own accepted job; of the full campaign `ClosesWhenEarned`; of the reduction `ReducedIsMinimal`, for every set of crashing variants; of the crossover `SolutionTransfers`, for all short units |
| `jobs_reopen` (violation of `ReopensOnlyOnChange`) | see findings |
| `rounds` (pass) | of the rounds `SuppressedWasFound`, `FoundIsKnown`, `FoundIsConfirmed`, `ConfirmedStays`, and `FoldsMeanWhatTheySay` for all short series; of the directed queue `OneActive`, `FrontierWithinCap`, `ClosedUnlessOverlapped`, `RotatesAfterTick` |
| `rounds_fork` (violation of `GrowthIsNotPlateau`) | see findings |
| `records` (pass) | `NothingLost`, `VerifiedHasEvidence`, `AuditedIsGrouped` of the run directories, `FreshIsCurrent`, `RanksAreCurrent` of the index |
| `tools` (pass) | `IndexIsCurrent`, `OneJudgment`, `NothingOutlivesTheCall`, `ReportedIsHarvested`, `ReadyIsPatchedSource`, `PublishedStays`, `ReportIsWhatWasSeen`, `FoundOnOwnBuild`, `DecodedByValidated`, `DivergencesReplay`, `TogetherOrNotAtAll`, `CurationSurvives`, `NeverDemoted`, each of the tool named by its module |

The type invariants are proved (section 4) where a module has proofs, and were
checked by TLC while the modules were written.

Bounds, and why they are enough:

- `ledger`: a job of the workspace and a plan, two interchangeable runners, one
  syncer, two days, two attempts, two counted failures, one evidence hash
  besides "not wanted".  Two runners are enough for a stale read between
  another's read and append; two attempts for a retry and a park; two failures
  for each of them to be doubly reported.  The properties checked there compare
  no hashes, so one is enough.
- `fleet`: two jobs with types of their own, one a build, on one day, so that both
  run in one wave; a cap of 3 and costs of 2 and 1, one job able to bill
  twice, so that the cap is reached exactly and a third bill would break it.
  No faults: liveness and the clean end are about a dispatcher left alone.
- `fleet_days`: two jobs of one type competing for one open slot, the plan of
  day 2, costs 2, 1, 2 against a cap of 3 so that a plan may carry a day over
  the cap; one fault (crash, timeout or missing cost) at any moment.
- `work`, pov_produce jobs: two hypotheses tried twice each and clock readings
  up to 3 (4 in `pov_credit`), where time may stand still between events; the shortest run that could credit an old
  finding needs three.
- `work`, reduction: an artifact of four bytes (`Size`), enough for a block of
  two, a step back and a repeated pass, under each of the 32768 ways its variants
  can crash; 12 attempts (`AttemptLimit`) are enough for most of them, and not
  for all.
- `work`, corpus: three units whose coverage overlaps so that a merge may keep either
  of two, one of them authored; one process may die; a collection begins when
  there are more units than one; slices link back one of the units (`Linked`).
  The number of collections, campaigns and
  passes is not bounded.
- `work`, crossover: units of up to three bytes of two values (`Blobs`), with
  patches of two and tails of two, make every limit bite; the window of the
  newest solutions holds one (`MaxSolutions`), so that the second replaces the
  first while its units are still in the corpus.  Passes are not bounded.
- `work`, jobs: two sinks in two functions, a ladder of three rungs with each
  kind the scans ask for, coverage reports of two sinks, two days, and three
  changes by others, which is what it takes until every scan wants a job (a
  plateau, a tried rung and a dry solver for `solver_assist`).  Workers and
  syncs are not bounded.
- `jobs_reopen`: two sinks in one function.
- `work`, full campaign: two benchmark proofs and a crash the fuzzer found, in
  two worlds: three PoVs of one bug, the later ones better, or the fuzzer's
  crash a poorer PoV of the first bug.  Two starts, so that one execution meets
  what another left, and one piece of work by a session, which may be blocked in
  one of three phases (`Halted`): one that is never handed over otherwise and
  two that the script hands over.  With these a campaign is seen to close on
  the second start, with a patch, with only the second proof replayed, and to
  stay blocked although all is verified.  A campaign that is through with its
  starts stops, so deadlock is not checked.
- `rounds`: two campaigns, two signatures, three rounds, one interruption, one
  update by an operator; a target that is new or one that was flat before, so
  that a plateau comes within reach.  Campaigns and signatures are
  interchangeable (symmetry).  The series are all those of up to five values.
  In the directed queue, two sinks that compete for one slot of the frontier,
  the campaign and one session, a budget of two rounds and two rounds a campaign,
  a decay that reaches the floor in one step; the number of campaigns and
  commands is not bounded.  A behaviour of the rounds ends when they are used
  up, so deadlock is not checked.
- `rounds_fork`: one campaign, without interruption; one signature, a feature
  count of 4 and sizes from 1 to 3.
- `records`: one run directory, two interchangeable clerks, builders and
  signatures.  The initial state chooses one of four budgets (`MCBudgets`) of
  calls, replays, dedupes, failures, prunes, rebuilds and rewritten documents; three rebuilds
  are what it takes for an old one to slip between a rebuild and its ranking and
  a third to make the result pass for fresh.  The run ends when the budget is
  used up, so deadlock is not checked.
- `tools`: two of everything that can get in each other's way: two units under
  two vocabularies, two recorders under two policies, two preparers of one patch
  and one file, two symbolic runs that make two tests, of which a call looks at one, two builds of
  a dependency of two files, two sweeps that share one place for an exemplar,
  a validation of one of two samples beside a decode of one file, under two
  versions of the script, two implementations, alone or compared, two inputs,
  room for exemplars of two files or two bytes and for one divergence in the
  report, two owned builds, two packs in one config, scans and merges of two
  rows, two campaigns at the frontier with a sample of one unit.  A bounded
  command has three children, of which one leaves the group and one, like the
  leader, ignores the first signal.  What others do is bounded: one edit of the
  sources, one of a dependency, three changes of the corpus, two of the scanned
  source, three passes of the frontier.  With one validation at a time the
  proviso `alone` of `DecodedByValidated` never bites here; the theorem covers
  any number of them.  Calls end, so deadlock is not checked.
- `MaxCharges`, `MaxFaults`, `LastDay`, `LastTime`, `MaxCrashes`, `Rounds`,
  `MaxRounds`, `MaxInterrupts`, `MaxOrders`, `Budgets`, `Linked`, `Changes`,
  `Days`, `MaxStarts`, `MaxSessions`, `Halted`, `MaxEdits`, `DepEdits`,
  `SourceEdits`, `HarnessEdits`, `CorpusEdits`, `SourceChanges`, `MadeBound`,
  `TimeBound`, `FrontierCalls`, `MaxStored` and the set `Bill` are bounds of the instances only; the proofs do not depend on their values.

`FoldsMeanWhatTheySay` is about pure functions and stated in `MCRounds` as
`Init => ...`: TLC evaluates it once, in the initial states.

Some properties have a proviso that history variables make precise (no two
recordings overlapped, no campaign was interrupted, an append came after an
outdated check).  What happens without the proviso is not guesswork: each of
them was also tried without, and fails.

Each property of a passing run has a mutant in `PROJECT.json`: a definition
changed the way a plausible bug would change it (an infra failure that
consumes or refunds an attempt, parking dropped or late, `>` for `>=` at the
cap, an admitted job not counted, the wave not joined, a recording that forgets
what it read, a partial merge swapped in, a control file forgotten too early, a
confirmed candidate not spared, a run deleted before its archive is there, a
result that is part of its own trigger, a phase handed over before its last
tool), and
the run then finds the property violated.

Fairness: `DispatchTerminates` assumes weak fairness of the dispatch loop and
of each thread.  The code justifies both: threads of the pool are scheduled by
the operating system, a worker is killed after `wall_seconds`, and every engine
command runs under a timeout of 600 s.  Nobody is assumed to start a dispatch,
to sync, to change the workspace, or to fail; those have no fairness.  The other
runs check safety only and assume no fairness: a command that stops is one of
their behaviours.

### Findings

- A parked job can reopen without new evidence.  `jobs_update` appends
  "failed" and then "parked"; a sync that read between the two takes the job
  for unsettled and queues it again after it was parked
  (`engine/jobs.py:12-14` against 192-196 and 647-656).
- The daily cap can be passed.  Threads of a wave update the spend file without
  a lock (`dispatcher/runner.py:246-261`); a lost cost lets later waves launch
  more than the cap allows (`dispatcher/governor.py:23`: "honoring every
  brake").  `BrakeHolds` is what is true: the brake holds until two
  recordings overlap.
- A worker that does as it is told can fail its job.  The predicate takes the
  time of the job's last event for the time it was queued
  (`engine/job_predicates.py:318-323`), and running the predicate is an event.
- Fork mode can make a growing target look plateaued.  Its rounds have no
  feature count, and the assessment falls back to the corpus size line by line
  (`engine/campaign_metrics.py:129`), so sizes are compared with the feature
  counts of earlier rounds (`engine/campaign_rounds.py:349-351`: "tolerates by
  falling back to corpus_size").
- A settled job can reopen at every sync.  Two reached sinks of one function
  want two jobs of one id with different evidence (`engine/jobs.py:572-581`);
  each is compared with the ledger as it was read, and the last one appended
  counts, so the next sync finds the first to differ ("same evidence — do not
  reopen", `engine/jobs.py:193`).

### Observations

What the provisos of passing properties stand for, and what modelling showed
beside them:

- `engine/scheduler.py:282-305`: the schedule gets the fingerprint of the
  rebuild and the ranks of whatever database is there afterwards.  Two rebuilds
  that overlap and a third one make ranks of old sources pass for fresh
  (proviso `overtaken` of `RanksAreCurrent`).
- `engine/seed_weights.py:567`: units linked back from a slice keep an older
  modification time; a merge over several passes neither lists nor preserves
  them (`LinkBack`, left out of `kept`).
- `engine/seed_weights.py:384-390`: the index is compacted before the names are
  saved.  After a kill in between, a unit the corpus had lost and gets back under
  its old name is still listed and has no line; no update replays it again
  (`cut` in `IndexIsCurrent`, a conjunct of its own in `Kill`).
- `engine/codec.py:362-374`: a decode that finds the status outdated is blocked,
  and its answer still says `validated: true`, with the files.  The decode counts
  for `DecodedByValidated` only without a blocker.
- `engine/runtime_backends.py:677-687, 710-733`: blockers of the extraction are
  in its report and not among those of the run, whose `ok` stays true though no
  test was taken; nor do the rejected tests or the spent bytes change it.
- `engine/directed.py:187-188` speaks of rotating to the tail of the queue; the
  round a task was added in counts from 1 in each campaign, so a requeued task
  may come before older ones.  `DESIGN-gap-closure.md:290` and `:297` describe a
  tick that charges only rounds with a directed slice, and a slice on plateaued
  targets; the code charges every round, and the slice does not ask.
- `engine/campaign_rounds.py:685`: the staging directory of an intake is not
  emptied, so a crash that was put aside as known may be imported by a later
  round.
- A kill between the line of a finding and record_known makes later crashes of
  that signature duplicates in that run, so the run does not make it known any
  more (`interrupts` in `FoundIsKnown`).
- The transition to confirmed spares only confirmed candidates, so a new crash
  takes one out of dead or escalated (`KeptByFinding`).
- `engine/gc.py:338`: a run that was made again under an archived name, or whose
  deletion was cut short, is never pruned, because its archive exists.
  `engine/gc.py:306-307`: files over the size limit are left out of the archive
  and the run is deleted all the same ("Retention is deliberately
  fail-closed"); they count as uncopied in `NothingLost`.
- A claim (`finding_record` with `verified` on the evidence of a replay or a
  grade that was not recorded) is accepted without a classification event, and
  the lifecycle audit then blocks the run for good, although
  `engine/finding_lifecycle.py:166-168` says that "a record accepted at the tool
  boundary can never fail the lifecycle audit on evidence grounds" (`Claim`
  and `AuditOk` of Records).
- `engine/full_campaign.py:363-373` hands the export over with "mock PoV and SARIF
  receipts accepted" whatever the receipt says.  If another finding represents
  the group of the first verified proof the PoV is rejected, and the campaign
  cannot close; after a rerun the receipt of an earlier execution is enough.
- Jobs that were given up on are queued again for what their own workers left:
  harness_author by the status candidates-sync derives, triage by the row of the
  newest finding, frontier_seed and solver_assist by the list of uncovered
  sinks.  `PassedStaysClosed` is about accepted work; a harness_author job that
  is done may open again if candidates-sync ran while it was at work (a change
  by others).
- `engine/jobs.py` looks for `targets/c/<t>/workorder.json`, and
  `engine/harness_gen.py` writes it to `.localfuzz/`.  The evidence of
  allowlist_build contains the task's priority, which decays.  The triage brief
  of `dispatcher/prompts.py` calls the report the predicate, which also asks for
  a verified finding; its brief for pov_produce has the worker name a function
  where the predicate compares an `id`.
- A report and an export may be older than the newest finding and the audit
  passes; `engine/export.py:44` and `:93` block on a missing finding_dedupe, but
  the grouping they are handed is computed on the spot.

## 4. Proofs

All proofs hold for every value of the constants that meets the named
assumptions (`JobLedgerAssumption`, `SpendAssumption`, `FleetAssumption`,
`PovAssumption`, `CorpusAssumption`, `DirectedAssumption`, `PlateauAssumption`,
`RoundAssumption`, `ScoresAssumption`, `KleeAssumption`, `DepsAssumption`,
`OwnedAssumption`, `FrontierAssumption`, `PatchAssumption`, `CodecAssumption`,
`InventoryAssumption`, `PackAssumption`, `DifferentialAssumption`,
`SweepAssumption`, `CrossoverAssumption`, `MinimizationAssumption`,
`JobsAssumption`, `CampaignAssumption`): types of the constants; of `FleetAssumption` that a queue is
finite and sorted by a key no two jobs share, of `InventoryAssumption` that no
call has the name of another, and of `SweepAssumption` that the inputs of a
corpus, which are named by their contents, differ.  One theorem,
`AcceptedStaysClosed`, has a hypothesis beside them, `DistinctNames`.

- `JobLedger_proofs`: `TypeCorrect`; `AttemptsAreCharged` and `AttemptsBounded`
  from one inductive invariant `AttemptInv`; `NoJobSticks` from `StuckInv`.
  The two properties about attempts are not inductive as they stand, because a
  runner or a syncer that read the ledger long ago may still write.
  `AttemptInv` says of every event still to be written what the properties say
  of the ledger: what a sync is about to append (`PendingAttempts`) and what a
  runner has read, and that a runner in its follow-up of a counted failure has
  already been charged for it (`RunnerAttempts`).  Charges never decrease, so
  what was true when it was read is still true when it is written.  `StuckInv`
  adds that a sync never has a "running" or "failed" event to write.
- `FleetDispatcher_proofs`, first the spend ledger alone: `SpendTypeCorrect`, and
  `SpendIsExact` from `SoloInv`: while no two recordings have overlapped at most
  one thread records, it read all bills but its own, and the temporary file is
  what its program counter says.
  Then the dispatcher.  `FleetOnJobs` and `FleetOnSpend` show that every step of
  it is a step of JobLedger and of SpendLedger, or leaves them alone, or kills
  the dispatcher; with what a kill does to either ledger (`CrashLedger`,
  `CrashStuck`, `CrashSolo`, ...) the theorems about both carry over:
  `FleetKeepsLedger`, `FleetSpendIsExact`.
  `FleetKeepsLifecycle` is the refinement of JobLifecycle.  It needs what racing
  runners do not have and one dispatcher does, `FleetInv`: a thread works on the
  job it is named after and only during a wave, a job that is claimed is open, a
  follow-up finds its job failed on the attempt it judged (`ThreadInv`), and
  what a sync has decided and not yet appended is still due, because nobody
  else writes to the ledger meanwhile (`LoopInv`).
  `FleetKeepsTheBrake` is `BrakeHolds`, from `WaveInv` (only threads of the wave
  have a worker, and a cost is recorded only with the job claimed) and
  `BrakeInv`: what is billed today and what the wave may still bill fit the cap
  together, or the wave is one plan that started below the cap.  A wave is
  chosen while nobody records, so by `SoloInv` the ledger it is chosen on is the
  true account; `PickedFits` shows by the last job picked that a wave fits its
  budget, and `TotalAdd`, `TotalSubset` compute with sums of costs without an
  induction.
- `TargetWork_proofs` has the systems of MCTargetWork that are not the corpus.
  - `CreditIsEarned`, from the invariant that findings are not from the future
    and that the last event of a running job is no older than its claim, so a
    finding that passes is no older either.
  - `ReductionIsMinimal`, for every artifact, every set of crashing variants and
    every limit, from `ReductionInv`.  That the result is minimal is only seen at
    the end; what holds before is that no byte occurs twice, that the artifact
    at hand crashes, and that a pass of blocks of one byte which has cut nothing
    has found every byte before its offset to be needed (`NeededUpTo`).  The
    block size falls to zero only after such a pass has reached the end.  A cut
    at the last bytes and a block longer than the rest are the cases that
    matter (`CutShape`).
  - `SolutionsTransfer`, for units of any length, from `CrossInv`: each solution
    loaded was extracted from its own pair, and the unit at hand is what one of
    them made of the last.  The cases are those of `Resized`: a child that is
    longer, as long, or shorter, so that a changed byte may be cut off again.
  - `AcceptedStaysClosed`, for every list of sinks in distinct functions, every
    ladder and every type of job, from `JobsInv`: a finished job whose evidence
    nobody else has changed since (`DoneAsWanted`), and likewise a queued one of
    the types that do not look at their own work (`QueuedAsWanted`), is wanted
    with the hash it has, if at all.  `OneOpen` bounds the hypotheses that may
    ask for a PoV.  `DistinctNames` (one sink to a function, and no hypothesis
    named like a function) is needed: without it two wishes have one id, and
    the property is false, as `jobs_reopen` shows.
  - `CampaignClosesWhenEarned`, for any benchmark, any work of sessions and any
    number of starts, from `ScriptInv`.  A campaign is judged at its end by
    what was done all along, some of it by executions that died, so the
    invariant speaks of what is still to come: each of the `Duties` of a closed
    campaign (an agent or a phase to hand over, a trace to leave) is done or
    ahead in the rest of the script (`OnTheWay`), and a line that opens a phase
    again comes before one that hands it over (`WellOrdered`).  At the audit
    nothing is ahead any more, so all is done; what is then still open or
    blocked is a session's.
- `CorpusStore_proofs`: `CollectionKeepsCoverage`, `CorpusIsRestorable` and
  `CorpusTypeCorrect` from `CorpusInv`.  `InPlace` says which directories exist at
  each step of a swap, `Recoverable` that what is not in the corpus can be
  restored by the merge the control file names, `Carried` that what a
  collection has listed and not yet dealt with is either covered by its
  staging directory or still to be preserved.  Coverage is not inductive
  without them, since a collection works on a list that is out of date.
  `SkipsAreCrashes` counts the units marked and not run (`MarkerInv`).
- `DirectedQueue_proofs`: `DirectedTypeCorrect`, `OneActiveTask` and
  `FrontierIsCapped` from `DirectedInv`: every copy that is waiting to be written
  has at most one active task and at most the cap of open ones, as the file
  has, so overwriting the file with an outdated copy does not break either.
  That a sync stays within the cap is shown by the greatest sink it newly
  queued, without an induction.  The action properties `ClosedTasksStayClosed`
  and `TicksRotate` add `CopyInv`: a copy nobody has overtaken is what its
  command makes of the file as it is.
- `CampaignRound_proofs`: `SuppressedCrashWasFound`, `FoundBecomesKnown`,
  `FoundBecomesConfirmed`, `ConfirmationStays` from `RoundInv`.  Its parts say
  that whatever is known, copied or waiting to be recorded was found; that
  without an overlap there is one copy of the file of known crashes and it is up
  to date; that each signature found is known or waits in some campaign, and a
  finding has confirmed the candidate or its campaign is about to; and that a
  status read before a transition is one that may be followed.
  `CountsMeanWhatTheySay` is about the two counts of Plateau, for series of any
  length: the flat count is the distance from the first place of the maximum,
  the streak the number of rounds with known crashes since the last new one.
- `Tools_proofs`, one invariant for each tool: `NothingOutlives` (`BoundedInv`:
  at each place of the waiter who may still be in the group), `NoConflict`
  (`ScoresInv`: one session holds the lock, and one about to write has found no
  other judgment), `PublicationStays` (`DepsInv`: what is staged, published or
  linked is complete), `ReportedTestsHarvested` (`KleeInv`: the container of a
  call that succeeded is gone before the tests are listed, and of a call that saw
  them all, rejected none and has bytes left, what it has not taken it has yet to
  read), `FoundOnOwn` (`OwnedInv`: of a call alone on its
  project, the copied sources and every fuzzer are of its own build),
  `StatusNeverGoesBack` (`FrontierInv`: a copy that is not outdated holds no
  lower status than the file), `ReadyHoldsPatch` (`PatchInv`: a complete cache
  directory is what its key says, and an undisturbed environment is what its
  session made of it), `DecodedByWhatWasValidated` (`CodecInv`: a positive
  status whose validation loaded what it had digested is of a version that passed
  on the files it looked at; a validation with none beside it is the only one, so
  the probe it judges by is its own),
  `IndexStaysCurrent` (`IndexInv`: what an update has listed and not yet saved
  has its line, except the names in `cut` and those the update is about to add to
  it, and a compaction drops the lines of names that are gone only), `MergesKeepRanks` (`MergesInv`: a
  merge has read the inventories it no longer has to read, and holds their best
  ranks), `PublishedTogether` (`PackInv`: of a call alone, the files promoted so
  far are its own, what they replaced is set aside in the same order, and the
  others are as it found them), `ListedReplay` (`DifferentialInv`, for one
  implementation and for several: the verdicts
  gathered on an input are those of its content, no listed input is still to be
  compared, and each input read is in one of the counts), `CountedAsShown`
  (`SweepInv`: the signatures seen of the input at hand are those it showed, no
  later input has shown any, and the inputs counted for a signature, with the
  one whose turn is to come, are as many as showed it).
- `Records_proofs`, for any runs, signatures, processes and rebuilds, without an
  assumption on the budgets: `NeverLost` from `MirroredOrNoted` (a finding is in the index, on its way to it, or
  its copy failed) and `KeptOrNoted` (it is in the ledger, in the archive, or no
  archive holds it).  The second needs what a deletion relies on: everything
  listed in the run is in the copy the collector took or noted as left out, an
  installed archive holds that copy, and none is installed over another.
  `VerifiedIsProven` adds that a call about to append a verified finding has its
  evidence in a log that only grows until the run is deleted (`Backed`).
  `AuditSeesAllGrouped` rests on positions: a line that a grouping did not read
  is appended at a position of the log past that grouping (`GroupingsReadAll`),
  and in a run that passes the audit the last grouping is past all positions.
  `FreshHoldsAll` and `RanksHoldAll` share `IndexInv`: the fingerprint is taken
  before the sources are read and the sources only grow, so what was read lies
  between the fingerprint and the sources as they are (`Within`); where these
  two are equal, it is both.

Only model-checked:

- `DispatchTerminates`: liveness under fairness is out of the prover's reach;
- `FoldsMeanWhatTheySay` as it stands, a statement about series of up to five
  values.  What it says of them is `CountsMeanWhatTheySay` for all series;
- the five violations.

The library's induction theorems take an operator as a parameter, which the
provers at hand cannot instantiate.  Where a recursive function is reasoned about
(the counts of Plateau, the lists that WantedJobs picks from), the induction is a
set of its own: the numbers for which the claim holds contain zero and the
successor of each member, hence all of them (`InductionOverNat` and `NatSet`, from
the well-foundedness of the natural numbers).

## 5. What is not modelled

Of modelled components:

- `load_events` stops after 200,000 lines; the log here has no length.
- `jobs sync --type`, and a session that sets job states by hand in other ways
  than a runner does.
- `run-once` beside a dispatch (JobLedger's second runner covers what it does
  to the ledger; the cap, which it does not ask, is not covered).
- Workers left behind by a killed dispatcher, and what they spend; what a worker
  spends without reporting it; only billed cost counts.
- The time between the two reads of `sync_jobs`, which folds the ledger before
  it scans the workspace: they are one step here.
- A copy torn by a crash while units are preserved; two collections of one
  target at once; another campaign's mkdir between the two renames; a
  collection that never comes because campaigns have fewer rounds than
  `gc_every`.
- Evidence that never changes while the program runs, and more than one target
  whose jobs are wanted; how a predicate finds out what it asks for.
- In a full campaign: the gates for parity, runtime references and fixtures,
  which look at the installation; a rejected patch; files that change while an
  audit reads them one by one; a PoV or a report that is missing as a file.
- `max_tasks_total`, sinks beyond `MAX_TRACKED_SINKS` (they stay as they are),
  the build of a directed binary and its field in the task.
- Counts in known-crashes.json and its shared temporary file; the escalation
  ladder; which candidates a scan selects.
- PoV artifacts and the tail of the events in archives, `MAX_PRUNE_DIRS`,
  deletion of a run directory file by file, index rows of other kinds, the tool
  that classifies without recording.
- The index: documents that return to an earlier content, limits on sources, a
  fingerprint taken file by file (one step here).  The schedule: its age, its
  policy fingerprint, the scores.
- Crossover: the order in which a pass takes units, its budgets, a full disk,
  dictionary tokens.  Minimisation: flaky crashes, which fields of a
  signal are compared.
- Containers of an owned build that outlive their client: a time-out or a kill
  ends the process group of the client (`BuildFails` ends the build), and the
  daemon's container may go on writing into the kept directory.
- A finding without a creation time, which the writer of findings never leaves
  out (`Passes`).
- `sink-status.json.tmp`, which all writers share, and a torn file read as an
  empty table: `SaveStatus` is one step.  The withdrawal of a published
  dependency is one step too (`Unpublish`).
- The cut of a sweep's report to its `top` signatures, and the byte budget of its
  exemplars; sources of a pack that an earlier mapping has staged, and a
  malformed config of packs, which is read as empty.
- The bytes of what a symbolic run or a validation takes: any test may be the last
  there are bytes for.  Which units of a corpus are the newest.
- Seeds published while a merge of the corpus runs, which belong to no list of the
  collection (the units at its start do).
- Overlaps that a history variable excuses.  The properties with such a proviso
  (`ExactUnlessOverlapped`, `FoundIsKnown`, `FoundIsConfirmed`, `ConfirmedStays`,
  `ClosedUnlessOverlapped`, `ReadyIsPatchedSource`, `FoundOnOwnBuild`, `CurationSurvives`,
  `NeverDemoted`, `AuditedIsGrouped`, `RanksAreCurrent`) are about the case in which
  nobody comes in between; that the overlap breaks them is known, and was tried.
- The tools: command lines, images and what a build prints; how output is parsed
  into signatures, verdicts and coverage; scores and their weights; which files
  a scan visits and what it recognises; the wrapper of a pack, always the same;
  a command whose reader threads outlive it (its pipes are closed by force).

Of the repository: the content of evidence, prompts and transcripts, and most of
the 34,000 lines by count.  The command-line front end, argument checks of the
tool surface, the text of generated harnesses, seeds and dictionaries, the
patterns of scans, command lines of builds and of containers, parsers of
sanitizer output and report writers read their input once and return text.
They have no state that another step could see change, and a model of them
would repeat them.  This is why the modules map a part of the lines only, and
nearly all of the places where the order of events matters.

## 6. Plan

Done: JobLedger, JobLifecycle, SpendLedger, FleetDispatcher, PovPredicate, and
after them CorpusStore with Crossover, DirectedQueue, Plateau and CampaignRound,
Records and CampaignIndex, Minimization, WantedJobs and FullCampaign, the
thirteen modules of tools; the proofs of section 4, the fleet's refinement of
JobLifecycle and its daily brake among them.

Of the safety properties the runs check, a theorem states all but the bounded
`FoldsMeanWhatTheySay`.

Worth modelling next: managed persistence (a torn tail and the line appended to
it) as the append that Records and CampaignRound use; a third day for the
fleet, so that a stale plan can be launched.
