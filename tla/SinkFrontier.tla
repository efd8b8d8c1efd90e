------------------------------ MODULE SinkFrontier ------------------------------
(***************************************************************************)
(* The frontier pass of a plateaued round (campaign_rounds._run_frontier): *)
(* the corpus, or a sample of its newest units in a directory that every   *)
(* call shares, is replayed for coverage (sink_coverage.py), and the       *)
(* report is folded into sink-status.json (sink_status.py) without a lock. *)
(* A sink has one row, and the symbolizer may miss any covered function.   *)
(***************************************************************************)
EXTENDS Naturals, Sequences, FiniteSets, FiniteSetsExt, Functions

CONSTANTS
  Tracked,       \* sinks that the inventory may list
  Seeds,         \* contents of units
  Executes,      \* the sinks in whose functions each of them gets
  Frontiers,     \* campaigns on the target
  SampleSize,    \* frontier.coverage_max_inputs
  CloseSample,   \* frontier.close_seed_max_inputs
  TrackedLimit,  \* MAX_TRACKED_SINKS
  FrontierCalls  \* bound: passes, changes of the inventory and findings

ASSUME FrontierAssumption ==
  /\ Executes \in [Seeds -> SUBSET Tracked]
  /\ {SampleSize, CloseSample, TrackedLimit, FrontierCalls} \subseteq Nat

VARIABLES
  listedSinks,   \* the sinks in the inventory
  newestLast,    \* the corpus, by modification time
  sampleDir,     \* the sample directory: none or one set of units
  sinkStatus,    \* sink-status.json: the status and close seeds of tracked sinks
  exploitedSinks,\* sinks in whose function a finding crashed
  frontier,      \* what each campaign is doing
  lapped,        \* history: campaigns whose copy of the status was outdated
  happened

frontierVars ==
  <<listedSinks, newestLast, sampleDir, sinkStatus, exploitedSinks, frontier, lapped, happened>>

NoFrontier ==
  [at |-> "idle", rows |-> {}, sampled |-> FALSE, seen |-> {}, copy |-> <<>>, fresh |-> {}]

StatusOrder == [unreached |-> 0, reached |-> 1, exploited |-> 2]

Newest(n) ==
  LET len == Len(newestLast)
  IN {newestLast[i] : i \in {j \in 1..len : j > len - n}}

Covered(set) == UNION {Executes[u] : u \in set}

FrontierAt(c, stage) == frontier[c].at = stage

FrontierTo(c, stage) == frontier' = [frontier EXCEPT ![c].at = stage]

-----------------------------------------------------------------------------
(* sink_coverage *)

BeginPass(c) ==
  /\ FrontierAt(c, "idle") /\ happened < FrontierCalls
  /\ happened' = happened + 1
  /\ listedSinks # {} /\ newestLast # <<>>
  /\ LET sampled == Len(newestLast) > SampleSize
     IN frontier' = [frontier EXCEPT ![c] =
          [NoFrontier EXCEPT !.at = IF sampled THEN "clear" ELSE "run",
                             !.rows = listedSinks, !.sampled = sampled]]
  /\ UNCHANGED <<listedSinks, newestLast, sampleDir, sinkStatus, exploitedSinks, lapped>>

ClearSample(c) ==
  /\ FrontierAt(c, "clear")
  /\ sampleDir' = {}
  /\ FrontierTo(c, "fill")
  /\ UNCHANGED <<listedSinks, newestLast, sinkStatus, exploitedSinks, lapped, happened>>

FillSample(c) ==
  /\ FrontierAt(c, "fill") /\ sampleDir = {}
  /\ sampleDir' = {Newest(SampleSize)}
  /\ FrontierTo(c, "run")
  /\ UNCHANGED <<listedSinks, newestLast, sinkStatus, exploitedSinks, lapped, happened>>

\* Somebody else has made the directory: mkdir raises, and the round goes on.
FillRaises(c) ==
  /\ FrontierAt(c, "fill") /\ sampleDir # {}
  /\ frontier' = [frontier EXCEPT ![c] = NoFrontier]
  /\ UNCHANGED <<listedSinks, newestLast, sampleDir, sinkStatus, exploitedSinks, lapped, happened>>

\* What is replayed is what is in the directory now, whoever put it there.
Replayed(c) ==
  IF frontier[c].sampled THEN UNION sampleDir ELSE Range(newestLast)

RunCoverage(c) ==
  /\ FrontierAt(c, "run")
  /\ \E seen \in SUBSET Covered(Replayed(c)) \ {{}} :
       frontier' = [frontier EXCEPT ![c].at = "report", ![c].seen = seen]
  /\ UNCHANGED <<listedSinks, newestLast, sampleDir, sinkStatus, exploitedSinks, lapped, happened>>

\* A time-out, a failing exit (the directory is gone, or a unit crashes) or no
\* function in the output: there is no report, and an older one stays.
CoverageFails(c) ==
  /\ FrontierAt(c, "run")
  /\ frontier' = [frontier EXCEPT ![c] = NoFrontier]
  /\ sampleDir' = IF frontier[c].sampled THEN {} ELSE sampleDir
  /\ UNCHANGED <<listedSinks, newestLast, sinkStatus, exploitedSinks, lapped, happened>>

ReportCoverage(c) ==
  /\ FrontierAt(c, "report")
  /\ sampleDir' = IF frontier[c].sampled THEN {} ELSE sampleDir
  /\ FrontierTo(c, "fold")
  /\ UNCHANGED <<listedSinks, newestLast, sinkStatus, exploitedSinks, lapped, happened>>

-----------------------------------------------------------------------------
(* update_sink_status *)

Desired(c, k) ==
  IF k \in exploitedSinks THEN "exploited"
  ELSE IF k \in frontier[c].seen THEN "reached" ELSE "unreached"

\* Mutant: the status follows what this pass has seen.
StatusAfterAnew(current, desired) == desired

\* A status never goes back: coverage of a sample is noisy.
StatusAfter(current, desired) == IF StatusOrder[desired] > StatusOrder[current] THEN desired ELSE current

\* Sinks that are new to a full table are left out.
Admits(table, rows) ==
  {a \in SUBSET (rows \ DOMAIN table) :
     Cardinality(a) = Min({Cardinality(rows \ DOMAIN table),
                           Max({TrackedLimit, Cardinality(DOMAIN table)})
                             - Cardinality(DOMAIN table)})}

NewRow == [status |-> "unreached", seeds |-> {}]

Folded(c, table, added) ==
  [k \in DOMAIN table \cup added |->
     LET row == IF k \in DOMAIN table THEN table[k] ELSE NewRow
     IN IF k \in frontier[c].rows
        THEN [row EXCEPT !.status = StatusAfter(@, Desired(c, k))] ELSE row]

\* Close seeds are looked for once, by the pass that is the first to reach.
LoadStatus(c) ==
  /\ FrontierAt(c, "fold")
  /\ \E added \in Admits(sinkStatus, frontier[c].rows) :
       LET table == Folded(c, sinkStatus, added)
           fresh == {k \in DOMAIN table :
                       /\ table[k].status = "reached"
                       /\ k \in DOMAIN sinkStatus => sinkStatus[k].status # "reached"}
       IN frontier' = [frontier EXCEPT ![c].at = "sample", ![c].copy = table,
                                       ![c].fresh = fresh]
  /\ UNCHANGED <<listedSinks, newestLast, sampleDir, sinkStatus, exploitedSinks, lapped, happened>>

\* The newest units, those that are replayed before the time is up.
CloseSeeds(k, replayed) == {u \in replayed : k \in Executes[u]}

\* Written whole, over whatever others have written since it was loaded.
SaveStatus(c) ==
  /\ FrontierAt(c, "sample")
  /\ \E replayed \in SUBSET Newest(CloseSample) :
       sinkStatus' = [k \in DOMAIN frontier[c].copy |->
         IF k \in frontier[c].fresh
         THEN [frontier[c].copy[k] EXCEPT !.seeds = CloseSeeds(k, replayed)]
         ELSE frontier[c].copy[k]]
  /\ lapped' = (lapped \ {c}) \cup {d \in Frontiers \ {c} : FrontierAt(d, "sample")}
  /\ frontier' = [frontier EXCEPT ![c] = NoFrontier]
  /\ UNCHANGED <<listedSinks, newestLast, sampleDir, exploitedSinks, happened>>

-----------------------------------------------------------------------------
(* What happens beside *)

\* A scan or a merge replaces the inventory: rows move when the source changes.
InventoryChanges ==
  /\ happened < FrontierCalls /\ happened' = happened + 1
  /\ \E rows \in SUBSET Tracked : listedSinks' = rows
  /\ UNCHANGED <<newestLast, sampleDir, sinkStatus, exploitedSinks, frontier, lapped>>

SeedArrives(u) ==
  /\ u \notin Range(newestLast)
  /\ newestLast' = Append(newestLast, u)
  /\ UNCHANGED <<listedSinks, sampleDir, sinkStatus, exploitedSinks, frontier, lapped, happened>>

Exploit(k) ==
  /\ happened < FrontierCalls /\ happened' = happened + 1
  /\ k \notin exploitedSinks /\ exploitedSinks' = exploitedSinks \cup {k}
  /\ UNCHANGED <<listedSinks, newestLast, sampleDir, sinkStatus, frontier, lapped>>

FrontierInit ==
  /\ listedSinks = Tracked /\ newestLast = <<>> /\ sampleDir = {}
  /\ sinkStatus = <<>> /\ exploitedSinks = {}
  /\ frontier = [c \in Frontiers |-> NoFrontier]
  /\ lapped = {} /\ happened = 0

FrontierNext ==
  \/ \E c \in Frontiers :
       \/ BeginPass(c) \/ ClearSample(c) \/ FillSample(c) \/ FillRaises(c)
       \/ RunCoverage(c) \/ CoverageFails(c) \/ ReportCoverage(c)
       \/ LoadStatus(c) \/ SaveStatus(c)
  \/ InventoryChanges
  \/ \E u \in Seeds : SeedArrives(u)
  \/ \E k \in Tracked : Exploit(k)

FrontierSpec == FrontierInit /\ [][FrontierNext]_frontierVars

\* "Transitions never demote": a sink that is tracked stays tracked and its
\* status never goes back, whatever samples see, unless the pass that writes it
\* loaded the table before another pass wrote it (update_sink_status).
NeverDemoted ==
  [][\A c \in Frontiers :
       FrontierAt(c, "sample") /\ c \notin lapped /\ frontier'[c] = NoFrontier =>
       \A k \in DOMAIN sinkStatus :
         k \in DOMAIN sinkStatus' /\
         StatusOrder[sinkStatus'[k].status] >= StatusOrder[sinkStatus[k].status]]_frontierVars

=============================================================================
