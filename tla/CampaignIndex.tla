----------------------------- MODULE CampaignIndex -----------------------------
(***************************************************************************)
(* The database that is rebuilt from the records (campaign_db.py), and the *)
(* schedule that is ranked from the database (scheduler.py), beside the    *)
(* processes that append to the records.  The sources are read one after   *)
(* the other without a lock; a fingerprint of them is stored with the      *)
(* database and again with the schedule, and each is reported fresh while  *)
(* that equals the fingerprint of the live files.                          *)
(***************************************************************************)
EXTENDS Records

CONSTANT Builders   \* processes that rebuild the database

VARIABLES
  document,   \* the version of the documents (directed-queue.json, experiments.json)
  db,         \* campaign.db: its fingerprint and rows, or NoDb
  schedule,   \* schedule.json: its fingerprint, what it was ranked from
  build       \* the rebuild of each process, as far as it got

indexVars == <<document, db, schedule, build>>

NoDb == [print |-> <<>>, rows |-> {}, doc |-> 0]

\* overtaken: the database it was ranked from was built from other sources.
NoSchedule == [print |-> <<>>, from |-> NoDb, overtaken |-> FALSE]

\* ranks: it is a schedule-sync, which ranks what it built.
NoBuild == [at |-> Idle, stage |-> NoDb, ranks |-> FALSE, from |-> NoDb]

\* Mutant: the documents are not part of the fingerprint.
FingerprintOfLogs == <<index>>

\* source_fingerprint: of the contents, so that it differs when they do.
Fingerprint == <<index, document>>

SyncPrint(b) ==
  /\ build[b].at = Idle /\ Spend("syncs")
  /\ \E ranks \in BOOLEAN :
       build' = [build EXCEPT ![b] =
         [NoBuild EXCEPT !.at = "findings", !.ranks = ranks, !.stage.print = Fingerprint]]
  /\ UNCHANGED <<document, db, schedule>>

\* _fold_findings, and after it _fold_auxiliary, which reads the documents.
SyncFindings(b) ==
  /\ build[b].at = "findings"
  /\ build' = [build EXCEPT ![b].at = "documents", ![b].stage.rows = index]
  /\ UNCHANGED <<document, db, schedule, left>>

SyncDocuments(b) ==
  /\ build[b].at = "documents"
  /\ build' = [build EXCEPT ![b].at = "promote", ![b].stage.doc = document]
  /\ UNCHANGED <<document, db, schedule, left>>

\* The file replaces the database as a whole.
SyncPromote(b) ==
  /\ build[b].at = "promote"
  /\ db' = build[b].stage
  /\ build' = [build EXCEPT ![b] =
       IF build[b].ranks THEN [build[b] EXCEPT !.at = "rank"] ELSE NoBuild]
  /\ UNCHANGED <<document, schedule, left>>

\* schedule_sync opens the database anew: it may be another one by now.
Rank(b) ==
  /\ build[b].at = "rank"
  /\ build' = [build EXCEPT ![b].at = "schedule", ![b].from = db]
  /\ UNCHANGED <<document, db, schedule, left>>

WriteSchedule(b) ==
  /\ build[b].at = "schedule"
  /\ schedule' = [print |-> build[b].stage.print, from |-> build[b].from,
                  overtaken |-> build[b].from.print # build[b].stage.print]
  /\ build' = [build EXCEPT ![b] = NoBuild]
  /\ UNCHANGED <<document, db, left>>

\* A source that cannot be read or is malformed, a schedule that cannot be
\* written, a killed process: the old files stay.
SyncFails(b) ==
  /\ build[b].at # Idle
  /\ build' = [build EXCEPT ![b] = NoBuild]
  /\ UNCHANGED <<document, db, schedule, left>>

Rewrite ==
  /\ Spend("rewrites")
  /\ document' = document + 1
  /\ UNCHANGED <<db, schedule, build>>

IndexInit ==
  /\ RecordsInit
  /\ document = 0 /\ db = NoDb /\ schedule = NoSchedule
  /\ build = [b \in Builders |-> NoBuild]

BuilderStep(b) ==
  \/ SyncPrint(b) \/ SyncFindings(b) \/ SyncDocuments(b) \/ SyncPromote(b)
  \/ Rank(b) \/ WriteSchedule(b) \/ SyncFails(b)

IndexNext ==
  \/ RecordsNext /\ UNCHANGED indexVars
  \/ /\ Rewrite \/ \E b \in Builders : BuilderStep(b)
     /\ UNCHANGED <<files, clerk, dedupe, gc, past>>

IndexSpec == IndexInit /\ [][IndexNext]_<<recordsVars, indexVars>>

\* db_status
Fresh == db.print = Fingerprint

\* Mutant: a schedule of the same sources as the database is taken for fresh.
RanksUsedUnlessReplaced ==
  schedule.print # <<>> /\ schedule.print = db.print

\* schedule_list; schedule_ranks gives none from a schedule that is not fresh.
RanksUsed == Fresh /\ schedule.print = db.print

-----------------------------------------------------------------------------
(* Properties *)

\* A database that is reported fresh holds what its sources hold, however the
\* rebuilds interleaved with those who write them and with each other.
FreshIsCurrent == Fresh => db.rows = index /\ db.doc = document

\* Ranks that are given out were made from what the sources hold ("stale or
\* disabled advice is ignored"), unless an older rebuild was promoted between
\* the rebuild of schedule_sync and its look at the database: the schedule then
\* has the fingerprint of the one and the ranks of the other, and passes for
\* fresh as soon as the database is rebuilt.
RanksAreCurrent ==
  RanksUsed /\ ~schedule.overtaken
    => schedule.from.rows = index /\ schedule.from.doc = document

=============================================================================
