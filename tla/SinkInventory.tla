----------------------------- MODULE SinkInventory -----------------------------
(***************************************************************************)
(* The inventories of sinks, entries and forks that scans of the source    *)
(* write (sink_scan.py, entry_scan.py, fork_inventory.py) and that         *)
(* sink-merge unites.  A scan replaces its inventory as a whole, whatever  *)
(* rows others have put there.  A row is known by file, line and callee;   *)
(* its provenance has a rank.  Of a source file only its version matters;  *)
(* what a scan recognises in it is a constant.                             *)
(***************************************************************************)
EXTENDS Naturals, Sequences, FiniteSets, FiniteSetsExt, Functions, TLC

CONSTANTS
  SinkRows,      \* rows: file, line and callee
  SourceFiles,   \* the files of the source, in order
  Recognised,    \* the rows each scan finds in each version of a file
  ScanCalls,     \* calls, by the kind of their scan: "sink", "entry" or "fork"
  MergeCalls,    \* calls: the inventories they unite, in order, and where to
  MaxListed,     \* MAX_ROWS_TOTAL
  MaxMerged,     \* MAX_MERGE_ROWS
  SourceChanges  \* bound: edits of the source and rows added by hand

\* A call merges or scans, and is not the session that adds rows by hand.
ASSUME InventoryAssumption ==
  /\ \A c \in DOMAIN ScanCalls : ScanCalls[c] \in {"sink", "entry", "fork"}
  /\ \A c \in DOMAIN MergeCalls :
       /\ MergeCalls[c].inputs \in Seq({"sink", "entry", "fork", "curated"})
       /\ MergeCalls[c].out \in {"sink", "entry", "fork", "curated"}
  /\ DOMAIN ScanCalls \cap DOMAIN MergeCalls = {} /\ "session" \notin DOMAIN MergeCalls

VARIABLES
  tree,        \* the version, 1 or 2, of each source file
  inventory,   \* the inventories: none or one table of the ranks of its rows
  scanning,    \* what each scan is doing
  merging,     \* what each merge is doing
  outrun,      \* history: merges that ran while an inventory of theirs changed
  changed

inventoryVars == <<tree, inventory, scanning, merging, outrun, changed>>

Inventories == {"sink", "entry", "fork", "curated"}

Rank == [sink |-> 1, entry |-> 3, fork |-> 3, curated |-> 4]

RankIn(tables, r) == Max({t[r] : t \in {u \in tables : r \in DOMAIN u}} \cup {0})

-----------------------------------------------------------------------------
(* Scans *)

Scan(c, stage, left, pass, listed, rows) ==
  scanning' = [scanning EXCEPT ![c] =
    [at |-> stage, left |-> left, pass |-> pass, listed |-> listed, rows |-> rows]]

\* The tree is listed before its files are read, once more for each of the
\* manifests, the build rules and the consumers of forks.
Passes(c) == IF ScanCalls[c] = "fork" THEN 3 ELSE 1

BeginScan(c) ==
  /\ scanning[c].at = "idle"
  /\ Scan(c, "reading", SourceFiles, 1, tree, {})
  /\ UNCHANGED <<tree, inventory, merging, outrun, changed>>

\* Rows are taken until there are MaxListed.
Kept(rows, found) ==
  {k \in SUBSET (rows \cup found) :
     rows \subseteq k /\ Cardinality(k) = Min({Cardinality(rows \cup found), MaxListed})}

Checked(c) == ScanCalls[c] # "sink"

ReadSource(c) ==
  LET s == scanning[c]
      f == Head(s.left)
  IN /\ s.at = "reading" /\ s.left # <<>>
     /\ Checked(c) => s.listed[f] = tree[f]
     /\ \E rows \in Kept(s.rows, IF s.pass = 1 THEN Recognised[ScanCalls[c]][f][tree[f]] ELSE {}) :
          Scan(c, "reading", Tail(s.left), s.pass, s.listed, rows)
     /\ UNCHANGED <<tree, inventory, merging, outrun, changed>>

\* Only the sink scan passes over a file that changed since it was listed.
SourceChanged(c) ==
  /\ scanning[c].at = "reading" /\ scanning[c].left # <<>>
  /\ Checked(c) /\ scanning[c].listed[Head(scanning[c].left)] # tree[Head(scanning[c].left)]
  /\ Scan(c, "idle", <<>>, 1, <<>>, {})
  /\ UNCHANGED <<tree, inventory, merging, outrun, changed>>

NextPass(c) ==
  /\ scanning[c].at = "reading" /\ scanning[c].left = <<>> /\ scanning[c].pass < Passes(c)
  /\ Scan(c, "reading", SourceFiles, scanning[c].pass + 1, tree, scanning[c].rows)
  /\ UNCHANGED <<tree, inventory, merging, outrun, changed>>

\* One replacement; a merge that is under way may have read what was there.
Replaced(f, tables, by) ==
  /\ inventory' = [inventory EXCEPT ![f] = tables]
  /\ outrun' = (outrun \ {by}) \cup
       {c \in DOMAIN MergeCalls \ {by} :
          merging[c].at = "merging" /\ f \in Range(MergeCalls[c].inputs)}

\* Whatever was in the inventory is replaced by what this scan found.
WriteScan(c) ==
  LET s == scanning[c]
  IN /\ s.at = "reading" /\ s.left = <<>> /\ s.pass = Passes(c)
     /\ \/ Replaced(ScanCalls[c], {[r \in s.rows |-> Rank[ScanCalls[c]]]}, c)
        \/ UNCHANGED <<inventory, outrun>>   \* the write fails
     /\ Scan(c, "idle", <<>>, 1, <<>>, {})
     /\ UNCHANGED <<tree, merging, changed>>

-----------------------------------------------------------------------------
(* Merges *)

Merge(c, stage, left, table, read) ==
  merging' = [merging EXCEPT ![c] = [at |-> stage, left |-> left, table |-> table, read |-> read]]

BeginMerge(c) ==
  /\ merging[c].at # "merging"
  /\ Merge(c, "merging", MergeCalls[c].inputs, <<>>, 0)
  /\ outrun' = outrun \ {c}
  /\ UNCHANGED <<tree, inventory, scanning, changed>>

\* Mutant: the row that is read last wins.
RicherLast(table, more) == more @@ table

\* The row of the higher rank, and among equals the one that was read first.
Richer(table, more) ==
  [r \in DOMAIN table \cup DOMAIN more |-> RankIn({table, more}, r)]

ReadInput(c) ==
  LET m == merging[c]
      f == Head(m.left)
  IN /\ m.at = "merging" /\ m.left # <<>>
     /\ \/ /\ inventory[f] = {}
           /\ Merge(c, "merging", Tail(m.left), m.table, m.read)
        \/ \E t \in inventory[f] :
             Merge(c, "merging", Tail(m.left), Richer(m.table, t),
                   Min({m.read + Cardinality(DOMAIN t), MaxMerged + 1}))
     /\ UNCHANGED <<tree, inventory, scanning, outrun, changed>>

\* The result is written even when none of the inputs is there.
WriteMerge(c) ==
  /\ merging[c].at = "merging" /\ merging[c].left = <<>> /\ merging[c].read <= MaxMerged
  /\ Replaced(MergeCalls[c].out, {merging[c].table}, c)
  /\ Merge(c, "merged", <<>>, <<>>, 0)
  /\ UNCHANGED <<tree, scanning, changed>>

\* Too many rows, or the write fails.
MergeRefused(c) ==
  /\ merging[c].at = "merging" /\ merging[c].left = <<>>
  /\ Merge(c, "refused", <<>>, <<>>, 0)
  /\ UNCHANGED <<tree, inventory, scanning, outrun, changed>>

-----------------------------------------------------------------------------
(* The source, and rows that sessions add to an inventory *)

EditSource(f) ==
  /\ changed < SourceChanges
  /\ tree' = [tree EXCEPT ![f] = 3 - @] /\ changed' = changed + 1
  /\ UNCHANGED <<inventory, scanning, merging, outrun>>

Curate(f, r) ==
  /\ changed < SourceChanges
  /\ Replaced(f, {[q \in {r} \cup DOMAIN t |-> IF q = r THEN Rank.curated ELSE t[q]] :
                    t \in IF inventory[f] = {} THEN {<<>>} ELSE inventory[f]}, "session")
  /\ changed' = changed + 1
  /\ UNCHANGED <<tree, scanning, merging>>

InventoryInit ==
  /\ tree = [f \in Range(SourceFiles) |-> 1]
  /\ inventory = [f \in Inventories |-> {}]
  /\ scanning = [c \in DOMAIN ScanCalls |->
                   [at |-> "idle", left |-> <<>>, pass |-> 1, listed |-> <<>>, rows |-> {}]]
  /\ merging = [c \in DOMAIN MergeCalls |->
                  [at |-> "none", left |-> <<>>, table |-> <<>>, read |-> 0]]
  /\ outrun = {} /\ changed = 0

InventoryNext ==
  \/ \E c \in DOMAIN ScanCalls :
       BeginScan(c) \/ ReadSource(c) \/ SourceChanged(c) \/ NextPass(c) \/ WriteScan(c)
  \/ \E c \in DOMAIN MergeCalls :
       BeginMerge(c) \/ ReadInput(c) \/ WriteMerge(c) \/ MergeRefused(c)
  \/ \E f \in Range(SourceFiles) : EditSource(f)
  \/ \E f \in {"sink", "curated"}, r \in SinkRows : Curate(f, r)

InventorySpec == InventoryInit /\ [][InventoryNext]_inventoryVars

\* "The richer provenance wins so curated attribution survives repeated
\* merges": what a merge has written holds every row of the inventories it
\* united, with the best rank that any of them gives it, and no other row,
\* unless one of them was replaced while it was reading (merge_sink_jsonl).
CurationSurvives ==
  [][\A c \in DOMAIN MergeCalls :
       merging[c].at = "merging" /\ merging'[c].at = "merged" /\ c \notin outrun =>
       \A r \in SinkRows :
         RankIn(inventory'[MergeCalls[c].out], r) =
           RankIn(UNION {inventory[f] : f \in Range(MergeCalls[c].inputs)}, r)]_inventoryVars

=============================================================================
