------------------------------ MODULE SeedWeights ------------------------------
(***************************************************************************)
(* The weighted corpus of one target (seed_weights.py): each unit is       *)
(* replayed once for the functions of a small vocabulary it covers, the    *)
(* units are ranked by the hypotheses they reach, and a slice of the next  *)
(* round fuzzes from the best of them.                                     *)
(*                                                                         *)
(* The index is two files: seed-cov.jsonl, a line for each unit, and       *)
(* seed-cov-state.json, the names that have one and the vocabulary the     *)
(* rows were made against.  Neither is written in one step with the       *)
(* other, the collector renames units between two rounds, and a campaign   *)
(* can be killed anywhere.                                                 *)
(***************************************************************************)
EXTENDS Naturals, FiniteSets, Functions

CONSTANTS
  Inputs,        \* contents of units
  Covers,        \* the functions each content executes
  Hanging,       \* contents whose replay times out
  Vocabularies,  \* sets of functions: sinks, bits.json and known crash frames
  MaxNew,        \* cov_max_new_per_round
  TopK,          \* focus_top_k
  MinIndexed,    \* focus_min_indexed
  Weight,        \* weight of a hypothesis nobody has exploited
  Changes        \* bound: changes around the index, and kills

ASSUME WeightsAssumption ==
  /\ IsFiniteSet(Inputs) /\ Hanging \subseteq Inputs
  /\ {MaxNew, TopK, Weight} \subseteq Nat \ {0} /\ {MinIndexed, Changes} \subseteq Nat

VARIABLES
  units,    \* names in the corpus
  words,    \* the vocabulary of the workspace as it stands
  proven,   \* functions exploited, or in the frames of a known crash
  rows,     \* seed-cov.jsonl as it is read, the last line of a name winning
  length,   \* its number of lines
  torn,     \* its last line is incomplete
  listed,   \* seed-cov-state.json: its vocabulary and names
  ranking,  \* seed-weights.json: how many names were ranked, and the best
  focus,    \* names in focus-seeds, and those it was built from
  update,   \* the update of the index in progress
  weighing,  \* where the campaign is in its round
  cut,      \* history: listed names a kill has cost their line
  changes

weightsVars == <<units, words, proven, rows, length, torn, listed, ranking,
                 focus, update, weighing, cut, changes>>

\* Of two lines of a name the later is in force.
LastLines(new, old) ==
  [n \in DOMAIN new \cup DOMAIN old |-> IF n \in DOMAIN new THEN new[n] ELSE old[n]]

\* A seed has a name of its own until a merge names it after its content.
Names == Inputs \X {"seed", "hash"}
Content(n) == n[1]
ContentsOf(names) == {Content(n) : n \in names}

\* The last two fields are history: names added without a line of their own,
\* and listed names whose lines have been compacted away.
NoUpdate == [words |-> {}, seen |-> {}, names |-> {}, new |-> <<>>, rows |-> <<>>,
             lost |-> {}, dropped |-> {}]

Happens == changes < Changes /\ changes' = changes + 1

-----------------------------------------------------------------------------
(* The index *)

\* A unit whose replay failed has a line too, and covers nothing.  What the
\* line was judged against is not in the file.
Replay(n, vocabulary) ==
  [funcs |-> IF Content(n) \in Hanging THEN {} ELSE Covers[Content(n)] \cap vocabulary,
   against |-> vocabulary]

\* With other words in force the lines of the old ones are dropped; the state
\* file still lists them.
Invalidate ==
  /\ weighing = "update" /\ weighing' = "index"
  /\ update' = [NoUpdate EXCEPT !.words = words]
  /\ IF listed.words = words THEN UNCHANGED <<rows, length, torn, cut>>
     ELSE rows' = <<>> /\ length' = 0 /\ torn' = FALSE /\ cut' = {}
  /\ UNCHANGED <<units, words, proven, listed, ranking, focus, changes>>

\* Listed names the corpus has lost, and that have a line.
Orphans(names) == (names \ units) \cap DOMAIN rows

\* Lines are moved to the new names of renamed units; then some units that have
\* none are replayed, as many as the budget and the deadline allow.
Index ==
  LET names == IF listed.words = update.words THEN listed.names ELSE {}
      orphans == Orphans(names)
      unknown == units \ names
      rebound == {n \in unknown : Content(n) \in ContentsOf(orphans)}
      former == [n \in rebound |-> CHOOSE o \in orphans : Content(o) = Content(n)] IN
  /\ weighing = "index" /\ weighing' = "append"
  /\ \E replayed \in SUBSET (unknown \ rebound) :
       /\ Cardinality(replayed) <= MaxNew /\ (unknown # rebound => replayed # {})
       /\ LET new == [n \in rebound \cup replayed |->
                       IF n \in replayed THEN Replay(n, update.words) ELSE rows[former[n]]] IN
          update' = [update EXCEPT
            !.seen = units, !.names = (names \cap units) \cup rebound \cup replayed,
            !.new = new, !.rows = LastLines(new, rows),
            !.lost = {n \in rebound : former[n] \in cut}]
  /\ UNCHANGED <<units, words, proven, rows, length, torn, listed, ranking, focus, cut, changes>>

\* The first line appended to an incomplete one is unreadable with it.
AppendLines ==
  LET new == update.new IN
  /\ weighing = "append" /\ weighing' = "compact"
  /\ IF DOMAIN new = {} THEN UNCHANGED <<rows, length, torn, update>>
     ELSE \E lost \in IF torn THEN {{n} : n \in DOMAIN new} ELSE {{}} :
            /\ rows' = LastLines(Restrict(new, DOMAIN new \ lost), rows)
            /\ length' = length + Cardinality(DOMAIN new \ lost) /\ torn' = FALSE
            /\ update' = [update EXCEPT !.lost = @ \cup lost]
  /\ UNCHANGED <<units, words, proven, listed, ranking, focus, cut, changes>>

\* Mutant: compaction keeps only what this update has added.
LiveNew == DOMAIN update.new

Live == update.seen \cap update.names \cap DOMAIN update.rows

\* Rewritten when more than half of the lines are of names that are gone.
Compact ==
  /\ weighing = "compact" /\ weighing' = "save"
  /\ IF 2 * Cardinality(Live) >= length THEN UNCHANGED <<rows, length, torn, update>>
     ELSE /\ rows' = Restrict(update.rows, Live)
          /\ length' = Cardinality(Live) /\ torn' = FALSE
          /\ update' = [update EXCEPT !.dropped = listed.names \ update.seen]
  /\ UNCHANGED <<units, words, proven, listed, ranking, focus, cut, changes>>

Save ==
  /\ weighing = "save" /\ weighing' = "rank"
  /\ listed' = [words |-> update.words, names |-> update.names]
  /\ cut' = (cut \cap update.names) \cup update.lost
  /\ update' = NoUpdate
  /\ UNCHANGED <<units, words, proven, rows, length, torn, ranking, focus, changes>>

-----------------------------------------------------------------------------
(* The ranking and the focus segment *)

\* An exploited hypothesis counts one.
Score(n) ==
  1 + Weight * Cardinality(rows[n].funcs \ proven) + Cardinality(rows[n].funcs \cap proven)

\* Every line is ranked, of names that are gone too.
RankUnits ==
  /\ weighing = "rank" /\ weighing' = "head"
  /\ \E best \in SUBSET DOMAIN rows :
       /\ Cardinality(best) = IF Cardinality(DOMAIN rows) < TopK
                              THEN Cardinality(DOMAIN rows) ELSE TopK
       /\ \A n \in best, m \in DOMAIN rows \ best : Score(n) >= Score(m)
       /\ ranking' = [total |-> Cardinality(DOMAIN rows), best |-> best]
  /\ UNCHANGED <<units, words, proven, rows, length, torn, listed, focus, update, cut, changes>>

\* Too few ranked: the directory is left as it was, and not used.
Unready ==
  /\ weighing = "head" /\ weighing' = "fuzz"
  /\ ranking.total < MinIndexed \/ ranking.best = {}
  /\ UNCHANGED <<units, words, proven, rows, length, torn, listed, ranking, focus,
                 update, cut, changes>>

\* The directory is built again from the best that are still in the corpus.
Prepare ==
  LET base == ranking.best \cap units IN
  /\ weighing = "head" /\ ~(ranking.total < MinIndexed \/ ranking.best = {})
  /\ focus' = [names |-> base, base |-> base]
  /\ weighing' = IF base = {} THEN "fuzz" ELSE "focus"
  /\ UNCHANGED <<units, words, proven, rows, length, torn, listed, ranking, update, cut, changes>>

\* A fuzzer does not write a unit it has loaded; other lanes publish seeds.
Fuzz ==
  /\ weighing = "fuzz" /\ weighing' = "update"
  /\ UNCHANGED <<units, words, proven, rows, length, torn, listed, ranking, focus,
                 update, cut, changes>>

FuzzFocus ==
  /\ weighing = "focus" /\ weighing' = "merge"
  /\ \E more \in SUBSET {n \in Names : n[2] = "hash" /\ Content(n) \notin ContentsOf(units)} :
       focus' = [focus EXCEPT !.names = @ \cup more]
  /\ UNCHANGED <<units, words, proven, rows, length, torn, listed, ranking, update, cut, changes>>

MergeBack ==
  /\ weighing = "merge" /\ weighing' = "fuzz"
  /\ units' = units \cup (focus.names \ focus.base)
  /\ UNCHANGED <<words, proven, rows, length, torn, listed, ranking, focus, update, cut, changes>>

-----------------------------------------------------------------------------
(* What happens around it *)

\* The campaign is killed; rows may have been written in part.  The names stay
\* listed, though the update has dropped their lines: all of them for other
\* words, those the corpus has lost when it compacted.
Kill ==
  /\ weighing # "head" /\ weighing' = "head" /\ Happens
  /\ IF weighing # "append" THEN UNCHANGED <<rows, length, torn>>
     ELSE \E done \in SUBSET DOMAIN update.new :
            /\ rows' = LastLines(Restrict(update.new, done), rows)
            /\ torn' \in {torn, done # DOMAIN update.new}
            /\ length' = length + Cardinality(done) + (IF torn' /\ ~torn THEN 1 ELSE 0)
  /\ cut' = IF weighing \in {"index", "append", "compact", "save"}
                /\ listed.words # update.words
             THEN listed.names ELSE cut \cup update.dropped
  /\ update' = NoUpdate
  /\ UNCHANGED <<units, words, proven, listed, ranking, focus>>

\* A lane or a session adds a unit.
Arrive(n) ==
  /\ Content(n) \notin ContentsOf(units) /\ Happens
  /\ units' = units \cup {n}
  /\ UNCHANGED <<words, proven, rows, length, torn, listed, ranking, focus, update, weighing, cut>>

\* The collector merges the corpus: what it keeps is named after its content.
Collect ==
  /\ Happens
  /\ \E kept \in SUBSET ContentsOf(units) \ {{}} : units' = kept \X {"hash"}
  /\ UNCHANGED <<words, proven, rows, length, torn, listed, ranking, focus, update, weighing, cut>>

\* bits.json is edited, the sinks are scanned again, a crash becomes known.
Reword(vocabulary) ==
  /\ vocabulary # words /\ words' = vocabulary /\ Happens
  /\ UNCHANGED <<units, proven, rows, length, torn, listed, ranking, focus, update, weighing, cut>>

ExploitFunction(f) ==
  /\ f \notin proven /\ proven' = proven \cup {f} /\ Happens
  /\ UNCHANGED <<units, words, rows, length, torn, listed, ranking, focus, update, weighing, cut>>

-----------------------------------------------------------------------------

WeightsInit ==
  /\ units = {} /\ words \in Vocabularies /\ proven = {}
  /\ rows = <<>> /\ length = 0 /\ torn = FALSE
  /\ listed = [words |-> {}, names |-> {}]
  /\ ranking = [total |-> 0, best |-> {}]
  /\ focus = [names |-> {}, base |-> {}]
  /\ update = NoUpdate /\ weighing = "head" /\ cut = {} /\ changes = 0

WeightsNext ==
  \/ Unready \/ Prepare \/ Fuzz \/ FuzzFocus \/ MergeBack
  \/ Invalidate \/ Index \/ AppendLines \/ Compact \/ Save \/ RankUnits
  \/ Kill \/ Collect
  \/ \E n \in Names : Arrive(n)
  \/ \E vocabulary \in Vocabularies : Reword(vocabulary)
  \/ \E f \in UNION Vocabularies : ExploitFunction(f)

WeightsSpec == WeightsInit /\ [][WeightsNext]_weightsVars

-----------------------------------------------------------------------------
(* Properties *)

\* Between two updates each unit the state file lists, which no later update
\* replays again, has a line in the index, made against the vocabulary of the
\* state file ("old rows would under-report coverage of the new functions"):
\* whatever was renamed, lost, compacted or reworded meanwhile, and wherever
\* the campaign was killed.  Only the names a kill has cost their line are
\* without one: a line appended to a torn one, those of a vocabulary an unfinished
\* update replaced, and those of units the corpus has lost and gets back
\* when the update was killed after it compacted and before it saved the names.
IndexIsCurrent ==
  weighing \notin {"index", "append", "compact", "save"} =>
    \A n \in listed.names \ cut : n \in DOMAIN rows /\ rows[n].against = listed.words

=============================================================================
