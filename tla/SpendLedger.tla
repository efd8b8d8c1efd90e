----------------------------- MODULE SpendLedger -----------------------------
(***************************************************************************)
(* The daily spend ledger, data/fleet-spend.json (runner._record_spend).   *)
(*                                                                         *)
(* Every worker thread of a wave adds its cost to the same file: it reads  *)
(* the file, adds, writes a temporary file of a fixed name and renames it  *)
(* over the ledger.  Nothing serialises the threads, so two of them share  *)
(* the temporary file as well as the total.                                *)
(*                                                                         *)
(* The content of a file is the set of bills it accounts for; the dollar   *)
(* total is the sum of their costs.                                        *)
(***************************************************************************)
CONSTANTS
  Bill,     \* the costs workers report, one per worker process that ran
  NoBill,
  Spender,  \* threads that record a cost
  Empty,    \* a file just truncated
  Garbled,  \* a file two threads wrote over each other: not JSON
  Missing   \* no file of that name

ASSUME SpendAssumption ==
  /\ \A b \in Bill : b # NoBill
  /\ \A bills \in SUBSET Bill : bills \notin {Empty, Garbled, Missing}
  /\ Missing \notin {Empty, Garbled}

VARIABLES
  spendFile,  \* content of fleet-spend.json
  tmpFile,    \* content of fleet-spend.json.tmp
  spender,    \* each thread's place in _record_spend
  issued,     \* history: the bills whose recording began
  overlapped  \* history: two recordings were once in progress together, or
              \* one was cut short

spendVars == <<spendFile, tmpFile, spender, issued, overlapped>>

-----------------------------------------------------------------------------
\* Not recording.  fd is where the file the thread holds open can be found:
\* under the temporary name, renamed to the ledger, or nowhere any more.
AtRest == [pc |-> "rest", bill |-> NoBill, read |-> {}, fd |-> "none"]

\* What a reader makes of the ledger: no file, or one that does not parse,
\* counts as a ledger with nothing in it.
Readable(content) == IF content \in {Missing, Empty, Garbled} THEN {} ELSE content

Recording(w) == spender[w].pc # "rest"

\* Read the ledger to add bill b to it.
RecordRead(w, b) ==
  /\ ~Recording(w)
  /\ b \notin issued
  /\ spender' = [spender EXCEPT ![w] =
                   [AtRest EXCEPT !.pc = "read", !.bill = b, !.read = Readable(spendFile)]]
  /\ issued' = issued \cup {b}
  /\ overlapped' = (overlapped \/ \E v \in Spender : Recording(v))
  /\ UNCHANGED <<spendFile, tmpFile>>

\* Open the temporary file for writing.  If it is there, another thread's
\* open file is the one truncated.
RecordOpen(w) ==
  /\ spender[w].pc = "read"
  /\ tmpFile' = Empty
  /\ spender' = [spender EXCEPT ![w].pc = "open", ![w].fd = "tmp"]
  /\ UNCHANGED <<spendFile, issued, overlapped>>

\* What a file holds after the text of content is written at its start: over
\* another thread's longer text the tail of that text remains.
Overwrite(old, content) == IF old = Empty THEN {content} ELSE {content, Garbled}

\* Mutant: the cost is written in place of what is there.
RecordWriteAnew(w) ==
  /\ spender[w].pc = "open"
  /\ spender[w].fd = "tmp"
  /\ tmpFile' = {spender[w].bill}
  /\ spender' = [spender EXCEPT ![w].pc = "written"]
  /\ UNCHANGED <<spendFile, issued, overlapped>>

\* Write the text, wherever the open file now is.
RecordWrite(w) ==
  LET content == spender[w].read \cup {spender[w].bill}
  IN /\ spender[w].pc = "open"
     /\ \/ /\ spender[w].fd = "tmp"
           /\ tmpFile' \in Overwrite(tmpFile, content)
           /\ UNCHANGED spendFile
        \/ /\ spender[w].fd = "ledger"
           /\ spendFile' \in Overwrite(spendFile, content)
           /\ UNCHANGED tmpFile
        \/ /\ spender[w].fd = "gone"
           /\ UNCHANGED <<spendFile, tmpFile>>
     /\ spender' = [spender EXCEPT ![w].pc = "written"]
     /\ UNCHANGED <<issued, overlapped>>

\* Where an open file is found after the temporary file is renamed.
Renamed(fd) == CASE fd = "tmp"    -> "ledger"
                 [] fd = "ledger" -> "gone"
                 [] OTHER         -> fd

\* Rename the temporary file over the ledger.
RecordReplace(w) ==
  /\ spender[w].pc = "written"
  /\ tmpFile # Missing
  /\ spendFile' = tmpFile
  /\ tmpFile' = Missing
  /\ spender' = [v \in Spender |-> IF v = w THEN AtRest
                                   ELSE [spender[v] EXCEPT !.fd = Renamed(@)]]
  /\ UNCHANGED <<issued, overlapped>>

\* Another thread renamed it first: replace raises FileNotFoundError.
RecordRaises(w) ==
  /\ spender[w].pc = "written"
  /\ tmpFile = Missing
  /\ spender' = [spender EXCEPT ![w] = AtRest]
  /\ UNCHANGED <<spendFile, tmpFile, issued, overlapped>>

\* The process dies in the middle of recording.
RecordCut(w) ==
  /\ Recording(w)
  /\ spender' = [spender EXCEPT ![w] = AtRest]
  /\ overlapped' = TRUE
  /\ UNCHANGED <<spendFile, tmpFile, issued>>

-----------------------------------------------------------------------------
SpendInit ==
  /\ spendFile = Missing
  /\ tmpFile = Missing
  /\ spender = [w \in Spender |-> AtRest]
  /\ issued = {}
  /\ overlapped = FALSE

RecordNext(w) ==
  \/ \E b \in Bill : RecordRead(w, b)
  \/ RecordOpen(w)
  \/ RecordWrite(w)
  \/ RecordReplace(w)
  \/ RecordRaises(w)
  \/ RecordCut(w)

SpendNext == \E w \in Spender : RecordNext(w)

SpendSpec == SpendInit /\ [][SpendNext]_spendVars

-----------------------------------------------------------------------------
(* Properties *)

Content == (SUBSET Bill) \cup {Empty, Garbled, Missing}

SpenderState ==
  [pc : {"rest", "read", "open", "written"}, bill : Bill \cup {NoBill},
   read : SUBSET Bill, fd : {"none", "tmp", "ledger", "gone"}]

\* Types; a thread that records has a bill.
SpendTypeOK ==
  /\ spendFile \in Content
  /\ tmpFile \in Content
  /\ spender \in [Spender -> SpenderState]
  /\ \A w \in Spender : Recording(w) => spender[w].bill \in Bill
  /\ issued \subseteq Bill
  /\ overlapped \in BOOLEAN

\* The spend ledger is exact as long as no two recordings ever overlapped and
\* none was cut short: with nobody recording it accounts for every bill, and
\* no thread is about to find its temporary file gone.  One recording left
\* half-way, or one wave with two costs at a time, is all it takes otherwise.
ExactUnlessOverlapped ==
  ~overlapped =>
    /\ (\A w \in Spender : ~Recording(w)) => Readable(spendFile) = issued
    /\ \A w \in Spender : spender[w].pc = "written" => tmpFile # Missing

=============================================================================
