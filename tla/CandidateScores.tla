---------------------------- MODULE CandidateScores ----------------------------
(***************************************************************************)
(* The judgments of the hypotheses about a target and the advice that is   *)
(* computed from them (candidate_scoring.py).                              *)
(*                                                                         *)
(* A set of judgments is a file named by the digest of its content, so the *)
(* file is the judgment; it belongs to a revision of its hypothesis and to *)
(* the scoring policy under which it was made.  Sessions record judgments  *)
(* at the same time, and the policy is a file that people edit.            *)
(***************************************************************************)
EXTENDS Naturals, FiniteSets

CONSTANTS
  Hypotheses, Streams, Revisions,
  Policies, Votes,  \* scoring policies, and the number of votes of each
  Rationales,   \* what tells apart two sets of judgments with the same verdicts
  Recorders,    \* sessions
  MaxStored     \* bound: judgments stored

ASSUME ScoresAssumption ==
  /\ Revisions \subseteq Nat \ {0}
  /\ Votes \in [Policies -> Nat \ {0}] /\ MaxStored \in Nat

VARIABLES
  policy,     \* the scoring section of campaign-policy.json
  store,      \* the judgments on disk
  damaged,    \* some file there does not parse, or is not what its name says
  locked,     \* the sessions that hold the lock of the directory: none, or one
  judging,    \* what each session is recording
  call        \* where each session is

scoresVars == <<policy, store, damaged, locked, judging, call>>

\* Every lens of the policy votes once; the order and the reasons are kept too.
Judgments ==
  [hypothesis : Hypotheses, stream : Streams, revision : Revisions,
   likely : 0..Votes[policy], rationale : Rationales, policy : {policy}]

NoJudgment == [hypothesis |-> "none"]

-----------------------------------------------------------------------------
(* The report *)

Latest(rows, h) ==
  CHOOSE r \in rows : r.hypothesis = h /\ \A s \in rows : s.hypothesis = h => s.revision <= r.revision

\* The highest revision of each hypothesis, of those judged under this policy.
Current ==
  LET rows == {r \in store : r.policy = policy} IN
  {Latest(rows, h) : h \in {r.hypothesis : r \in rows}}

\* Two sets of judgments of one revision: there is no report until one is gone.
Conflicts(rows) ==
  {r \in rows : \E s \in rows \ {r} : s.hypothesis = r.hypothesis /\ s.revision = r.revision}

ReportFails == damaged \/ Conflicts({r \in store : r.policy = policy}) # {}

-----------------------------------------------------------------------------
(* Recording *)

Decide(p, j) ==
  /\ call[p] = "idle" /\ Cardinality(store) < MaxStored
  /\ judging' = [judging EXCEPT ![p] = j]
  /\ call' = [call EXCEPT ![p] = "judged"]
  /\ UNCHANGED <<policy, store, damaged, locked>>

\* Mutant: the directory is searched before it is locked.
FreeAlways == TRUE

Free == locked = {}

Lock(p) ==
  /\ call[p] = "judged" /\ Free
  /\ locked' = locked \cup {p}
  /\ call' = [call EXCEPT ![p] = "locked"]
  /\ UNCHANGED <<policy, store, damaged, judging>>

\* Other judgments of that revision, whatever policy they were made under.
Prior(j) == {r \in store \ {j} : r.hypothesis = j.hypothesis /\ r.revision = j.revision}

EndCall(p, at) ==
  /\ locked' = locked \ {p}
  /\ call' = [call EXCEPT ![p] = at]
  /\ judging' = IF at = "idle" THEN [judging EXCEPT ![p] = NoJudgment] ELSE judging

\* The same judgments again: the file is there already.
Repeat(p) ==
  /\ call[p] = "locked" /\ judging[p] \in store
  /\ EndCall(p, "stored")
  /\ UNCHANGED <<policy, store, damaged>>

Refuse(p) ==
  /\ call[p] = "locked" /\ judging[p] \notin store
  /\ damaged \/ Prior(judging[p]) # {}
  /\ EndCall(p, "idle")
  /\ UNCHANGED <<policy, store, damaged>>

Accept(p) ==
  /\ call[p] = "locked" /\ judging[p] \notin store
  /\ ~damaged /\ Prior(judging[p]) = {}
  /\ call' = [call EXCEPT ![p] = "writing"]
  /\ UNCHANGED <<policy, store, damaged, locked, judging>>

\* A whole file, renamed into place.
Store(p) ==
  /\ call[p] = "writing"
  /\ store' = store \cup {judging[p]}
  /\ EndCall(p, "stored")
  /\ UNCHANGED <<policy, damaged>>

\* The call reports on the hypothesis; it fails when the policy has changed and
\* nothing was judged under the new one.
Answer(p) ==
  /\ call[p] = "stored"
  /\ ~ReportFails /\ \E r \in Current : r.hypothesis = judging[p].hypothesis
  /\ EndCall(p, "idle")
  /\ UNCHANGED <<policy, store, damaged>>

NoAnswer(p) ==
  /\ call[p] = "stored"
  /\ ReportFails \/ \A r \in Current : r.hypothesis # judging[p].hypothesis
  /\ EndCall(p, "idle")
  /\ UNCHANGED <<policy, store, damaged>>

\* A killed session holds the lock no longer.
Die(p) ==
  /\ call[p] # "idle"
  /\ EndCall(p, "idle")
  /\ UNCHANGED <<policy, store, damaged>>

EditPolicy(new) ==
  /\ new # policy /\ policy' = new
  /\ UNCHANGED <<store, damaged, locked, judging, call>>

\* A file is cut short or edited outside the engine; it is put right.
Damage ==
  /\ store # {} /\ damaged' = ~damaged
  /\ UNCHANGED <<policy, store, locked, judging, call>>

ScoresInit ==
  /\ policy \in Policies /\ store = {} /\ damaged = FALSE /\ locked = {}
  /\ judging = [p \in Recorders |-> NoJudgment] /\ call = [p \in Recorders |-> "idle"]

ScoresNext ==
  \/ \E p \in Recorders :
       \/ \E j \in Judgments : Decide(p, j)
       \/ Lock(p) \/ Repeat(p) \/ Refuse(p) \/ Accept(p) \/ Store(p)
       \/ Answer(p) \/ NoAnswer(p) \/ Die(p)
  \/ \E new \in Policies : EditPolicy(new)
  \/ Damage

ScoresSpec == ScoresInit /\ [][ScoresNext]_scoresVars

-----------------------------------------------------------------------------
(* Properties *)

\* Whatever sessions record together, retry or abandon, and however the policy is
\* edited meanwhile, no revision has two sets of judgments: the report never
\* stops on a conflict nobody can withdraw ("conflicting judgment records exist
\* for the same candidate revision"), under this policy or another one.
OneJudgment == Conflicts(store) = {}

=============================================================================
