------------------------- MODULE DirectedQueue_proofs -------------------------
(***************************************************************************)
(* Proofs about DirectedQueue, for any sinks, sessions, priorities, budget *)
(* and cap.                                                                *)
(***************************************************************************)
EXTENDS DirectedQueue, FiniteSetTheorems, WellFoundedInduction, TLAPS

-----------------------------------------------------------------------------
(* Queues a process may load or write *)

Task ==
  [state : {"none", "queued", "active"}, prio : 0..Agent, used : 0..Budget - 1,
   added : 0..Rounds, source : {"none", "frontier", "agent"}]

Queue == [Sinks -> Task]

Active(q) == {s \in Sinks : q[s].state = "active"}
AtMostOne(q) == \A s, t \in Active(q) : s = t

FrontierTasks(q) == {s \in Open(q) : q[s].source = "frontier"}
Capped(q) == Cardinality(FrontierTasks(q)) <= Cap

Good == {q \in Queue : AtMostOne(q) /\ Capped(q)}

\* The file and every copy of it that waits to be written.
DirectedInv ==
  /\ task \in Good
  /\ copy \in [Procs -> {<<>>} \cup {<<q>> : q \in Good}]
  /\ sink \in [Sinks -> {"wanted", "gone", "covered"}]
  /\ stale \subseteq Procs
  /\ round \in 1..Rounds

-----------------------------------------------------------------------------
(* Sets of numbers *)

LEMMA Least ==
  ASSUME NEW T, T \subseteq Nat, T # {}
  PROVE  \E m \in T : \A n \in T : m <= n
<1>1. PICK m \in T : \A n \in T : <<n, m>> \notin OpToRel(<, Nat)
  BY NatLessThanWellFounded, WFMin
<1>2. \A n \in T : ~(n < m)
  BY <1>1 DEF OpToRel
<1> QED BY <1>2

\* The least number of greater ones belongs to the greatest.
LEMMA Greatest ==
  ASSUME NEW T, T \subseteq Nat, T # {}, IsFiniteSet(T)
  PROVE  \E m \in T : \A n \in T : n <= m
<1> DEFINE Above(m) == {n \in T : n > m}
<1>1. \A m \in T : IsFiniteSet(Above(m)) /\ Cardinality(Above(m)) \in Nat
  BY FS_Subset, FS_CardinalityType
<1> DEFINE C == {Cardinality(Above(m)) : m \in T}
<1>2. C \subseteq Nat /\ C # {}
  BY <1>1
<1>3. PICK c \in C : \A d \in C : c <= d
  <2> HIDE DEF C
  <2> QED BY <1>2, Least
<1>4. PICK m \in T : c = Cardinality(Above(m))
  OBVIOUS
<1>5. ASSUME NEW n \in T, n > m PROVE FALSE
  <2>1. Above(n) \subseteq Above(m) /\ n \in Above(m) /\ n \notin Above(n)
    <3>1. n \in Nat /\ m \in Nat /\ \A x \in T : x \in Nat
      OBVIOUS
    <3>2. ASSUME NEW x \in Above(n) PROVE x \in Above(m)
      <4>1. x \in T /\ x \in Nat /\ x > n
        BY <3>1
      <4>2. x > m
        BY <1>5, <3>1, <4>1
      <4> QED BY <4>1, <4>2
    <3>3. n \in Above(m) /\ n \notin Above(n)
      BY <1>5, <3>1
    <3> QED BY <3>2, <3>3
  <2>2. /\ Cardinality(Above(n)) # Cardinality(Above(m))
        /\ Cardinality(Above(n)) <= Cardinality(Above(m))
    <3> HIDE DEF Above
    <3> QED BY <1>1, <2>1, FS_Subset
  <2>3. Cardinality(Above(m)) <= Cardinality(Above(n))
    BY <1>3, <1>4
  <2> HIDE DEF Above
  <2> QED BY <1>1, <2>2, <2>3
<1> QED BY <1>5

LEMMA CardinalityGrows ==
  ASSUME NEW S, NEW T, IsFiniteSet(T), S \subseteq T, NEW n \in Nat, Cardinality(T) <= n
  PROVE  Cardinality(S) <= n
<1>1. IsFiniteSet(S) /\ Cardinality(S) <= Cardinality(T)
  BY FS_Subset
<1>2. Cardinality(S) \in Nat /\ Cardinality(T) \in Nat
  BY <1>1, FS_CardinalityType
<1> QED BY <1>1, <1>2

-----------------------------------------------------------------------------
(* What each command makes of the queue it loaded *)

LEMMA OpenIsFinite ==
  ASSUME NEW q
  PROVE  /\ Open(q) \subseteq Sinks /\ IsFiniteSet(Open(q)) /\ IsFiniteSet(FrontierTasks(q))
  BY DirectedAssumption, FS_Subset DEF Open, FrontierTasks

\* A queue with no more active tasks and no more frontier tasks is as good.
LEMMA FewerIsGood ==
  ASSUME NEW q \in Good, NEW r \in Queue, Active(r) \subseteq Active(q),
         FrontierTasks(r) \subseteq FrontierTasks(q)
  PROVE  r \in Good
<1>1. AtMostOne(r)
  BY DEF Good, AtMostOne
<1>2. Cap \in Nat /\ Cardinality(FrontierTasks(q)) <= Cap
  BY DirectedAssumption DEF Good, Capped
<1>3. Cardinality(FrontierTasks(r)) <= Cap
  BY <1>2, OpenIsFinite, CardinalityGrows
<1> QED BY <1>1, <1>3 DEF Good, Capped

LEMMA NoneIsTask == None \in Task
  BY DirectedAssumption DEF None, Task

LEMMA NewIsTask ==
  ASSUME NEW source \in {"frontier", "agent"}, NEW prio \in 0..Agent, NEW r \in 0..Rounds
  PROVE  New(source, prio, r) \in Task
  BY DirectedAssumption DEF New, Task

LEMMA BurnedGood ==
  ASSUME NEW q \in Good, NEW r \in 0..Rounds
  PROVE  Burned(q, r) \in Good
<1> DEFINE b == Burned(q, r)
<1>1. ASSUME NEW s \in Sinks
      PROVE  /\ b[s] \in Task /\ b[s].source = q[s].source
             /\ b[s].state = "active" => q[s].state = "active"
             /\ b[s].state \in {"queued", "active"} => q[s].state \in {"queued", "active"}
  <2>1. q[s] \in Task
    BY DEF Good, Queue
  <2>2. CASE q[s].state # "active"
    BY <2>1, <2>2 DEF Burned
  <2>3. CASE q[s].state = "active" /\ q[s].used + 1 < Budget
    <3>1. b[s] = [q[s] EXCEPT !.used = @ + 1]
      BY <2>3 DEF Burned
    <3> QED BY <2>1, <2>3, <3>1, DirectedAssumption DEF Task
  <2>4. CASE q[s].state = "active" /\ ~(q[s].used + 1 < Budget)
    <3> DEFINE p == IF q[s].prio >= Floor + Decay THEN q[s].prio - Decay ELSE Floor
    <3>1. b[s] = Requeued(q[s], r)
      BY <2>4 DEF Burned
    <3>2. b[s] = [q[s] EXCEPT !.state = "queued", !.used = 0, !.added = r, !.prio = p]
      BY <3>1 DEF Requeued
    <3>3. p \in 0..Agent /\ 0 \in 0..Budget - 1
      BY <2>1, DirectedAssumption DEF Task
    <3> HIDE DEF p, b
    <3> QED BY <2>1, <2>4, <3>2, <3>3 DEF Task
  <2> QED BY <2>2, <2>3, <2>4
<1>2. b \in [Sinks -> Task]
  BY <1>1 DEF Burned
<1>3. Active(b) \subseteq Active(q) /\ FrontierTasks(b) \subseteq FrontierTasks(q)
  <2> HIDE DEF b
  <2> QED BY <1>1 DEF Active, FrontierTasks, Open
<1> QED BY <1>2, <1>3, FewerIsGood DEF Queue

\* The order of tick_budget is total, so it promotes one task.
LEMMA NextIsUnique ==
  ASSUME NEW q \in Queue, NEW s \in Sinks, NEW t \in Sinks, IsNext(q, s), IsNext(q, t)
  PROVE  s = t
<1> SUFFICES ASSUME s # t PROVE FALSE
  OBVIOUS
<1>1. Precedes(q, s, t) /\ Precedes(q, t, s)
  BY DEF IsNext
<1>2. /\ q[s].prio \in Int /\ q[t].prio \in Int /\ q[s].added \in Int /\ q[t].added \in Int
      /\ s \in Int /\ t \in Int
  BY DirectedAssumption DEF Queue, Task
<1> QED BY <1>1, <1>2 DEF Precedes

LEMMA PromotedGood ==
  ASSUME NEW q \in Good
  PROVE  Promoted(q) \in Good
<1>1. CASE \E s \in Sinks : q[s].state = "active"
  BY <1>1 DEF Promoted
<1>2. CASE \A s \in Sinks : q[s].state # "active"
  <2> DEFINE a == Activated(q)
  <2>1. Promoted(q) = a /\ q \in Queue
    BY <1>2 DEF Promoted, Good
  <2>2. ASSUME NEW s \in Sinks
        PROVE  /\ a[s] \in Task /\ a[s].source = q[s].source
               /\ a[s].state = "active" => IsNext(q, s)
               /\ a[s].state \in {"queued", "active"} => q[s].state \in {"queued", "active"}
    <3>1. q[s] \in Task
      BY <2>1 DEF Queue
    <3>2. CASE IsNext(q, s)
      <4>1. a[s] = [q[s] EXCEPT !.state = "active"] /\ q[s].state = "queued"
        BY <3>2 DEF Activated, IsNext
      <4> QED BY <3>1, <3>2, <4>1 DEF Task
    <3>3. CASE ~IsNext(q, s)
      BY <1>2, <3>1, <3>3 DEF Activated
    <3> QED BY <3>2, <3>3
  <2>3. a \in Queue
    BY <2>2 DEF Activated, Queue
  <2>4. AtMostOne(a)
    <3> HIDE DEF a
    <3> QED BY <2>1, <2>2, NextIsUnique DEF AtMostOne, Active
  <2>5. FrontierTasks(a) \subseteq FrontierTasks(q)
    <3> HIDE DEF a
    <3> QED BY <2>2 DEF FrontierTasks, Open
  <2>6. Cap \in Nat /\ Cardinality(FrontierTasks(q)) <= Cap
    BY DirectedAssumption DEF Good, Capped
  <2>7. Capped(a)
    <3> HIDE DEF a
    <3> QED BY <2>5, <2>6, OpenIsFinite, CardinalityGrows DEF Capped
  <2> QED BY <2>1, <2>3, <2>4, <2>7 DEF Good
<1> QED BY <1>1, <1>2

LEMMA RetiredGood ==
  ASSUME NEW q \in Good
  PROVE  Retired(q) \in Good
<1>1. Retired(q) \in Queue
  BY NoneIsTask DEF Retired, Queue, Good
<1>2. \A s \in Sinks : Retired(q)[s] = q[s] \/ Retired(q)[s] = None
  BY DEF Retired
<1>3. Active(Retired(q)) \subseteq Active(q) /\ FrontierTasks(Retired(q)) \subseteq FrontierTasks(q)
  BY <1>2 DEF Active, FrontierTasks, Open, None
<1> QED BY <1>1, <1>3, FewerIsGood

LEMMA CompletedGood ==
  ASSUME NEW q \in Good, NEW s \in Sinks
  PROVE  Completed(q, s) \in Good
<1>1. Completed(q, s) \in Queue
  BY NoneIsTask DEF Completed, Queue, Good
<1>2. \A t \in Sinks : Completed(q, s)[t] = q[t] \/ Completed(q, s)[t] = None
  BY DEF Completed, Good, Queue
<1>3. /\ Active(Completed(q, s)) \subseteq Active(q)
      /\ FrontierTasks(Completed(q, s)) \subseteq FrontierTasks(q)
  BY <1>2 DEF Active, FrontierTasks, Open, None
<1> QED BY <1>1, <1>3, FewerIsGood

LEMMA FlaggedGood ==
  ASSUME NEW q \in Good, NEW s \in Sinks
  PROVE  Flagged(q, s) \in Good
<1> DEFINE f == Flagged(q, s)
<1>1. q \in Queue /\ q[s] \in Task
  BY DEF Good, Queue
<1>2. \A t \in Sinks \ {s} : f[t] = q[t]
  BY <1>1 DEF Flagged, Queue
<1>3. /\ f[s] \in Task /\ f[s].source = "agent"
      /\ f[s].state = "active" => q[s].state = "active"
  <2>1. CASE s \in Open(q)
    <3> DEFINE p == IF q[s].prio > Agent THEN q[s].prio ELSE Agent
    <3>1. f[s] = [q[s] EXCEPT !.source = "agent", !.prio = p]
      BY <1>1, <2>1 DEF Flagged, Raised, Queue
    <3>2. p \in 0..Agent
      BY <1>1, DirectedAssumption DEF Task
    <3> HIDE DEF p, f
    <3> QED BY <1>1, <3>1, <3>2 DEF Task
  <2>2. CASE s \notin Open(q)
    <3>1. f[s] = New("agent", Agent, 0)
      BY <1>1, <2>2 DEF Flagged, Queue, New
    <3>2. f[s] \in Task
      BY <3>1, NewIsTask, DirectedAssumption
    <3> QED BY <3>1, <3>2 DEF New
  <2> QED BY <2>1, <2>2
<1>4. DOMAIN f = Sinks /\ f = [t \in Sinks |-> f[t]]
  BY <1>1 DEF Flagged, Queue
<1>5. f \in Queue
  <2> HIDE DEF f
  <2>1. \A t \in Sinks : f[t] \in Task
    BY <1>1, <1>2, <1>3 DEF Queue
  <2> QED BY <1>4, <2>1 DEF Queue
<1>6. Active(f) \subseteq Active(q) /\ FrontierTasks(f) \subseteq FrontierTasks(q)
  <2> HIDE DEF f
  <2> QED BY <1>2, <1>3 DEF Active, FrontierTasks, Open
<1> QED BY <1>5, <1>6, FewerIsGood

LEMMA EnqueuedGood ==
  ASSUME NEW q \in Good, NEW r \in 0..Rounds
  PROVE  Enqueued(q, r) \in Good
<1> DEFINE e == Enqueued(q, r)
           wanted == {s \in Sinks \ Open(q) : sink[s] = "wanted"}
           Before(s) == Open(q) \cup {t \in wanted : t < s}
           added == {s \in wanted : Cardinality(Before(s)) < Cap}
<1>1. \A s \in Sinks : e[s] = IF s \in added THEN New("frontier", Frontier, r) ELSE q[s]
  BY DEF Enqueued
<1>2. q \in Queue /\ Cap \in Nat
  BY DirectedAssumption DEF Good
<1>3. New("frontier", Frontier, r) \in Task
  BY NewIsTask, DirectedAssumption
<1>4. e \in Queue
  <2>1. \A s \in Sinks : e[s] \in Task
    <3> HIDE DEF e, added
    <3> QED BY <1>1, <1>2, <1>3 DEF Queue
  <2> QED BY <2>1 DEF Enqueued, Queue
<1>5. Active(e) \subseteq Active(q)
  <2> HIDE DEF e, added
  <2> QED BY <1>1 DEF Active, New
<1>6. AtMostOne(e)
  BY <1>5 DEF AtMostOne, Good
<1>7. FrontierTasks(e) \subseteq FrontierTasks(q) \cup added
  <2> HIDE DEF e, added
  <2> QED BY <1>1 DEF FrontierTasks, Open
<1>8. Cardinality(FrontierTasks(e)) <= Cap
  <2> HIDE DEF e
  <2>1. CASE added = {}
    <3>1. FrontierTasks(e) \subseteq FrontierTasks(q) /\ Cardinality(FrontierTasks(q)) <= Cap
      BY <1>7, <2>1 DEF Good, Capped
    <3> QED BY <1>2, <3>1, OpenIsFinite, CardinalityGrows
  <2>2. CASE added # {}
    <3>1. added \subseteq Nat /\ IsFiniteSet(added)
      BY DirectedAssumption, FS_Subset
    <3>2. PICK m \in added : \A n \in added : n <= m
      <4> HIDE DEF added
      <4> QED BY <2>2, <3>1, Greatest
    <3>3. /\ Cardinality(Before(m)) < Cap
          /\ Before(m) \subseteq Sinks
      BY DEF Open
    <3>4. FrontierTasks(e) \subseteq Before(m) \cup {m}
      <4>1. added \subseteq Before(m) \cup {m}
        <5>1. \A n \in added : n \in wanted /\ n \in Nat /\ m \in Nat
          BY <3>1
        <5> QED BY <3>2, <5>1
      <4>2. FrontierTasks(q) \subseteq Before(m)
        BY DEF FrontierTasks
      <4> HIDE DEF Before, added
      <4> QED BY <1>7, <4>1, <4>2
    <3> HIDE DEF Before, added
    <3>5. IsFiniteSet(Before(m)) /\ Cardinality(Before(m)) \in Nat
      BY <3>3, DirectedAssumption, FS_Subset, FS_CardinalityType
    <3>6. /\ IsFiniteSet(Before(m) \cup {m})
          /\ Cardinality(Before(m) \cup {m}) <= Cap
      BY <1>2, <3>3, <3>5, FS_AddElement
    <3> QED BY <1>2, <3>4, <3>6, CardinalityGrows
  <2> QED BY <2>1, <2>2
<1> QED BY <1>4, <1>6, <1>8 DEF Good, Capped

LEMMA CommandsGood ==
  ASSUME NEW q \in Good, NEW r \in 0..Rounds
  PROVE  /\ Ticked(q, r) \in Good /\ Synced(q, r) \in Good
         /\ \A s \in Sinks : Flagged(q, s) \in Good /\ Completed(q, s) \in Good
<1>1. Ticked(q, r) \in Good
  BY BurnedGood, PromotedGood DEF Ticked
<1>2. Synced(q, r) \in Good
  BY RetiredGood, EnqueuedGood DEF Synced
<1> QED BY <1>1, <1>2, FlaggedGood, CompletedGood

-----------------------------------------------------------------------------
(* The invariant *)

LEMMA LoadKeeps ==
  ASSUME DirectedInv, NEW p \in Procs, NEW q \in Good, NEW w, Load(p, q, w)
  PROVE  /\ copy' \in [Procs -> {<<>>} \cup {<<c>> : c \in Good}]
         /\ stale' \subseteq Procs
  BY DEF Load, DirectedInv

LEMMA DirectedInvInit == DirectedInit => DirectedInv
<1> SUFFICES ASSUME DirectedInit PROVE DirectedInv
  OBVIOUS
<1>1. task \in Queue
  BY NoneIsTask DEF DirectedInit, Queue
<1>2. Active(task) = {} /\ FrontierTasks(task) = {}
  BY DEF DirectedInit, Active, FrontierTasks, Open, None
<1>3. task \in Good
  <2>1. Cardinality({}) <= Cap
    BY FS_EmptySet, DirectedAssumption
  <2> QED BY <1>1, <1>2, <2>1 DEF Good, AtMostOne, Capped
<1>4. 1 \in 1..Rounds
  BY DirectedAssumption
<1> QED BY <1>3, <1>4 DEF DirectedInit, DirectedInv

LEMMA DirectedInvStep == DirectedInv /\ [DirectedNext]_directedVars => DirectedInv'
<1> SUFFICES ASSUME DirectedInv, [DirectedNext]_directedVars
             PROVE  DirectedInv'
  OBVIOUS
<1>0. /\ Loop \in Procs /\ Sessions \subseteq Procs
      /\ task \in Good /\ round \in 1..Rounds /\ round \in 0..Rounds /\ 0 \in 0..Rounds
  BY DirectedAssumption DEF Procs, DirectedInv
<1>1. CASE Measure
  BY <1>1 DEF Measure, DirectedInv
<1>2. CASE RoundSyncs
  <2>1. Load(Loop, Synced(task, round), Synced(task, round) # task) /\ UNCHANGED <<task, sink, round>>
    BY <1>2 DEF RoundSyncs, LoadIfChanged
  <2> QED BY <1>0, <2>1, CommandsGood, LoadKeeps DEF DirectedInv
<1>3. CASE RoundTicks
  <2>1. Load(Loop, Ticked(task, round), Ticked(task, round) # task) /\ UNCHANGED <<task, sink, round>>
    BY <1>3 DEF RoundTicks, LoadIfChanged
  <2> QED BY <1>0, <2>1, CommandsGood, LoadKeeps DEF DirectedInv
<1>4. CASE RoundEnds
  <2>1. round' \in 1..Rounds
    BY <1>0, <1>4, DirectedAssumption DEF RoundEnds
  <2> QED BY <1>4, <2>1 DEF RoundEnds, DirectedInv
<1>5. CASE NextCampaign
  <2>1. round' \in 1..Rounds
    BY <1>5, DirectedAssumption DEF NextCampaign
  <2> QED BY <1>5, <2>1 DEF NextCampaign, DirectedInv
<1>6. ASSUME NEW p \in Procs, Commit(p) PROVE DirectedInv'
  <2>1. copy[p] \in {<<q>> : q \in Good}
    BY <1>6 DEF Commit, DirectedInv
  <2>2. task' \in Good
    BY <1>6, <2>1 DEF Commit
  <2>3. copy' \in [Procs -> {<<>>} \cup {<<q>> : q \in Good}] /\ stale' \subseteq Procs
    BY <1>6 DEF Commit, DirectedInv
  <2> QED BY <1>6, <2>2, <2>3 DEF Commit, DirectedInv
<1>7. ASSUME NEW p \in Procs, Fails(p) PROVE DirectedInv'
  BY <1>7 DEF Fails, DirectedInv
<1>8. ASSUME NEW p \in Sessions, SessionLoads(p) PROVE DirectedInv'
  <2>1. \E q \in Good : \E w : Load(p, q, w)
    <3>1. CASE LoadIfChanged(p, Synced(task, 0))
      BY <1>0, <3>1, CommandsGood DEF LoadIfChanged
    <3>2. ASSUME NEW s \in Sinks, Load(p, Flagged(task, s), TRUE)
          PROVE  \E q \in Good : \E w : Load(p, q, w)
      BY <1>0, <3>2, CommandsGood
    <3>3. ASSUME NEW s \in Sinks, LoadIfChanged(p, Completed(task, s))
          PROVE  \E q \in Good : \E w : Load(p, q, w)
      BY <1>0, <3>3, CommandsGood DEF LoadIfChanged
    <3>4. ASSUME NEW s \in Sinks, Load(p, task, s \in Open(task))
          PROVE  \E q \in Good : \E w : Load(p, q, w)
      BY <1>0, <3>4
    <3> QED BY <1>8, <3>1, <3>2, <3>3, <3>4 DEF SessionLoads
  <2>2. UNCHANGED <<task, sink, round>> /\ p \in Procs
    BY <1>0, <1>8 DEF SessionLoads
  <2> QED BY <2>1, <2>2, LoadKeeps DEF DirectedInv
<1>9. ASSUME NEW s \in Sinks, Rescan(s) PROVE DirectedInv'
  BY <1>9 DEF Rescan, DirectedInv
<1>10. CASE UNCHANGED directedVars
  BY <1>10 DEF directedVars, DirectedInv
<1> QED BY <1>1, <1>2, <1>3, <1>4, <1>5, <1>6, <1>7, <1>8, <1>9, <1>10 DEF DirectedNext

LEMMA DirectedInvariant == DirectedSpec => []DirectedInv
  BY DirectedInvInit, DirectedInvStep, PTL DEF DirectedSpec

-----------------------------------------------------------------------------
(* The theorems *)

\* Whatever commands overwrite each other, tasks keep their types, and no task
\* has used its whole budget.
THEOREM DirectedTypeCorrect == DirectedSpec => []DirectedTypeOK
<1>1. DirectedInv => DirectedTypeOK
  BY DEF DirectedInv, Good, Queue, Task, DirectedTypeOK
<1> QED BY <1>1, DirectedInvariant, PTL

\* However many sessions rewrite the queue over each other, the target has one
\* task to aim at (tick_budget promotes "if nothing is active").
THEOREM OneActiveTask == DirectedSpec => []OneActive
<1>1. DirectedInv => OneActive
  BY DEF DirectedInv, Good, AtMostOne, Active, OneActive
<1> QED BY <1>1, DirectedInvariant, PTL

\* The tasks the frontier opened stay within max_tasks_per_target (sync_queue),
\* although each sync counts in a copy that may be outdated when it is written.
THEOREM FrontierIsCapped == DirectedSpec => []FrontierWithinCap
<1>1. DirectedInv => FrontierWithinCap
  BY DEF DirectedInv, Good, Capped, FrontierTasks, FrontierWithinCap
<1> QED BY <1>1, DirectedInvariant, PTL

-----------------------------------------------------------------------------
(* What a command's copy has to do with the file *)

\* Of the tasks that are closed in the file, q opens only new ones.
OpensNew(q) ==
  \A s \in Sinks \ Open(task) :
    s \in Open(q) => \/ q[s] = New("agent", Agent, 0)
                     \/ \E r \in 0..Rounds : q[s] = New("frontier", Frontier, r)

\* A copy that nobody has written before is what its command makes of the file.
CopyInv ==
  /\ \A p \in Procs \ stale : copy[p] # <<>> => OpensNew(copy[p][1])
  /\ pc = "end" /\ Loop \notin stale /\ copy[Loop] # <<>>
       => copy[Loop][1] = Ticked(task, round)

\* The command of p found the file as it is.
LEMMA CommandsOpenNew ==
  ASSUME NEW r \in 0..Rounds, task \in Good
  PROVE  /\ OpensNew(Ticked(task, r)) /\ OpensNew(Synced(task, r)) /\ OpensNew(task)
         /\ \A s \in Sinks : OpensNew(Flagged(task, s)) /\ OpensNew(Completed(task, s))
<1>1. OpensNew(Ticked(task, r))
  <2> DEFINE b == Burned(task, r)
  <2>1. ASSUME NEW s \in Sinks \ Open(task) PROVE s \notin Open(Ticked(task, r))
    <3>1. task[s].state \notin {"queued", "active"}
      BY DEF Open
    <3>2. b[s] = task[s]
      BY <3>1 DEF Burned
    <3>3. Promoted(b)[s] = b[s]
      <4> HIDE DEF b
      <4>1. ~IsNext(b, s)
        BY <3>1, <3>2 DEF IsNext
      <4> QED BY <4>1 DEF Promoted, Activated
    <3> QED BY <3>1, <3>2, <3>3 DEF Ticked, Open
  <2> QED BY <2>1 DEF OpensNew
<1>2. OpensNew(Synced(task, r))
  <2> DEFINE q == Retired(task)
  <2>1. ASSUME NEW s \in Sinks \ Open(task), s \in Open(Enqueued(q, r))
        PROVE  Enqueued(q, r)[s] = New("frontier", Frontier, r)
    <3>1. q[s].state \notin {"queued", "active"}
      BY DEF Open, Retired, None
    <3>2. Enqueued(q, r)[s] \in {q[s], New("frontier", Frontier, r)}
      <4> HIDE DEF q
      <4> QED BY DEF Enqueued
    <3> QED BY <2>1, <3>1, <3>2 DEF Open
  <2> QED BY <2>1 DEF OpensNew, Synced
<1>3. ASSUME NEW s \in Sinks PROVE OpensNew(Flagged(task, s))
  <2>1. ASSUME NEW t \in Sinks \ Open(task), t \in Open(Flagged(task, s))
        PROVE  Flagged(task, s)[t] = New("agent", Agent, 0)
    <3>1. t = s
      <4>1. t # s => Flagged(task, s)[t] = task[t]
        BY DEF Flagged, Good, Queue
      <4> QED BY <2>1, <4>1 DEF Open
    <3> QED BY <3>1 DEF Flagged, Good, Queue
  <2> QED BY <2>1 DEF OpensNew
<1>4. ASSUME NEW s \in Sinks PROVE OpensNew(Completed(task, s))
  <2>1. \A t \in Sinks : Completed(task, s)[t] \in {task[t], None}
    BY DEF Completed, Good, Queue
  <2> QED BY <2>1 DEF OpensNew, Open, None
<1> QED BY <1>1, <1>2, <1>3, <1>4 DEF OpensNew

\* A copy that is loaded from the file opens new tasks only, and so the others.
LEMMA LoadOpensNew ==
  ASSUME DirectedInv, CopyInv, NEW p \in Procs, NEW q, NEW w, Load(p, q, w), OpensNew(q),
         task' = task
  PROVE  (\A o \in Procs \ stale : copy[o] # <<>> => OpensNew(copy[o][1]))'
<1> SUFFICES ASSUME NEW o \in (Procs \ stale)', copy'[o] # <<>>
             PROVE  OpensNew(copy[o][1])'
  OBVIOUS
<1>1. CASE o = p
  <2>1. copy[p] = <<>> /\ copy \in [Procs -> {<<>>} \cup {<<c>> : c \in Good}]
    BY DEF Load, DirectedInv
  <2>2. copy'[p] = <<q>>
    BY <1>1, <2>1 DEF Load
  <2> QED BY <1>1, <2>2 DEF OpensNew, Open
<1>2. CASE o # p
  <2>1. copy'[o] = copy[o] /\ o \notin stale
    BY <1>2 DEF Load, DirectedInv
  <2> QED BY <2>1 DEF CopyInv, OpensNew, Open
<1> QED BY <1>1, <1>2

LEMMA CopyInvStep ==
  DirectedInv /\ CopyInv /\ [DirectedNext]_directedVars => CopyInv'
<1> SUFFICES ASSUME DirectedInv, CopyInv, [DirectedNext]_directedVars
             PROVE  CopyInv'
  OBVIOUS
<1> DEFINE Fresh == \A p \in Procs \ stale : copy[p] # <<>> => OpensNew(copy[p][1])
           Tick == pc = "end" /\ Loop \notin stale /\ copy[Loop] # <<>>
                     => copy[Loop][1] = Ticked(task, round)
<1>a. SUFFICES Fresh' /\ Tick'
  BY DEF CopyInv
<1>b. Fresh /\ Tick
  BY DEF CopyInv
<1>0. /\ Loop \in Procs /\ Sessions \subseteq Procs /\ Loop \notin Sessions
      /\ task \in Good /\ round \in 0..Rounds /\ 0 \in 0..Rounds
      /\ copy \in [Procs -> {<<>>} \cup {<<c>> : c \in Good}]
  BY DirectedAssumption DEF Procs, DirectedInv
<1>c. ASSUME UNCHANGED <<task, copy, stale>> PROVE Fresh'
  BY <1>b, <1>c DEF OpensNew, Open
<1>1. CASE Measure \/ RoundEnds \/ NextCampaign \/ \E s \in Sinks : Rescan(s)
  <2>1. UNCHANGED <<task, copy, stale>>
    BY <1>1 DEF Measure, Rescan, RoundEnds, NextCampaign
  <2>2. pc' = "end" /\ copy'[Loop] # <<>> => UNCHANGED <<pc, round>>
    BY <1>1 DEF Measure, Rescan, RoundEnds, NextCampaign
  <2>3. ASSUME UNCHANGED <<task, copy, stale, pc, round>> PROVE Tick'
    BY <1>b, <2>3
  <2> QED BY <1>c, <2>1, <2>2, <2>3
<1>2. CASE RoundSyncs
  <2>1. Load(Loop, Synced(task, round), Synced(task, round) # task) /\ UNCHANGED task /\ pc' = "tick"
    BY <1>2 DEF RoundSyncs, LoadIfChanged
  <2> QED BY <1>0, <2>1, CommandsOpenNew, LoadOpensNew
<1>3. CASE RoundTicks
  <2>1. /\ Load(Loop, Ticked(task, round), Ticked(task, round) # task)
        /\ UNCHANGED <<task, round>>
    BY <1>3 DEF RoundTicks, LoadIfChanged
  <2>2. copy'[Loop] # <<>> => copy'[Loop] = <<Ticked(task, round)>>
    BY <1>0, <2>1 DEF Load
  <2>3. Ticked(task, round)' = Ticked(task, round)
    BY <2>1
  <2> QED BY <1>0, <2>1, <2>2, <2>3, CommandsOpenNew, LoadOpensNew
<1>4. ASSUME NEW p \in Procs, Commit(p) PROVE Fresh' /\ Tick'
  <2>1. \A o \in Procs \ stale' : copy'[o] = <<>>
    BY <1>0, <1>4 DEF Commit
  <2> QED BY <1>0, <2>1
<1>5. ASSUME NEW p \in Procs, Fails(p) PROVE Fresh' /\ Tick'
  <2>1. copy'[p] = <<>> /\ \A o \in Procs \ {p} : copy'[o] = copy[o] /\ (o \in stale' <=> o \in stale)
    BY <1>0, <1>5 DEF Fails
  <2>2. UNCHANGED <<task, pc, round>>
    BY <1>5 DEF Fails
  <2>3. Fresh'
    BY <1>b, <2>1, <2>2 DEF OpensNew, Open
  <2>4. Ticked(task, round)' = Ticked(task, round)
    BY <2>2
  <2>5. Tick'
    BY <1>0, <1>b, <2>1, <2>2, <2>4
  <2> QED BY <2>3, <2>5
<1>6. ASSUME NEW p \in Sessions, SessionLoads(p) PROVE Fresh' /\ Tick'
  <2>1. \E q : \E w : Load(p, q, w) /\ OpensNew(q)
    <3>1. CASE LoadIfChanged(p, Synced(task, 0))
      BY <1>0, <3>1, CommandsOpenNew DEF LoadIfChanged
    <3>2. ASSUME NEW s \in Sinks, Load(p, Flagged(task, s), TRUE)
          PROVE  \E q : \E w : Load(p, q, w) /\ OpensNew(q)
      BY <1>0, <3>2, CommandsOpenNew
    <3>3. ASSUME NEW s \in Sinks, LoadIfChanged(p, Completed(task, s))
          PROVE  \E q : \E w : Load(p, q, w) /\ OpensNew(q)
      BY <1>0, <3>3, CommandsOpenNew DEF LoadIfChanged
    <3>4. ASSUME NEW s \in Sinks, Load(p, task, s \in Open(task))
          PROVE  \E q : \E w : Load(p, q, w) /\ OpensNew(q)
      BY <1>0, <3>4, CommandsOpenNew
    <3> QED BY <1>6, <3>1, <3>2, <3>3, <3>4 DEF SessionLoads
  <2>2. p \in Procs /\ p # Loop /\ UNCHANGED <<task, pc, round>>
    BY <1>0, <1>6 DEF SessionLoads
  <2>3. Fresh'
    BY <2>1, <2>2, LoadOpensNew
  <2>4. copy'[Loop] = copy[Loop] /\ (Loop \in stale' <=> Loop \in stale)
    BY <1>0, <2>1, <2>2 DEF Load
  <2>5. Ticked(task, round)' = Ticked(task, round)
    BY <2>2
  <2>6. Tick'
    BY <1>b, <2>2, <2>4, <2>5
  <2> QED BY <2>3, <2>6
<1>7. CASE UNCHANGED directedVars
  <2>1. UNCHANGED <<task, copy, stale, pc, round>>
    BY <1>7 DEF directedVars
  <2>2. Ticked(task, round)' = Ticked(task, round)
    BY <2>1
  <2> QED BY <1>b, <1>c, <2>1, <2>2
<1> HIDE DEF Fresh, Tick
<1> QED BY <1>1, <1>2, <1>3, <1>4, <1>5, <1>6, <1>7 DEF DirectedNext

LEMMA CopyInvariant == DirectedSpec => [](DirectedInv /\ CopyInv)
<1>1. DirectedInit => CopyInv
  BY DEF DirectedInit, CopyInv, Procs
<1> QED BY <1>1, DirectedInvariant, CopyInvStep, PTL DEF DirectedSpec

\* A command writes the task it closed over again only when it overwrites what
\* another wrote meanwhile; else what was closed comes back as new.
THEOREM ClosedTasksStayClosed == DirectedSpec => ClosedUnlessOverlapped
<1>1. ASSUME DirectedInv, CopyInv, [DirectedNext]_directedVars,
             NEW s \in Sinks \ Open(task), s \in Open(task')
      PROVE  \/ task'[s] = New("agent", Agent, 0)
             \/ \E r \in 0..Rounds : task'[s] = New("frontier", Frontier, r)
             \/ \E p \in stale : Writes(p)
  <2>1. task' # task
    BY <1>1
  <2>2. PICK p \in Procs : Commit(p)
    BY <1>1, <2>1 DEF DirectedNext, directedVars, Measure, RoundSyncs, RoundTicks, RoundEnds,
                      NextCampaign, Fails, SessionLoads, Rescan
  <2>3. Writes(p)
    BY <1>1, <2>2 DEF Commit, Writes, DirectedInv
  <2>4. CASE p \in stale
    BY <2>3, <2>4
  <2>5. CASE p \notin stale
    BY <1>1, <2>2, <2>5 DEF Commit, CopyInv, OpensNew
  <2> QED BY <2>4, <2>5
<1>2. DirectedInv /\ CopyInv /\ [DirectedNext]_directedVars =>
        [\A s \in Sinks \ Open(task) :
           s \in Open(task')
           => \/ task'[s] = New("agent", Agent, 0)
              \/ \E r \in 0..Rounds : task'[s] = New("frontier", Frontier, r)
              \/ \E p \in stale : Writes(p)]_directedVars
  BY <1>1
<1> QED BY <1>2, CopyInvariant, PTL DEF DirectedSpec, ClosedUnlessOverlapped

-----------------------------------------------------------------------------
(* Rotation *)

\* Some task is the first of the queued ones.
LEMMA SomeIsNext ==
  ASSUME NEW q \in Queue, \E s \in Sinks : q[s].state = "queued"
  PROVE  \E s \in Sinks : IsNext(q, s)
<1> DEFINE W == {s \in Sinks : q[s].state = "queued"}
           P == {q[s].prio : s \in W}
<1>1. W # {} /\ W \subseteq Nat /\ \A s \in W : q[s].prio \in 0..Agent /\ q[s].added \in Nat
  <2>1. \A s \in Sinks : q[s] \in Task
    BY DEF Queue
  <2>2. ASSUME NEW s \in Sinks PROVE q[s].prio \in 0..Agent /\ q[s].added \in Nat
    <3>1. q[s].prio \in 0..Agent /\ q[s].added \in 0..Rounds
      BY <2>1 DEF Task
    <3> QED BY <3>1
  <2>3. W # {} /\ W \subseteq Sinks /\ Sinks \subseteq Nat
    BY DirectedAssumption
  <2> HIDE DEF W
  <2> QED BY <2>2, <2>3
<1>2. P \subseteq 0..Agent /\ P # {} /\ IsFiniteSet(0..Agent) /\ 0..Agent \subseteq Nat
  <2>1. 0 \in Int /\ Agent \in Int
    BY DirectedAssumption
  <2>2. IsFiniteSet(0..Agent)
    BY <2>1, FS_Interval
  <2>3. P \subseteq 0..Agent /\ P # {}
    BY <1>1
  <2> HIDE DEF P
  <2> QED BY <2>2, <2>3
<1>3. PICK p \in P : \A n \in P : n <= p
  <2> HIDE DEF P
  <2>1. IsFiniteSet(P) /\ P \subseteq Nat
    BY <1>2, FS_Subset
  <2> QED BY <1>2, <2>1, Greatest
<1> DEFINE V == {s \in W : q[s].prio = p}
           A == {q[s].added : s \in V}
<1>4. A \subseteq Nat /\ A # {}
  BY <1>1
<1>5. PICK a \in A : \A n \in A : a <= n
  <2> HIDE DEF A
  <2> QED BY <1>4, Least
<1> DEFINE K == {s \in V : q[s].added = a}
<1>6. K \subseteq Nat /\ K # {}
  BY <1>1
<1>7. PICK s \in K : \A t \in K : s <= t
  <2> HIDE DEF K
  <2> QED BY <1>6, Least
<1>8. ASSUME NEW t \in Sinks \ {s}, q[t].state = "queued" PROVE Precedes(q, s, t)
  <2>1. q[t].prio \in Nat /\ q[t].added \in Nat /\ t \in Nat /\ s \in Nat /\ p \in Nat /\ a \in Nat
    BY <1>1, <1>2, <1>4, <1>8
  <2>2. q[s].prio = p /\ q[s].added = a
    OBVIOUS
  <2>3. q[t].prio <= p
    BY <1>3, <1>8
  <2>4. q[t].prio = p => a <= q[t].added
    BY <1>5, <1>8
  <2>5. q[t].prio = p /\ q[t].added = a => s <= t
    BY <1>7, <1>8
  <2> QED BY <2>1, <2>2, <2>3, <2>4, <2>5 DEF Precedes
<1> QED BY <1>7, <1>8 DEF IsNext

LEMMA TickedIsAimed ==
  ASSUME NEW q \in Good, NEW r \in 0..Rounds
  PROVE  Open(Ticked(q, r)) = {} \/ \E s \in Sinks : Ticked(q, r)[s].state = "active"
<1> DEFINE b == Burned(q, r)
<1>1. b \in Queue
  BY BurnedGood DEF Good
<1> HIDE DEF b
<1>2. CASE \E s \in Sinks : b[s].state = "active"
  BY <1>2 DEF Ticked, Promoted, b
<1>3. CASE \A s \in Sinks : b[s].state # "active"
  <2>1. Ticked(q, r) = Activated(b)
    BY <1>3 DEF Ticked, Promoted, b
  <2>2. CASE \E s \in Sinks : b[s].state = "queued"
    <3>1. PICK s \in Sinks : IsNext(b, s)
      BY <1>1, <2>2, SomeIsNext
    <3>2. Activated(b)[s].state = "active"
      BY <1>1, <3>1 DEF Activated, Queue, Task
    <3> QED BY <2>1, <3>2
  <2>3. CASE \A s \in Sinks : b[s].state # "queued"
    <3>1. \A s \in Sinks : Activated(b)[s] = b[s]
      BY <2>3 DEF Activated, IsNext
    <3> QED BY <1>3, <2>1, <2>3, <3>1 DEF Open
  <2> QED BY <2>2, <2>3
<1> QED BY <1>2, <1>3

LEMMA TickedRotates ==
  ASSUME task \in Good, NEW r \in 0..Rounds, NEW s \in Sinks, NEW t \in Sinks,
         Exhausted(Ticked(task, r), s), Ticked(task, r)[s].state = "active",
         Ticked(task, r)[t].state = "queued"
  PROVE  task[t].prio < Ticked(task, r)[s].prio \/ task[t].added >= r
<1> DEFINE b == Burned(task, r)
<1>1. task[s].state = "active" /\ task[s].used + 1 >= Budget /\ task[s] \in Task
  BY DEF Exhausted, Good, Queue
<1>2. b[s] = Requeued(task[s], r)
  BY <1>1, DirectedAssumption DEF Burned, Task
<1>3. b[s].state = "queued" /\ b[s].added = r
  BY <1>1, <1>2 DEF Requeued, Task
<1>4. ASSUME NEW u \in Sinks \ {s} PROVE b[u] = task[u] /\ task[u].state # "active"
  BY <1>1, <1>4 DEF Burned, Good, AtMostOne, Active
<1>5. b \in Queue
  BY BurnedGood DEF Good
<1> HIDE DEF b
<1>6. Ticked(task, r) = Activated(b)
  BY <1>3, <1>4 DEF Ticked, Promoted, b
<1>7. IsNext(b, s) /\ Activated(b)[s] = [b[s] EXCEPT !.state = "active"]
  BY <1>3, <1>6 DEF Activated
<1>8. t # s /\ b[t] = Activated(b)[t] /\ b[t].state = "queued" /\ b[t] = task[t]
  BY <1>4, <1>5, <1>6, <1>7 DEF Activated, Queue, Task
<1>9. Precedes(b, s, t)
  BY <1>7, <1>8 DEF IsNext
<1>10. Ticked(task, r)[s].prio = b[s].prio
  BY <1>5, <1>6, <1>7 DEF Queue, Task
<1>11. b[t].prio \in Nat /\ b[s].prio \in Nat /\ b[t].added \in Nat /\ r \in Nat
  BY <1>5 DEF Queue, Task
<1> QED BY <1>3, <1>8, <1>9, <1>10, <1>11 DEF Precedes

\* After a tick that found the file as it is, the target is aimed at something as
\* long as a task is open, and a task that used up its budget goes on at once only
\* before cheaper ones or ones queued no earlier (tick_budget).
THEOREM TicksRotate == DirectedSpec => RotatesAfterTick
<1>1. ASSUME DirectedInv, CopyInv, pc = "end", Writes(Loop), Loop \notin stale
      PROVE  /\ Open(task') = {} \/ \E s \in Sinks : task'[s].state = "active"
             /\ \A s, t \in Sinks :
                  Exhausted(task', s) /\ task'[s].state = "active" /\ task'[t].state = "queued"
                  => task[t].prio < task'[s].prio \/ task[t].added >= round
  <2>1. task' = Ticked(task, round) /\ task \in Good /\ round \in 0..Rounds
    BY <1>1 DEF Writes, CopyInv, DirectedInv
  <2> QED BY <2>1, TickedIsAimed, TickedRotates
<1>2. DirectedInv /\ CopyInv /\ [DirectedNext]_directedVars =>
        [pc = "end" /\ Writes(Loop) /\ task' # task /\ Loop \notin stale
         => /\ Open(task') = {} \/ \E s \in Sinks : task'[s].state = "active"
            /\ \A s, t \in Sinks :
                 Exhausted(task', s) /\ task'[s].state = "active" /\ task'[t].state = "queued"
                 => task[t].prio < task'[s].prio \/ task[t].added >= round]_directedVars
  BY <1>1
<1> QED BY <1>2, CopyInvariant, PTL DEF DirectedSpec, RotatesAfterTick

=============================================================================
