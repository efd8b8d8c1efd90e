--------------------------- MODULE TargetWork_proofs ---------------------------
(***************************************************************************)
(* Proofs about the kinds of work on a target that MCTargetWork checks     *)
(* together.                                                               *)
(***************************************************************************)
EXTENDS PovPredicate, WantedJobs, FullCampaign, Minimization, Crossover,
        FiniteSetTheorems, WellFoundedInduction, TLAPS

-----------------------------------------------------------------------------
(* Credit for a proof of vulnerability *)

JobEntry ==
  [state : {"none", "queued", "running", "done", "parked"}, attempt : Nat, ts : Nat]

PovTypeOK ==
  /\ now \in Nat
  /\ job \in [Hyp -> JobEntry]
  /\ found \in [Origin -> Nat]
  /\ refuted \subseteq Hyp
  /\ exited \subseteq Hyp
  /\ claimedAt \in [Hyp -> Nat]

\* Findings are not from the future, and the claim of a running attempt is an
\* event of its job, so that the last event is no older.
ClockInv ==
  /\ \A what \in Origin : found[what] <= now
  /\ \A h \in Hyp : job[h].ts <= now
  /\ \A h \in Hyp : job[h].state = "running" => claimedAt[h] <= job[h].ts

PovInv == PovTypeOK /\ ClockInv /\ CreditIsFresh

LEMMA PovInitInv == PovInit => PovInv
<1> SUFFICES ASSUME PovInit PROVE PovInv
  OBVIOUS
<1>1. PovTypeOK
  BY DEF PovInit, PovTypeOK, JobEntry
<1>2. ClockInv /\ CreditIsFresh
  BY DEF PovInit, ClockInv, CreditIsFresh
<1> QED BY <1>1, <1>2 DEF PovInv

\* What one event of job h does to the jobs.
LEMMA EventEffect ==
  ASSUME PovTypeOK, NEW h \in Hyp, NEW e \in JobEntry, Event(h, e)
  PROVE  /\ now' \in Nat /\ now <= now'
         /\ job' \in [Hyp -> JobEntry]
         /\ \A k \in Hyp : k # h => job'[k] = job[k]
         /\ job'[h].state = e.state /\ job'[h].ts = now'
<1>1. now' \in Nat /\ now <= now'
  BY DEF Event, Passing, PovTypeOK
<1> DEFINE f == [e EXCEPT !.ts = now']
<1>2. f \in JobEntry /\ f.state = e.state /\ f.ts = now'
  BY <1>1 DEF JobEntry
<1>3. job' = [job EXCEPT ![h] = f]
  BY DEF Event
<1> HIDE DEF f
<1> QED BY <1>1, <1>2, <1>3 DEF PovTypeOK

\* The same for an event that sets the state, and may open the next attempt.
LEMMA StateEffect ==
  ASSUME PovTypeOK, NEW h \in Hyp,
         NEW s \in {"none", "queued", "running", "done", "parked"},
         NEW e, Event(h, e),
         \/ e = [job[h] EXCEPT !.state = s]
         \/ e = [job[h] EXCEPT !.state = s, !.attempt = @ + 1]
  PROVE  /\ now' \in Nat /\ now <= now'
         /\ job' \in [Hyp -> JobEntry]
         /\ \A k \in Hyp : k # h => job'[k] = job[k]
         /\ job'[h].state = s /\ job'[h].ts = now'
<1>1. job[h] \in JobEntry
  BY DEF PovTypeOK
<1>2. CASE e = [job[h] EXCEPT !.state = s]
  BY <1>1, <1>2, EventEffect DEF JobEntry
<1>3. CASE e = [job[h] EXCEPT !.state = s, !.attempt = @ + 1]
  <2>1. e = [state |-> s, attempt |-> job[h].attempt + 1, ts |-> job[h].ts]
    BY <1>1, <1>3 DEF JobEntry
  <2>2. job[h].attempt + 1 \in Nat /\ job[h].ts \in Nat
    BY <1>1 DEF JobEntry
  <2>3. e \in JobEntry /\ e.state = s
    BY <2>1, <2>2 DEF JobEntry
  <2> QED BY <2>3, EventEffect
<1> QED BY <1>2, <1>3

LEMMA PovStep == PovInv /\ [PovNext]_povVars => PovInv'
<1> SUFFICES ASSUME PovTypeOK, ClockInv, CreditIsFresh, [PovNext]_povVars
             PROVE  PovInv'
  BY DEF PovInv
<1>1. ASSUME NEW h \in Hyp, Enqueue(h)
      PROVE  PovInv'
  <2>1. PICK e : e = [job[h] EXCEPT !.state = "queued"] /\ Event(h, e)
    BY <1>1 DEF Enqueue
  <2>2. /\ now' \in Nat /\ now <= now' /\ job' \in [Hyp -> JobEntry]
        /\ \A k \in Hyp : k # h => job'[k] = job[k]
        /\ job'[h].state = "queued" /\ job'[h].ts = now'
    BY <2>1, StateEffect
  <2>3. job[h].state = "none" /\ UNCHANGED <<found, refuted, exited, claimedAt>>
    BY <1>1 DEF Enqueue
  <2>4. ClockInv'
    BY <2>2, <2>3 DEF PovTypeOK, JobEntry, ClockInv
  <2> QED BY <2>2, <2>3, <2>4 DEF PovInv, PovTypeOK, CreditIsFresh
<1>2. ASSUME NEW h \in Hyp, Claim(h)
      PROVE  PovInv'
  <2>1. PICK e : e = [job[h] EXCEPT !.state = "running"] /\ Event(h, e)
    BY <1>2 DEF Claim
  <2>2. /\ now' \in Nat /\ now <= now' /\ job' \in [Hyp -> JobEntry]
        /\ \A k \in Hyp : k # h => job'[k] = job[k]
        /\ job'[h].state = "running" /\ job'[h].ts = now'
    BY <2>1, StateEffect
  <2>3. \A k \in Hyp : claimedAt'[k] = IF k = h THEN now' ELSE claimedAt[k]
    BY <1>2 DEF Claim, PovTypeOK
  <2>4. PovTypeOK'
    BY <1>2, <2>2 DEF Claim, PovTypeOK
  <2>5. ClockInv'
    BY <1>2, <2>2, <2>3 DEF Claim, PovTypeOK, JobEntry, ClockInv
  <2>6. CreditIsFresh'
    BY <1>2, <2>2, <2>3 DEF Claim, CreditIsFresh
  <2> QED BY <2>4, <2>5, <2>6 DEF PovInv
<1>3. ASSUME NEW h \in Hyp, Judge(h)
      PROVE  PovInv'
  <2>0. PICK s \in {"done", "queued", "parked"} :
          \E e : /\ Event(h, e)
                 /\ s = "done" => Passes(h)
                 /\ \/ e = [job[h] EXCEPT !.state = s]
                    \/ e = [job[h] EXCEPT !.state = s, !.attempt = @ + 1]
    BY <1>3 DEF Judge
  <2>1. PICK e : /\ Event(h, e)
                 /\ s = "done" => Passes(h)
                 /\ \/ e = [job[h] EXCEPT !.state = s]
                    \/ e = [job[h] EXCEPT !.state = s, !.attempt = @ + 1]
    BY <2>0
  <2>2. /\ now' \in Nat /\ now <= now' /\ job' \in [Hyp -> JobEntry]
        /\ \A k \in Hyp : k # h => job'[k] = job[k]
        /\ job'[h].state \in {"done", "queued", "parked"} /\ job'[h].ts = now'
        /\ job'[h].state = "done" => Passes(h)
    BY <2>1, StateEffect
  <2>3. job[h].state = "running" /\ UNCHANGED <<found, refuted, exited, claimedAt>>
    BY <1>3 DEF Judge
  <2>4. Passes(h) => h \in refuted \/ \E what \in Origin : found[what] >= claimedAt[h]
    BY <2>3 DEF Passes, ClockInv, PovTypeOK, JobEntry
  <2>5. CreditIsFresh'
    BY <2>2, <2>3, <2>4 DEF CreditIsFresh
  <2>6. ClockInv'
    BY <2>2, <2>3 DEF PovTypeOK, JobEntry, ClockInv
  <2> QED BY <2>2, <2>3, <2>5, <2>6 DEF PovInv, PovTypeOK
<1>4. ASSUME NEW h \in Hyp, Unjudged(h)
      PROVE  PovInv'
  <2>0. PICK s \in {"queued", "parked"} :
          \E e : e = [job[h] EXCEPT !.state = s] /\ Event(h, e)
    BY <1>4 DEF Unjudged
  <2>1. PICK e : e = [job[h] EXCEPT !.state = s] /\ Event(h, e)
    BY <2>0
  <2>2. /\ now' \in Nat /\ now <= now' /\ job' \in [Hyp -> JobEntry]
        /\ \A k \in Hyp : k # h => job'[k] = job[k]
        /\ job'[h].state \in {"queued", "parked"} /\ job'[h].ts = now'
    BY <2>1, StateEffect
  <2>3. UNCHANGED <<found, refuted, exited, claimedAt>>
    BY <1>4 DEF Unjudged
  <2>4. ClockInv'
    BY <2>2, <2>3 DEF PovTypeOK, JobEntry, ClockInv
  <2> QED BY <2>2, <2>3, <2>4 DEF PovInv, PovTypeOK, CreditIsFresh
<1>5. ASSUME NEW what \in Origin, Record(what)
      PROVE  PovInv'
  <2>1. now' \in Nat /\ now <= now'
    BY <1>5 DEF Record, Passing, PovTypeOK
  <2>2. \A o \in Origin : found'[o] = IF o = what THEN now' ELSE found[o]
    BY <1>5 DEF Record, PovTypeOK
  <2>3. PovTypeOK'
    BY <1>5, <2>1 DEF Record, PovTypeOK
  <2>4. \A o \in Origin : found[o] <= found'[o] /\ found'[o] <= now'
    BY <2>1, <2>2 DEF ClockInv, PovTypeOK
  <2>5. ClockInv'
    BY <1>5, <2>1, <2>4 DEF Record, ClockInv, PovTypeOK, JobEntry
  <2>6. CreditIsFresh'
    <3> SUFFICES ASSUME NEW h \in Hyp, job[h].state = "done", h \notin refuted
                 PROVE  \E o \in Origin : found'[o] >= claimedAt[h]
      BY <1>5 DEF Record, CreditIsFresh
    <3>1. PICK o \in Origin : found[o] >= claimedAt[h]
      BY DEF CreditIsFresh
    <3>2. found[o] \in Nat /\ found'[o] \in Nat /\ claimedAt[h] \in Nat
      BY <2>3 DEF PovTypeOK
    <3> QED BY <2>4, <3>1, <3>2
  <2> QED BY <2>3, <2>5, <2>6 DEF PovInv
<1>6. ASSUME NEW h \in Hyp, Refute(h)
      PROVE  PovInv'
  BY <1>6 DEF Refute, PovInv, PovTypeOK, ClockInv, CreditIsFresh
<1>7. ASSUME NEW h \in Hyp, SelfCheck(h)
      PROVE  PovInv'
  <2>1. job[h] \in JobEntry /\ job[h].state = "running" /\ Event(h, job[h])
    BY <1>7 DEF SelfCheck, AtWork, PovTypeOK
  <2>2. /\ now' \in Nat /\ now <= now' /\ job' \in [Hyp -> JobEntry]
        /\ \A k \in Hyp : k # h => job'[k] = job[k]
        /\ job'[h].state = "running" /\ job'[h].ts = now'
    BY <2>1, EventEffect
  <2>3. UNCHANGED <<found, refuted, claimedAt>> /\ exited' \subseteq Hyp
    BY <1>7 DEF SelfCheck, PovTypeOK
  <2>4. claimedAt[h] <= now'
    BY <2>1, <2>2 DEF ClockInv, PovTypeOK, JobEntry
  <2>5. ClockInv'
    BY <2>2, <2>3, <2>4 DEF ClockInv, PovTypeOK, JobEntry
  <2>6. PovTypeOK' /\ CreditIsFresh'
    BY <2>2, <2>3 DEF PovTypeOK, CreditIsFresh
  <2> QED BY <2>5, <2>6 DEF PovInv
<1>8. ASSUME NEW h \in Hyp, Exit(h)
      PROVE  PovInv'
  BY <1>8 DEF Exit, PovInv, PovTypeOK, ClockInv, CreditIsFresh
<1>9. CASE UNCHANGED povVars
  BY <1>9 DEF povVars, PovInv, PovTypeOK, ClockInv, CreditIsFresh
<1> QED
  BY <1>1, <1>2, <1>3, <1>4, <1>5, <1>6, <1>7, <1>8, <1>9 DEF PovNext

\* A pov_produce job is done only on a refutation or on a verified finding of
\* its target recorded since the attempt that ended it was claimed.
THEOREM CreditIsEarned == PovSpec => []CreditIsFresh
<1>1. PovInv => CreditIsFresh
  BY DEF PovInv
<1> QED BY <1>1, PovInitInv, PovStep, PTL DEF PovSpec

-----------------------------------------------------------------------------
(* Reduction of an artifact *)

\* The artifact names every byte once, and crashes.  A pass of blocks of one
\* byte that has cut nothing has seen that each byte before the offset is
\* needed; the block size is zero only after such a pass.
ReductionTypeOK ==
  reduction \in [current : Seq(1..Size), attempts : Nat, block : Nat, offset : Nat,
                 changed : BOOLEAN]

Injective(s) == \A i, j \in DOMAIN s : s[i] = s[j] => i = j

NeededUpTo(k, s, Crashing) ==
  \A i \in DOMAIN s : i <= k => Places(s) \ {s[i]} \notin Crashing

ReductionInv ==
  /\ ReductionTypeOK
  /\ Injective(reduction.current)
  /\ Places(reduction.current) \in crashing
  /\ reduction.block = 1 /\ ~reduction.changed 
       => NeededUpTo(reduction.offset, reduction.current, crashing)
  /\ reduction.block = 0 => NeededUpTo(Len(reduction.current), reduction.current, crashing)

LEMMA HalfIsNat ==
  ASSUME NEW n \in Nat
  PROVE  n \div 2 \in Nat /\ (n > 1 => n \div 2 > 0)
OBVIOUS

\* What a cut leaves.
LEMMA Concatenated ==
  ASSUME NEW T, NEW p \in Seq(T), NEW q \in Seq(T)
  PROVE  /\ p \o q \in Seq(T) /\ Len(p \o q) = Len(p) + Len(q)
         /\ \A i \in 1..Len(p \o q) :
              (p \o q)[i] = IF i <= Len(p) THEN p[i] ELSE q[i - Len(p)]
OBVIOUS

LEMMA CutShape ==
  ASSUME NEW T, NEW s \in Seq(T), NEW o \in Nat, NEW b \in Nat, o < Len(s), b > 0
  PROVE  /\ Cut(s, o, b) \in Seq(T)
         /\ Len(Cut(s, o, b)) = o + (IF Len(s) > o + b THEN Len(s) - (o + b) ELSE 0)
         /\ \A i \in DOMAIN Cut(s, o, b) :
              Cut(s, o, b)[i] = IF i <= o THEN s[i] ELSE s[i + b]
<1> DEFINE p == SubSeq(s, 1, o)
           q == SubSeq(s, o + b + 1, Len(s))
<1>1. p \in Seq(T) /\ Len(p) = o /\ \A i \in 1..o : p[i] = s[i]
  OBVIOUS
<1>2. /\ q \in Seq(T) /\ Len(q) = (IF Len(s) > o + b THEN Len(s) - (o + b) ELSE 0)
      /\ \A i \in 1..Len(q) : q[i] = s[i + o + b]
  OBVIOUS
<1> HIDE DEF p, q
<1>3. Cut(s, o, b) = p \o q
  BY DEF Cut, p, q
<1> DEFINE d == p \o q
<1>4. /\ d \in Seq(T) /\ Len(d) = Len(p) + Len(q)
      /\ \A i \in 1..Len(d) : d[i] = IF i <= Len(p) THEN p[i] ELSE q[i - Len(p)]
  BY <1>1, <1>2, Concatenated
<1>5. DOMAIN d = 1..Len(d)
  BY <1>4
<1> HIDE DEF d
<1>6. ASSUME NEW i \in DOMAIN d
      PROVE  d[i] = IF i <= o THEN s[i] ELSE s[i + b]
  <2> USE <1>5
  <2>1. CASE i <= o
    BY <1>1, <1>4, <1>5, <2>1
  <2>2. CASE i > o
    <3>1. i - o \in 1..Len(q) /\ d[i] = q[i - o]
      BY <1>1, <1>2, <1>4, <1>5, <2>2
    <3>2. q[i - o] = s[(i - o) + o + b]
      BY <1>2, <3>1
    <3>3. (i - o) + o + b = i + b
      BY <1>4
    <3> QED BY <1>4, <2>2, <3>1, <3>2, <3>3
  <2> QED BY <1>5, <2>1, <2>2
<1> QED
  BY <1>1, <1>2, <1>3, <1>4, <1>6, <1>5 DEF d

LEMMA CutIsSeq ==
  ASSUME NEW T, NEW s \in Seq(T), NEW o \in Nat, NEW b \in Nat \ {0}, o < Len(s)
  PROVE  /\ Cut(s, o, b) \in Seq(T)
         /\ b = 1 /\ Len(s) > 1 => Cut(s, o, b) # <<>>
<1>1. /\ Cut(s, o, b) \in Seq(T)
      /\ Len(Cut(s, o, b)) = o + (IF Len(s) > o + b THEN Len(s) - (o + b) ELSE 0)
  <2>1. b \in Nat /\ b > 0
    OBVIOUS
  <2> QED BY <2>1, CutShape
<1> QED BY <1>1

LEMMA CutInjective ==
  ASSUME NEW T, NEW s \in Seq(T), Injective(s),
         NEW o \in Nat, NEW b \in Nat, o < Len(s), b > 0
  PROVE  Injective(Cut(s, o, b))
<1> DEFINE c == Cut(s, o, b)
<1>1. /\ c \in Seq(T)
      /\ Len(c) = o + (IF Len(s) > o + b THEN Len(s) - (o + b) ELSE 0)
      /\ \A i \in DOMAIN c : c[i] = IF i <= o THEN s[i] ELSE s[i + b]
  BY CutShape
<1> HIDE DEF c
<1>2. ASSUME NEW i \in DOMAIN c, NEW j \in DOMAIN c, c[i] = c[j]
      PROVE  i = j
  <2>1. i \in 1..Len(c) /\ j \in 1..Len(c)
    BY <1>1
  <2> DEFINE f(k) == IF k <= o THEN k ELSE k + b
  <2>2. \A k \in 1..Len(c) : f(k) \in 1..Len(s) /\ c[k] = s[f(k)]
    BY <1>1
  <2>3. f(i) \in DOMAIN s /\ f(j) \in DOMAIN s /\ s[f(i)] = s[f(j)]
    BY <1>2, <2>1, <2>2
  <2>4. f(i) = f(j)
    BY <2>3 DEF Injective
  <2> QED BY <2>1, <2>4
<1> QED BY <1>2 DEF Injective, c

\* Of a cut of one byte: the others are left.
LEMMA CutOfOne ==
  ASSUME NEW T, NEW s \in Seq(T), Injective(s), NEW o \in Nat, o < Len(s)
  PROVE  Places(Cut(s, o, 1)) = Places(s) \ {s[o + 1]}
<1> DEFINE c == Cut(s, o, 1)
<1>a. /\ c \in Seq(T)
      /\ Len(c) = o + (IF Len(s) > o + 1 THEN Len(s) - (o + 1) ELSE 0)
      /\ \A i \in DOMAIN c : c[i] = IF i <= o THEN s[i] ELSE s[i + 1]
  BY CutShape
<1>1. /\ c \in Seq(T) /\ Len(c) = Len(s) - 1
      /\ \A i \in DOMAIN c : c[i] = IF i <= o THEN s[i] ELSE s[i + 1]
  BY <1>a
<1> HIDE DEF c
<1>2. ASSUME NEW i \in DOMAIN c
      PROVE  c[i] \in Places(s) \ {s[o + 1]}
  BY <1>1 DEF Injective, Places
<1>3. ASSUME NEW i \in DOMAIN s, s[i] # s[o + 1]
      PROVE  s[i] \in Places(c)
  <2>1. CASE i <= o
    BY <1>1, <2>1 DEF Places
  <2>2. CASE i > o + 1
    <3>1. i - 1 \in DOMAIN c /\ c[i - 1] = s[i]
      BY <1>1, <2>2
    <3> QED BY <3>1 DEF Places
  <2> QED BY <1>3, <2>1, <2>2
<1> QED BY <1>2, <1>3 DEF Places, c

LEMMA ReductionInitInv == ReductionInit => ReductionInv
<1> SUFFICES ASSUME ReductionInit PROVE ReductionInv
  OBVIOUS
<1> USE MinimizationAssumption
<1>1. Original \in Seq(1..Size) /\ Len(Original) = Size /\ Injective(Original)
  BY DEF Original, Injective
<1>2. AtLeastOne(Len(Original) \div 2) \in Nat \ {0}
  BY <1>1, HalfIsNat DEF AtLeastOne
<1>3. reduction = Start(Original) /\ Places(Original) \in crashing
  BY DEF ReductionInit
<1>4. ReductionTypeOK /\ reduction.current = Original /\ reduction.offset = 0
      /\ reduction.block # 0
  BY <1>1, <1>2, <1>3 DEF Start, ReductionTypeOK
<1> QED BY <1>1, <1>3, <1>4 DEF ReductionInv, NeededUpTo

LEMMA TryKeeps ==
  ASSUME ReductionInv, TryBlock
  PROVE  ReductionInv'
<1> DEFINE m == reduction
           c == Cut(m.current, m.offset, m.block)
           s == m.current
<1>1. /\ s \in Seq(1..Size) /\ m.attempts \in Nat /\ m.block \in Nat \ {0}
      /\ m.offset \in Nat /\ m.changed \in BOOLEAN /\ Injective(s)
      /\ m.offset < Len(s) /\ Len(s) > 1
  BY DEF ReductionInv, ReductionTypeOK, TryBlock, Finished
<1>2. c \in Seq(1..Size) /\ Injective(c)
  <2>1. c \in Seq(1..Size)
    BY <1>1, CutIsSeq
  <2>2. Injective(c)
    BY <1>1, CutInjective
  <2> QED BY <2>1, <2>2
<1>3. m.block = 1 => c # <<>> /\ Places(c) = Places(s) \ {s[m.offset + 1]}
  <2> SUFFICES ASSUME m.block = 1
               PROVE  c # <<>> /\ Places(c) = Places(s) \ {s[m.offset + 1]}
    OBVIOUS
  <2>1. Cut(s, m.offset, 1) # <<>>
    BY <1>1, CutIsSeq
  <2>2. Places(Cut(s, m.offset, 1)) = Places(s) \ {s[m.offset + 1]}
    BY <1>1, CutOfOne
  <2> QED BY <2>1, <2>2
<1>4. m \in [current : Seq(1..Size), attempts : Nat, block : Nat, offset : Nat,
             changed : BOOLEAN]
  BY DEF ReductionInv, ReductionTypeOK
<1>5. crashing' = crashing /\ reduction' = Try(m, crashing)
  BY DEF TryBlock
<1>6. /\ Places(s) \in crashing
      /\ m.block = 1 /\ ~m.changed => NeededUpTo(m.offset, s, crashing)
  BY DEF ReductionInv
<1> HIDE DEF c
<1>7. CASE reduction' = Skip(m) /\ m.block # 1
  <2>1. reduction'.current = s /\ reduction'.block = m.block /\ ReductionTypeOK'
    BY <1>1, <1>4, <1>7 DEF Skip, ReductionTypeOK
  <2> QED BY <1>1, <1>5, <1>6, <1>7, <2>1 DEF ReductionInv
<1>8. CASE /\ reduction' = Skip([m EXCEPT !.attempts = @ + 1])
           /\ Places(c) \notin crashing
  <2> DEFINE t == [m EXCEPT !.attempts = @ + 1]
  <2>a. /\ t \in [current : Seq(1..Size), attempts : Nat, block : Nat, offset : Nat,
                  changed : BOOLEAN]
        /\ t.current = s /\ t.block = m.block /\ t.offset = m.offset
        /\ t.changed = m.changed
    BY <1>1, <1>4
  <2>b. reduction' = Skip(t)
    BY <1>8
  <2> HIDE DEF t
  <2>1. /\ reduction'.current = s /\ reduction'.block = m.block /\ ReductionTypeOK'
        /\ reduction'.offset = m.offset + m.block /\ reduction'.changed = m.changed
    BY <1>1, <2>a, <2>b DEF Skip, ReductionTypeOK
  <2>2. ASSUME m.block = 1, ~m.changed
        PROVE  NeededUpTo(m.offset + 1, s, crashing)
    <3>1. ASSUME NEW i \in DOMAIN s, i <= m.offset + 1
          PROVE  Places(s) \ {s[i]} \notin crashing
      <4>1. CASE i <= m.offset
        BY <1>6, <2>2, <3>1, <4>1 DEF NeededUpTo
      <4>2. CASE i = m.offset + 1
        BY <1>3, <1>8, <2>2, <4>2
      <4> QED BY <1>1, <3>1, <4>1, <4>2
    <3> QED BY <1>5, <2>1, <3>1 DEF NeededUpTo
  <2>3. (reduction.block = 1 /\ ~reduction.changed
          => NeededUpTo(reduction.offset, reduction.current, crashing))'
    BY <1>1, <1>5, <2>1, <2>2 DEF NeededUpTo
  <2> QED BY <1>1, <1>5, <1>6, <2>1, <2>3 DEF ReductionInv
<1>9. CASE /\ reduction' = Accept([m EXCEPT !.attempts = @ + 1], c)
           /\ Places(c) \in crashing
  <2>1. /\ reduction'.current = c /\ reduction'.block = m.block
        /\ reduction'.changed = TRUE
    BY <1>1, <1>4, <1>9 DEF Accept
  <2> DEFINE t == [m EXCEPT !.attempts = @ + 1]
             o == IF t.offset > t.block THEN t.offset - t.block ELSE 0
  <2>a. /\ t \in [current : Seq(1..Size), attempts : Nat, block : Nat, offset : Nat,
                  changed : BOOLEAN]
        /\ t.block = m.block /\ o \in Nat
    BY <1>1, <1>4
  <2>b. reduction' = [t EXCEPT !.current = c, !.changed = TRUE, !.offset = o]
    BY <1>9 DEF Accept
  <2> HIDE DEF t, o
  <2>2. ReductionTypeOK'
    BY <1>2, <2>a, <2>b DEF ReductionTypeOK
  <2> QED BY <1>1, <1>2, <1>5, <1>9, <2>1, <2>2 DEF ReductionInv
<1> QED
  BY <1>3, <1>5, <1>7, <1>8, <1>9 DEF Try, c

LEMMA EndPassKeeps ==
  ASSUME ReductionInv, EndPass
  PROVE  ReductionInv'
<1> DEFINE m == reduction
           s == m.current
<1>1. /\ s \in Seq(1..Size) /\ m.attempts \in Nat /\ m.block \in Nat \ {0}
      /\ m.offset \in Nat /\ m.changed \in BOOLEAN /\ Injective(s)
      /\ m.offset >= Len(s)
  BY DEF ReductionInv, ReductionTypeOK, EndPass, Finished
<1>2. m \in [current : Seq(1..Size), attempts : Nat, block : Nat, offset : Nat,
             changed : BOOLEAN]
  BY DEF ReductionInv, ReductionTypeOK
<1>3. crashing' = crashing /\ reduction' = NextPass(m)
  BY DEF EndPass
<1>4. m.block \div 2 \in Nat
  BY <1>1, HalfIsNat
<1>5. /\ reduction'.current = s /\ reduction'.offset = 0 /\ ReductionTypeOK'
      /\ reduction'.block = IF m.changed THEN m.block ELSE m.block \div 2
  BY <1>1, <1>2, <1>3, <1>4 DEF NextPass, ReductionTypeOK
<1>6. NeededUpTo(0, s, crashing)
  BY <1>1, <1>5 DEF NeededUpTo
<1>7. ASSUME reduction'.block = 0
      PROVE  NeededUpTo(Len(reduction.current), reduction.current, crashing)'
  <2>1. ~m.changed /\ m.block = 1
    BY <1>1, <1>5, <1>7, HalfIsNat
  <2>2. NeededUpTo(m.offset, s, crashing)
    BY <2>1 DEF ReductionInv
  <2>3. \A i \in DOMAIN s : Places(s) \ {s[i]} \notin crashing
    BY <1>1, <2>2 DEF NeededUpTo
  <2> QED BY <1>3, <1>5, <2>3 DEF NeededUpTo
<1>8. (reduction.block = 1 /\ ~reduction.changed
          => NeededUpTo(reduction.offset, reduction.current, crashing))'
  BY <1>3, <1>5, <1>6
<1> QED BY <1>1, <1>3, <1>5, <1>7, <1>8 DEF ReductionInv

LEMMA ReductionMinimal == ReductionInv => ReducedIsMinimal
<1> SUFFICES ASSUME ReductionInv PROVE ReducedIsMinimal
  OBVIOUS
<1>1. ASSUME Finished(reduction), reduction.attempts < AttemptLimit,
             Len(reduction.current) > 1,
             NEW i \in Places(reduction.current)
      PROVE  Places(reduction.current) \ {i} \notin crashing
  <2>1. reduction.current \in Seq(1..Size) /\ reduction.attempts \in Nat
    BY DEF ReductionInv, ReductionTypeOK
  <2>2. reduction.block = 0
    BY <1>1, <2>1, MinimizationAssumption DEF Finished
  <2>3. PICK k \in DOMAIN reduction.current : i = reduction.current[k]
    BY <1>1 DEF Places
  <2>4. NeededUpTo(Len(reduction.current), reduction.current, crashing)
    BY <2>2 DEF ReductionInv
  <2>5. k \in DOMAIN reduction.current /\ k <= Len(reduction.current)
    BY <2>1, <2>3
  <2> QED BY <2>3, <2>4, <2>5 DEF NeededUpTo
<1>2. Places(reduction.current) \in crashing
  BY DEF ReductionInv
<1> QED BY <1>1, <1>2 DEF ReducedIsMinimal

\* Minimization: whatever the size of the artifact, the limit of attempts and
\* the set of variants that crash.
THEOREM ReductionIsMinimal == ReductionSpec => []ReducedIsMinimal
<1>1. ReductionInv /\ [ReductionNext]_reductionVars => ReductionInv'
  <2> SUFFICES ASSUME ReductionInv, [ReductionNext]_reductionVars PROVE ReductionInv'
    OBVIOUS
  <2>1. CASE UNCHANGED reductionVars
    BY <2>1 DEF reductionVars, ReductionInv, ReductionTypeOK, NeededUpTo
  <2> QED
    BY <2>1, TryKeeps, EndPassKeeps DEF ReductionNext
<1> QED BY ReductionInitInv, <1>1, ReductionMinimal, PTL DEF ReductionSpec

-----------------------------------------------------------------------------
(* Solutions carried over *)

Bytes == 0..255

\* The records of solutions: each comes from its pair.
Known ==
  {r \in [parent : Seq(Bytes), child : Seq(Bytes),
          solution : UNION {Solutions(p, c) : p \in Seq(Bytes), c \in Seq(Bytes)}] :
     r.solution \in Solutions(r.parent, r.child)}

CrossInv ==
  /\ solutions \in Seq(Known)
  /\ base \in Seq(Bytes)
  /\ \/ made = <<>>
     \/ /\ made.of \in Seq(Bytes) /\ made.by \in Known
        /\ base \in Applied(made.of, made.by.solution)

Differ(parent, child) == {i \in DOMAIN parent \cap DOMAIN child : parent[i] # child[i]}

\* What is known of a solution.
LEMMA SolutionShape ==
  ASSUME NEW parent \in Seq(Bytes), NEW child \in Seq(Bytes), NEW s \in Solutions(parent, child)
  PROVE  /\ s.delta = Len(child) - Len(parent)
         /\ s.patches = [i \in Differ(parent, child) |-> child[i]]
         /\ s.tail = SubSeq(child, Len(parent) + 1, Len(child))
         /\ parent # child
BY DEF Solutions, Differ

\* What the patches leave of a unit.
LEMMA PatchedUnit ==
  ASSUME NEW parent \in Seq(Bytes), NEW child \in Seq(Bytes), NEW data \in Seq(Bytes),
         NEW s \in Solutions(parent, child)
  PROVE  /\ Patched(data, s.patches) \in Seq(Bytes)
         /\ Len(Patched(data, s.patches)) = Len(data)
         /\ \A i \in 1..Len(data) :
              Patched(data, s.patches)[i] =
                IF i \in Differ(parent, child) THEN child[i] ELSE data[i]
<1> DEFINE p == s.patches
           d == Patched(data, p)
<1>1. p = [i \in Differ(parent, child) |-> child[i]]
  BY SolutionShape
<1>2. \A i \in Differ(parent, child) : child[i] \in Bytes
  BY DEF Differ
<1>3. d = [i \in 1..Len(data) |-> IF i \in Differ(parent, child) THEN child[i] ELSE data[i]]
  BY <1>1 DEF Patched
<1>4. Len(data) \in Nat /\ \A i \in 1..Len(data) : data[i] \in Bytes
  OBVIOUS
<1>5. d \in [1..Len(data) -> Bytes]
  BY <1>2, <1>3, <1>4
<1> HIDE DEF d
<1>6. d \in Seq(Bytes) /\ Len(d) = Len(data)
  BY <1>4, <1>5
<1> QED BY <1>3, <1>6 DEF d

\* The unit r that a solution makes of the patched unit d: its length, and its
\* bytes up to there.
IsResized(r, d, s, parent, child) ==
  /\ r \in Seq(Bytes)
  /\ s.delta >= 0 => /\ Len(r) = Len(d) + s.delta
                     /\ Len(s.tail) = s.delta
                     /\ \A i \in 1..Len(d) : r[i] = d[i]
                     /\ \A i \in 1..Len(s.tail) : r[Len(d) + i] = child[Len(parent) + i]
  /\ s.delta < 0 /\ r # <<>>
        => /\ Len(r) = Len(d) + s.delta /\ Len(r) <= Len(d)
           /\ \A i \in 1..Len(r) : r[i] = d[i]

LEMMA ResizedUnit ==
  ASSUME NEW parent \in Seq(Bytes), NEW child \in Seq(Bytes), NEW d \in Seq(Bytes),
         NEW s \in Solutions(parent, child)
  PROVE  IsResized(Resized(d, s), d, s, parent, child)
<1>1. s.delta = Len(child) - Len(parent) /\ s.tail = SubSeq(child, Len(parent) + 1, Len(child))
  BY SolutionShape
<1>2. Len(child) \in Nat /\ Len(parent) \in Nat /\ Len(d) \in Nat
  OBVIOUS
<1>3. CASE s.delta >= 0
  <2>1. /\ s.tail \in Seq(Bytes) /\ Len(s.tail) = s.delta
        /\ \A i \in 1..Len(s.tail) : s.tail[i] = child[Len(parent) + i]
    BY <1>1, <1>2, <1>3
  <2>2. /\ d \o s.tail \in Seq(Bytes) /\ Len(d \o s.tail) = Len(d) + s.delta
        /\ \A i \in 1..Len(d) : (d \o s.tail)[i] = d[i]
        /\ \A i \in 1..Len(s.tail) : (d \o s.tail)[Len(d) + i] = s.tail[i]
    BY <1>2, <2>1
  <2>3. Resized(d, s) = d \o s.tail
    BY <1>3 DEF Resized
  <2> QED BY <1>2, <1>3, <2>1, <2>2, <2>3 DEF IsResized
<1>4. CASE ~(s.delta >= 0)
  <2>1. s.delta \in Int /\ Resized(d, s) = SubSeq(d, 1, Len(d) + s.delta)
    BY <1>1, <1>2, <1>4 DEF Resized
  <2> QED BY <1>2, <1>4, <2>1 DEF IsResized
<1> QED BY <1>3, <1>4

LEMMA MakesTheChild ==
  ASSUME NEW parent \in Seq(Bytes), NEW child \in Seq(Bytes), NEW s \in Solutions(parent, child),
         child # <<>>, Len(child) <= MaxBlob
  PROVE  Applied(parent, s) = {child}
<1> DEFINE d == Patched(parent, s.patches)
           r == Resized(d, s)
<1>1. /\ d \in Seq(Bytes) /\ Len(d) = Len(parent)
      /\ \A i \in 1..Len(parent) :
           d[i] = IF i \in Differ(parent, child) THEN child[i] ELSE parent[i]
  BY PatchedUnit
<1>2. s.delta = Len(child) - Len(parent) /\ parent # child
  BY SolutionShape
<1>3. \A i \in 1..Len(parent) : i <= Len(child) => d[i] = child[i]
  BY <1>1 DEF Differ
<1> HIDE DEF d
<1>4. /\ r \in Seq(Bytes)
      /\ s.delta >= 0 => /\ Len(r) = Len(d) + s.delta
                         /\ Len(s.tail) = s.delta
                         /\ \A i \in 1..Len(d) : r[i] = d[i]
                         /\ \A i \in 1..Len(s.tail) : r[Len(d) + i] = child[Len(parent) + i]
      /\ s.delta < 0 /\ r # <<>>
            => /\ Len(r) = Len(d) + s.delta /\ Len(r) <= Len(d)
               /\ \A i \in 1..Len(r) : r[i] = d[i]
  <2>1. IsResized(r, d, s, parent, child)
    BY <1>1, ResizedUnit
  <2> QED BY <2>1 DEF IsResized
<1>5. Len(child) \in Nat /\ Len(parent) \in Nat /\ Len(child) > 0
  OBVIOUS
<1>6. r = child
  <2>1. CASE s.delta >= 0
    <3>1. Len(r) = Len(child)
      BY <1>1, <1>2, <1>4, <1>5, <2>1
    <3>2. ASSUME NEW i \in 1..Len(child) PROVE r[i] = child[i]
      <4>1. CASE i <= Len(parent)
        BY <1>1, <1>3, <1>4, <1>5, <2>1, <4>1
      <4>2. CASE i > Len(parent)
        <5>1. i - Len(parent) \in 1..Len(s.tail) /\ Len(parent) + (i - Len(parent)) = i
          BY <1>2, <1>4, <1>5, <2>1, <4>2
        <5> QED BY <1>1, <1>4, <2>1, <5>1
      <4> QED BY <1>5, <4>1, <4>2
    <3> QED BY <1>4, <3>1, <3>2
  <2>2. CASE s.delta < 0
    <3>1. r = SubSeq(d, 1, Len(d) + s.delta) /\ Len(d) + s.delta = Len(child)
      BY <1>1, <1>2, <1>5, <2>2 DEF Resized
    <3>3. r # <<>>
      BY <1>1, <1>2, <1>5, <2>2, <3>1
    <3>2. Len(r) = Len(child) /\ \A i \in 1..Len(r) : r[i] = child[i]
      BY <1>1, <1>2, <1>3, <1>4, <1>5, <2>2, <3>3
    <3> QED BY <1>4, <3>2
  <2> QED BY <1>2, <1>5, <2>1, <2>2
<1>7. child \notin {<<>>, parent} /\ ~(Len(child) > MaxBlob)
  BY <1>2, <1>5, CrossoverAssumption
<1>8. Applied(parent, s) =
        IF r \in {<<>>, parent} \/ Len(r) > MaxBlob THEN {} ELSE {r}
  BY DEF Applied, d
<1> QED BY <1>6, <1>7, <1>8

LEMMA LeavesTheBytes ==
  ASSUME NEW parent \in Seq(Bytes), NEW child \in Seq(Bytes), NEW s \in Solutions(parent, child),
         NEW data \in Seq(Bytes), NEW unit \in Applied(data, s)
  PROVE  /\ unit \in Seq(Bytes)
         /\ Len(unit) = Len(data) + s.delta
         /\ \A i \in DOMAIN s.patches \cap DOMAIN data \cap DOMAIN unit : unit[i] = child[i]
<1> DEFINE d == Patched(data, s.patches)
           r == Resized(d, s)
<1>1. /\ d \in Seq(Bytes) /\ Len(d) = Len(data)
      /\ \A i \in 1..Len(data) :
           d[i] = IF i \in Differ(parent, child) THEN child[i] ELSE data[i]
  BY PatchedUnit
<1>2. s.delta = Len(child) - Len(parent) /\ DOMAIN s.patches = Differ(parent, child)
  <2>1. s.patches = [i \in Differ(parent, child) |-> child[i]]
    BY SolutionShape
  <2> QED BY <2>1, SolutionShape
<1>3. unit = r /\ r # <<>>
  BY DEF Applied
<1> HIDE DEF d
<1>4. /\ r \in Seq(Bytes)
      /\ s.delta >= 0 => /\ Len(r) = Len(d) + s.delta
                         /\ \A i \in 1..Len(d) : r[i] = d[i]
      /\ s.delta < 0 /\ r # <<>>
            => /\ Len(r) = Len(d) + s.delta /\ Len(r) <= Len(d)
               /\ \A i \in 1..Len(r) : r[i] = d[i]
  <2>1. IsResized(r, d, s, parent, child)
    BY <1>1, ResizedUnit
  <2> QED BY <2>1 DEF IsResized
<1> HIDE DEF r
<1>5. s.delta \in Int /\ Len(r) = Len(data) + s.delta
  BY <1>1, <1>2, <1>3, <1>4
<1>6. ASSUME NEW i \in Differ(parent, child), i \in DOMAIN data, i \in DOMAIN r
      PROVE  r[i] = child[i]
  <2>1. i \in 1..Len(d) /\ i \in 1..Len(r) /\ d[i] = child[i]
    BY <1>1, <1>4, <1>6
  <2> QED BY <1>3, <1>4, <1>5, <2>1
<1> QED BY <1>2, <1>3, <1>4, <1>5, <1>6

LEMMA CrossInitInv == CrossInit => CrossInv
BY DEF CrossInit, CrossInv

LEMMA LearnKeeps ==
  ASSUME CrossInv, Learn
  PROVE  CrossInv'
<1>1. PICK parent \in Blobs, child \in Blobs : \E s \in Solutions(parent, child) :
        solutions' = Newest(Append(solutions,
                              [parent |-> parent, child |-> child, solution |-> s]))
  BY DEF Learn
<1>2. PICK s \in Solutions(parent, child) :
        solutions' = Newest(Append(solutions,
                              [parent |-> parent, child |-> child, solution |-> s]))
  BY <1>1
<1> DEFINE r == [parent |-> parent, child |-> child, solution |-> s]
           all == Append(solutions, r)
<1>3. r \in Known
  <2>1. parent \in Seq(Bytes) /\ child \in Seq(Bytes)
    BY CrossoverAssumption DEF Bytes
  <2> QED BY <2>1 DEF Known
<1> HIDE DEF r
<1>4. all \in Seq(Known)
  BY <1>3 DEF CrossInv
<1> HIDE DEF all
<1>5. Newest(all) \in Seq(Known)
  <2>1. CASE Len(all) > MaxSolutions
    <3>1. Len(all) - MaxSolutions + 1 \in 1..Len(all)
      BY <1>4, <2>1, CrossoverAssumption
    <3> QED BY <1>4, <2>1, <3>1 DEF Newest
  <2>2. CASE ~(Len(all) > MaxSolutions)
    BY <1>4, <2>2 DEF Newest
  <2> QED BY <2>1, <2>2
<1>6. solutions' \in Seq(Known)
  BY <1>2, <1>5 DEF all, r
<1> QED BY <1>6 DEF Learn, CrossInv

LEMMA TakeKeeps ==
  ASSUME CrossInv, TakeUnit
  PROVE  CrossInv'
BY CrossoverAssumption DEF TakeUnit, CrossInv, Bytes

LEMMA ApplyKeeps ==
  ASSUME CrossInv, ApplyOne
  PROVE  CrossInv'
<1>1. PICK i \in DOMAIN solutions : \E unit \in Applied(base, solutions[i].solution) :
        base' = unit /\ made' = [of |-> base, by |-> solutions[i]]
  BY DEF ApplyOne
<1>2. PICK unit \in Applied(base, solutions[i].solution) :
        base' = unit /\ made' = [of |-> base, by |-> solutions[i]]
  BY <1>1
<1>3. solutions[i] \in Known /\ base \in Seq(Bytes)
  BY DEF CrossInv
<1>4. unit \in Seq(Bytes)
  BY <1>3, LeavesTheBytes DEF Known
<1>5. /\ made'.of = base /\ made'.by = solutions[i]
      /\ base' \in Applied(base, solutions[i].solution)
  BY <1>2
<1>6. (made.of \in Seq(Bytes) /\ made.by \in Known /\ base \in Applied(made.of, made.by.solution))'
  BY <1>3, <1>5
<1> QED BY <1>2, <1>4, <1>6 DEF CrossInv, ApplyOne

LEMMA CrossSafe == CrossInv => SolutionTransfers
<1> SUFFICES ASSUME CrossInv PROVE SolutionTransfers
  OBVIOUS
<1>1. ASSUME NEW i \in DOMAIN solutions,
             solutions[i].child # <<>>, Len(solutions[i].child) <= MaxBlob
      PROVE  Applied(solutions[i].parent, solutions[i].solution) = {solutions[i].child}
  <2>1. solutions[i] \in Known
    BY DEF CrossInv
  <2> QED BY <1>1, <2>1, MakesTheChild DEF Known
<1>2. ASSUME made # <<>>
      PROVE  /\ Len(base) = Len(made.of) + made.by.solution.delta
             /\ \A i \in DOMAIN made.by.solution.patches \cap DOMAIN made.of \cap DOMAIN base :
                  base[i] = made.by.child[i]
  <2>1. /\ made.of \in Seq(Bytes) /\ made.by \in Known
        /\ base \in Applied(made.of, made.by.solution)
    BY <1>2 DEF CrossInv
  <2>2. /\ made.by.parent \in Seq(Bytes) /\ made.by.child \in Seq(Bytes)
        /\ made.by.solution \in Solutions(made.by.parent, made.by.child)
    BY <2>1 DEF Known
  <2> QED BY <2>1, <2>2, LeavesTheBytes
<1> QED BY <1>1, <1>2 DEF SolutionTransfers

\* Crossover: for units of any bytes and any limits, a solution makes its child
\* of its parent, and leaves the child's bytes in whatever it is applied to.
THEOREM SolutionsTransfer == CrossSpec => []SolutionTransfers
<1>1. CrossInv /\ [CrossNext]_crossVars => CrossInv'
  <2> SUFFICES ASSUME CrossInv, [CrossNext]_crossVars PROVE CrossInv'
    OBVIOUS
  <2>1. CASE UNCHANGED crossVars
    BY <2>1 DEF crossVars, CrossInv
  <2> QED
    BY <2>1, LearnKeeps, TakeKeeps, ApplyKeeps DEF CrossNext
<1> QED BY CrossInitInv, <1>1, CrossSafe, PTL DEF CrossSpec

-----------------------------------------------------------------------------
(* Jobs from sink status *)

PickStep(s, T, f, n) ==
  IF n = 0 THEN <<>> ELSE IF s[n] \in T THEN Append(f[n - 1], s[n]) ELSE f[n - 1]
  
PicksUpTo(s, T, f, m) == f = [n \in 0..m |-> PickStep(s, T, f, n)]

LEMMA NatSet ==
  ASSUME NEW T, 0 \in T, \A n \in Nat : n \in T => n + 1 \in T
  PROVE  Nat \subseteq T
<1> SUFFICES ASSUME Nat \ T # {} PROVE FALSE
  OBVIOUS
<1> DEFINE R == OpToRel(<, Nat)
<1>1. IsWellFoundedOn(R, Nat)
  BY NatLessThanWellFounded
<1>3. \A i, j \in Nat : i < j => <<i, j>> \in R
  BY DEF OpToRel
<1> HIDE DEF R
<1>2. PICK x \in Nat \ T : \A y \in Nat \ T : ~ (<<y, x>> \in R)
  <2>1. Nat \ T \subseteq Nat OBVIOUS
  <2> QED BY <1>1, <2>1, WFMin
<1>4. x - 1 \in Nat \ T /\ x - 1 < x
  BY <1>2
<1> QED BY <1>2, <1>3, <1>4

LEMMA PickExists ==
  ASSUME NEW s, NEW T, NEW m \in Nat
  PROVE  \E f : PicksUpTo(s, T, f, m)
<1> DEFINE U == {n \in Nat : \E f : PicksUpTo(s, T, f, n)}
<1>1. 0 \in U
  <2>1. PicksUpTo(s, T, [n \in 0..0 |-> <<>>], 0)
    BY DEF PicksUpTo, PickStep
  <2> QED BY <2>1
<1>2. ASSUME NEW n \in Nat, n \in U PROVE n + 1 \in U
  <2>1. PICK f : PicksUpTo(s, T, f, n)
    BY <1>2
  <2> DEFINE g == [k \in 0..(n + 1) |-> IF k = n + 1 THEN PickStep(s, T, f, n + 1) ELSE f[k]]
  <2>2. \A k \in 0..n : f[k] = PickStep(s, T, f, k)
    BY <2>1 DEF PicksUpTo
  <2>3. \A k \in 0..(n + 1) : PickStep(s, T, g, k) = PickStep(s, T, f, k)
    BY DEF PickStep
  <2>4. PicksUpTo(s, T, g, n + 1)
    BY <2>2, <2>3 DEF PicksUpTo
  <2> QED BY <2>4
<1> HIDE DEF U
<1>3. Nat \subseteq U
  BY <1>1, <1>2, NatSet
<1> QED BY <1>3 DEF U

LEMMA PickedIs ==
  ASSUME NEW s, NEW T, Len(s) \in Nat
  PROVE  \E f : PicksUpTo(s, T, f, Len(s)) /\ Picked(s, T) = f[Len(s)]
<1> DEFINE g == CHOOSE f : f = [n \in 0..Len(s) |->
       IF n = 0 THEN <<>> ELSE IF s[n] \in T THEN Append(f[n - 1], s[n]) ELSE f[n - 1]]
<1>1. Picked(s, T) = g[Len(s)]
  BY DEF Picked
<1>2. \E f : f = [n \in 0..Len(s) |->
       IF n = 0 THEN <<>> ELSE IF s[n] \in T THEN Append(f[n - 1], s[n]) ELSE f[n - 1]]
  <2>1. PICK f : PicksUpTo(s, T, f, Len(s))
    BY PickExists
  <2> QED BY <2>1 DEF PicksUpTo, PickStep
<1>3. g = [n \in 0..Len(s) |->
       IF n = 0 THEN <<>> ELSE IF s[n] \in T THEN Append(g[n - 1], s[n]) ELSE g[n - 1]]
  BY <1>2
<1> QED BY <1>1, <1>3 DEF PicksUpTo, PickStep

LEMMA PickedElements ==
  ASSUME NEW S, NEW s \in Seq(S), NEW T
  PROVE  /\ Picked(s, T) \in Seq(S \cap T)
         /\ \A i \in DOMAIN s : s[i] \in T =>
              \E k \in DOMAIN Picked(s, T) : Picked(s, T)[k] = s[i]
<1>1. PICK f : PicksUpTo(s, T, f, Len(s)) /\ Picked(s, T) = f[Len(s)]
  <2>1. Len(s) \in Nat
    OBVIOUS
  <2> QED BY <2>1, PickedIs
<1> DEFINE Has(p, n) == /\ p \in Seq(S \cap T)
                        /\ \A i \in 1..n : s[i] \in T => \E k \in DOMAIN p : p[k] = s[i]
           U == {n \in Nat : n <= Len(s) => Has(f[n], n)}
<1>2. \A n \in 0..Len(s) : f[n] = PickStep(s, T, f, n)
  BY <1>1 DEF PicksUpTo
<1>3. 0 \in U
  <2>1. f[0] = <<>>
    BY <1>2 DEF PickStep
  <2>2. Has(f[0], 0)
    BY <2>1
  <2> QED BY <2>2
<1>4. ASSUME NEW n \in Nat, n \in U PROVE n + 1 \in U
  <2> SUFFICES ASSUME n + 1 <= Len(s) PROVE Has(f[n + 1], n + 1)
    OBVIOUS
  <2>1. Has(f[n], n)
    BY <1>4
  <2>2. s[n + 1] \in S /\ n + 1 \in 0..Len(s) /\ n + 1 # 0 /\ (n + 1) - 1 = n
    OBVIOUS
  <2>3. f[n + 1] = IF s[n + 1] \in T THEN Append(f[n], s[n + 1]) ELSE f[n]
    BY <1>2, <2>2 DEF PickStep
  <2>4. CASE s[n + 1] \in T
    <3> DEFINE p == f[n]
               q == Append(p, s[n + 1])
    <3>1. p \in Seq(S \cap T)
      BY <2>1
    <3> HIDE DEF p
    <3>2. q \in Seq(S \cap T) /\ Len(q) = Len(p) + 1 /\ q[Len(p) + 1] = s[n + 1]
          /\ \A k \in DOMAIN p : k \in DOMAIN q /\ q[k] = p[k]
      BY <2>2, <2>4, <3>1
    <3>3. Len(p) + 1 \in DOMAIN q
      BY <3>1, <3>2
    <3> HIDE DEF q
    <3>4. ASSUME NEW i \in 1..(n + 1), s[i] \in T
          PROVE  \E k \in DOMAIN q : q[k] = s[i]
      <4>1. CASE i = n + 1
        BY <3>2, <3>3, <4>1
      <4>2. CASE i # n + 1
        <5>1. PICK k \in DOMAIN p : p[k] = s[i]
          BY <2>1, <3>4, <4>2 DEF p
        <5> QED BY <3>2, <5>1
      <4> QED BY <4>1, <4>2
    <3> QED BY <2>3, <2>4, <3>2, <3>4 DEF p, q
  <2>5. CASE s[n + 1] \notin T
    <3>1. f[n + 1] = f[n]
      BY <2>3, <2>5
    <3>2. ASSUME NEW i \in 1..(n + 1), s[i] \in T
          PROVE  i \in 1..n
      BY <2>5, <3>2
    <3> QED BY <2>1, <3>1, <3>2
  <2> QED BY <2>4, <2>5
<1> HIDE DEF U
<1>5. Nat \subseteq U
  BY <1>3, <1>4, NatSet
<1>6. Len(s) \in U /\ Len(s) \in Nat /\ DOMAIN s = 1..Len(s)
  BY <1>5
<1> QED BY <1>1, <1>6 DEF U

-----------------------------------------------------------------------------
LEMMA LastOf ==
  ASSUME NEW S, NEW s \in Seq(S), s # <<>>
  PROVE  Last(s) \in S /\ Last(s) \in ToSet(s)
<1>1. Len(s) \in DOMAIN s
  OBVIOUS
<1> QED BY <1>1 DEF Last, ToSet

LEMMA SetOfSeq ==
  ASSUME NEW S, NEW s \in Seq(S)
  PROVE  ToSet(s) \subseteq S /\ s \in Seq(ToSet(s)) /\ (s = <<>> <=> ToSet(s) = {})
<1>1. ToSet(s) \subseteq S
  BY DEF ToSet
<1>2. \A i \in DOMAIN s : s[i] \in ToSet(s)
  BY DEF ToSet
<1>3. s \in [1..Len(s) -> ToSet(s)] /\ Len(s) \in Nat
  BY <1>2
<1>4. s \in Seq(ToSet(s))
  BY <1>3
<1>5. ASSUME s # <<>> PROVE ToSet(s) # {}
  <2>1. 1 \in DOMAIN s
    BY <1>5
  <2> QED BY <2>1, <1>2
<1>6. ASSUME s = <<>> PROVE ToSet(s) = {}
  BY <1>6 DEF ToSet
<1> QED BY <1>1, <1>4, <1>5, <1>6

IsList(s) == s \in Seq(ToSet(s))

\* A selection has what is in the sequence and in the set.
LEMMA PickedSet ==
  ASSUME NEW s, IsList(s), NEW T
  PROVE  IsList(Picked(s, T)) /\ ToSet(Picked(s, T)) = ToSet(s) \cap T
<1> DEFINE S == ToSet(s)
           p == Picked(s, T)
<1>1. s \in Seq(S)
  BY DEF IsList
<1> HIDE DEF S
<1>2. /\ p \in Seq(S \cap T)
      /\ \A i \in DOMAIN s : s[i] \in T => \E k \in DOMAIN p : p[k] = s[i]
  BY <1>1, PickedElements
<1> HIDE DEF p
<1>3. ToSet(p) \subseteq S \cap T /\ p \in Seq(ToSet(p))
  BY <1>2, SetOfSeq
<1>4. ASSUME NEW x \in S \cap T PROVE x \in ToSet(p)
  <2>1. PICK i \in DOMAIN s : s[i] = x
    BY DEF S, ToSet
  <2> QED BY <1>2, <2>1 DEF ToSet
<1> QED BY <1>3, <1>4 DEF S, p, IsList

LEMMA Lists ==
  /\ IsList(<<>>) /\ ToSet(<<>>) = {}
  /\ \A w : IsList(<<w>>) /\ ToSet(<<w>>) = {w}
<1>1. \A w : ToSet(<<w>>) = {w}
  BY DEF ToSet
<1>2. ToSet(<<>>) = {}
  BY DEF ToSet
<1>3. \A w : <<w>> \in Seq({w})
  OBVIOUS
<1> QED BY <1>1, <1>2, <1>3 DEF IsList

LEMMA SetOfConcat ==
  ASSUME NEW s, IsList(s), NEW t, IsList(t)
  PROVE  IsList(s \o t) /\ ToSet(s \o t) = ToSet(s) \cup ToSet(t)
<1> DEFINE S == ToSet(s) \cup ToSet(t)
<1>0. s \in Seq(S) /\ t \in Seq(S)
  BY DEF IsList
<1> HIDE DEF S
<1>1. s \o t \in Seq(S) /\ Len(s \o t) = Len(s) + Len(t)
  BY <1>0
<1>2. \A i \in 1..Len(s \o t) : (s \o t)[i] = IF i <= Len(s) THEN s[i] ELSE t[i - Len(s)]
  BY <1>0
<1> DEFINE c == s \o t
<1>3. DOMAIN c = 1..(Len(s) + Len(t)) /\ DOMAIN s = 1..Len(s) /\ DOMAIN t = 1..Len(t)
      /\ Len(s) \in Nat /\ Len(t) \in Nat
  BY <1>0, <1>1
<1>4. \A i \in 1..Len(s) : i \in DOMAIN c /\ c[i] = s[i]
  BY <1>1, <1>2, <1>3
<1>5. \A i \in 1..Len(t) : Len(s) + i \in DOMAIN c /\ c[Len(s) + i] = t[i]
  BY <1>1, <1>2, <1>3
<1>6. \A i \in DOMAIN c : \/ i \in DOMAIN s /\ c[i] = s[i]
                          \/ i - Len(s) \in DOMAIN t /\ c[i] = t[i - Len(s)]
  BY <1>1, <1>2, <1>3
<1> HIDE DEF c
<1>7. ToSet(c) \subseteq ToSet(s) \cup ToSet(t)
  BY <1>6 DEF ToSet
<1>8. ToSet(s) \subseteq ToSet(c) /\ ToSet(t) \subseteq ToSet(c)
  BY <1>3, <1>4, <1>5 DEF ToSet
<1>9. ToSet(c) = S
  BY <1>7, <1>8 DEF S
<1> QED BY <1>1, <1>9 DEF c, S, IsList

-----------------------------------------------------------------------------
(* What is wanted *)

WsFields ==
  {"plan", "today", "known", "report", "rows", "aim", "built", "priority", "manifest",
   "binary", "candidate", "flat", "stale", "tried", "dry", "covered", "dict", "weights",
   "bits", "codec", "status", "close", "hyps"}

\* What a job may be named after.
Names == {"H1", "R1"} \cup AllMethods

Rows == [id : Names, lead : Leads, state : {"open", "bad", "refuted"}]

WsOK ==
  /\ DOMAIN ws = WsFields
  /\ ws.hyps \in Seq(Rows)

LEMMA SinksAre == IsList(Sinks) /\ \A s \in SinkKeys : s.method \in AllMethods
BY JobsAssumption, SetOfSeq DEF SinkKeys, AllMethods, IsList

LEMMA ReachedAre ==
  ASSUME NEW st
  PROVE  IsList(Reached(st)) /\ ToSet(Reached(st)) = {s \in SinkKeys : ws.status[s] \in st}
<1> DEFINE T == {s \in SinkKeys : ws.status[s] \in st}
<1>1. IsList(Picked(Sinks, T)) /\ ToSet(Picked(Sinks, T)) = SinkKeys \cap T
  BY SinksAre, PickedSet DEF SinkKeys
<1> QED BY <1>1 DEF Reached

\* The first uncovered sink is not covered.
LEMMA UncoveredAre ==
  ASSUME Uncovered # <<>>
  PROVE  Head(Uncovered).method \notin ws.covered
<1> DEFINE T == {s \in SinkKeys : s.method \notin ws.covered}
           rows == Picked(Sinks, T)
           n == IF Len(rows) < Top THEN Len(rows) ELSE Top
<1>1. IsList(rows) /\ ToSet(rows) = SinkKeys \cap T
  BY SinksAre, PickedSet DEF SinkKeys
<1>2. Uncovered = SubSeq(rows, 1, n)
  BY DEF Uncovered
<1> HIDE DEF rows
<1>3. rows \in Seq(ToSet(rows)) /\ n \in Nat /\ n <= Len(rows) /\ Len(rows) \in Nat
  BY <1>1, JobsAssumption DEF IsList
<1> HIDE DEF n
<1>4. n > 0
  BY <1>2, <1>3
<1>5. Head(Uncovered) = rows[1] /\ 1 \in DOMAIN rows
  BY <1>2, <1>3, <1>4
<1>6. rows[1] \in T
  BY <1>1, <1>5 DEF ToSet
<1> QED BY <1>5, <1>6

\* The hypotheses and the reached sinks for which a PoV is wanted.
OpenHyps == {h \in ToSet(ws.hyps) : h.state = "open"}
ReachedSinks == {s \in SinkKeys : ws.status[s] \in {"reached"}}
PovWishes ==
  {Wish("pov_produce", h.id, <<h.lead>>) : h \in OpenHyps}
    \cup {Wish("pov_produce", s.method, <<s, s \in ws.close>>) : s \in ReachedSinks}

LEMMA PovWants ==
  ASSUME WsOK
  PROVE  IsList(WantPovProduce) /\ ToSet(WantPovProduce) = PovWishes
<1> DEFINE open == Picked(ws.hyps, OpenHyps)
           reached == Reached({"reached"})
           a == [i \in DOMAIN open |-> Wish("pov_produce", open[i].id, <<open[i].lead>>)]
           b == [i \in DOMAIN reached |->
                   Wish("pov_produce", reached[i].method, <<reached[i], reached[i] \in ws.close>>)]
<1>1. WantPovProduce = a \o b
  BY DEF WantPovProduce, OpenHyps
<1>2. IsList(ws.hyps)
  BY SetOfSeq DEF WsOK, IsList
<1>3. IsList(open) /\ ToSet(open) = OpenHyps
  BY <1>2, PickedSet DEF OpenHyps
<1>4. IsList(reached) /\ ToSet(reached) = ReachedSinks
  BY ReachedAre DEF ReachedSinks
<1> HIDE DEF open, reached
<1>5. IsList(a) /\ ToSet(a) = {Wish("pov_produce", h.id, <<h.lead>>) : h \in OpenHyps}
  <2>1. ToSet(a) = {Wish("pov_produce", h.id, <<h.lead>>) : h \in OpenHyps}
    BY <1>3 DEF ToSet
  <2>2. Len(open) \in Nat /\ DOMAIN open = 1..Len(open)
    BY <1>3 DEF IsList
  <2>3. a \in [1..Len(open) -> ToSet(a)]
    BY <2>2 DEF ToSet
  <2> HIDE DEF a
  <2>4. a \in Seq(ToSet(a))
    BY <2>2, <2>3
  <2> QED BY <2>1, <2>4 DEF IsList
<1>6. /\ IsList(b)
      /\ ToSet(b) = {Wish("pov_produce", s.method, <<s, s \in ws.close>>) : s \in ReachedSinks}
  <2>1. ToSet(b) = {Wish("pov_produce", s.method, <<s, s \in ws.close>>) : s \in ReachedSinks}
    BY <1>4 DEF ToSet
  <2>2. Len(reached) \in Nat /\ DOMAIN reached = 1..Len(reached)
    BY <1>4 DEF IsList
  <2>3. b \in [1..Len(reached) -> ToSet(b)]
    BY <2>2 DEF ToSet
  <2> HIDE DEF b
  <2>4. b \in Seq(ToSet(b))
    BY <2>2, <2>3
  <2> QED BY <2>1, <2>4 DEF IsList
<1> HIDE DEF a, b
<1>7. IsList(a \o b) /\ ToSet(a \o b) = ToSet(a) \cup ToSet(b)
  BY <1>5, <1>6, SetOfConcat
<1> QED BY <1>1, <1>5, <1>6, <1>7 DEF PovWishes

LEMMA SteeringWants ==
  /\ IsList(WantSteering)
  /\ \A j \in ToSet(WantSteering) :
       \/ j.id[2] = "dict" /\ ws.dict = "none"
       \/ j.id[2] = "bits" /\ ws.bits = "none"
       \/ j.id[2] = "codec" /\ ws.codec # "good"
<1> DEFINE reached == Reached({"reached", "exploited"})
           a == IF ws.flat /\ NextRung = "dictionary" /\ ws.dict = "none"
                  THEN <<Wish("steering", "dict", <<>>)>> ELSE <<>>
           b == IF ws.weights /\ ws.bits = "none" THEN <<Wish("steering", "bits", <<>>)>> ELSE <<>>
           c == IF reached # <<>> /\ ws.codec # "good"
                  THEN <<Wish("steering", "codec", reached)>> ELSE <<>>
<1>1. IsList(a) /\ \A j \in ToSet(a) : j.id[2] = "dict" /\ ws.dict = "none"
  BY Lists DEF Wish
<1>2. IsList(b) /\ \A j \in ToSet(b) : j.id[2] = "bits" /\ ws.bits = "none"
  BY Lists DEF Wish
<1>3. IsList(c) /\ \A j \in ToSet(c) : j.id[2] = "codec" /\ ws.codec # "good"
  BY Lists DEF Wish
<1>4. WantSteering = a \o b \o c
  BY DEF WantSteering
<1> HIDE DEF a, b, c
<1>5. IsList(a \o b) /\ ToSet(a \o b) = ToSet(a) \cup ToSet(b)
  BY <1>1, <1>2, SetOfConcat
<1>6. IsList((a \o b) \o c) /\ ToSet((a \o b) \o c) = ToSet(a \o b) \cup ToSet(c)
  BY <1>3, <1>5, SetOfConcat
<1> QED BY <1>1, <1>2, <1>3, <1>4, <1>5, <1>6

Wishes == ToSet(Wanted(lane))

\* The types whose evidence no worker of theirs writes.
GenLanes == {"fleet_plan", "allowlist_build", "harness_author", "vuln_hunt", "pov_produce"}

WishesAre ==
  /\ IsList(Wanted(lane))
  /\ lane = "fleet_plan" => Wishes = {Wish("fleet_plan", ws.today, ws.today)}
  /\ lane = "triage" /\ ws.report => Wishes = {}
  /\ lane = "allowlist_build" =>
       Wishes = IF ws.aim = <<>> \/ ToSet(ws.aim) \subseteq ws.built THEN {}
                ELSE {Wish("allowlist_build", Head(ws.aim).method, <<Head(ws.aim), ws.priority>>)}
  /\ lane = "harness_author" =>
       Wishes = IF ws.candidate \in {"unharnessed", "scaffolded", "awaiting-authoring"}
                  THEN {Wish("harness_author", "target", ws.candidate)} ELSE {}
  /\ lane \in {"frontier_seed", "solver_assist"} =>
       \A j \in Wishes : j.id[2] \notin ws.covered
  /\ lane = "steering" =>
       \A j \in Wishes : \/ j.id[2] = "dict" /\ ws.dict = "none"
                         \/ j.id[2] = "bits" /\ ws.bits = "none"
                         \/ j.id[2] = "codec" /\ ws.codec # "good"
  /\ lane = "vuln_hunt" =>
       Wishes = IF Visible = {} THEN {} ELSE {Wish("vuln_hunt", "target", <<Visible>>)}
  /\ lane = "pov_produce" => Wishes = PovWishes

LEMMA WhatIsWanted == WsOK /\ lane \in JobTypes => WishesAre
<1> SUFFICES ASSUME WsOK, lane \in JobTypes PROVE WishesAre
  OBVIOUS
<1>1. CASE lane = "fleet_plan"
  BY <1>1, Lists DEF WishesAre, Wishes, Wanted, WantFleetPlan
<1>2. CASE lane = "triage"
  <2>1. IsList(WantTriage) /\ (ws.report => WantTriage = <<>>)
    BY Lists DEF WantTriage
  <2> QED BY <1>2, <2>1, Lists DEF WishesAre, Wishes, Wanted
<1>3. CASE lane = "allowlist_build"
  <2>1. Wanted(lane) = WantAllowlistBuild
    BY <1>3 DEF Wanted
  <2> QED BY <1>3, <2>1, Lists DEF WishesAre, Wishes, WantAllowlistBuild
<1>4. CASE lane = "harness_author"
  <2>1. Wanted(lane) = WantHarnessAuthor
    BY <1>4 DEF Wanted
  <2> QED BY <1>4, <2>1, Lists DEF WishesAre, Wishes, WantHarnessAuthor
<1>5. CASE lane = "frontier_seed"
  <2>1. Wanted(lane) = WantFrontierSeed
    BY <1>5 DEF Wanted
  <2>2. \/ WantFrontierSeed = <<>>
        \/ /\ Uncovered # <<>>
           /\ WantFrontierSeed =
                <<Wish("frontier_seed", Head(Uncovered).method, <<NextRung, Methods(Uncovered)>>)>>
    BY DEF WantFrontierSeed
  <2>3. \A j \in Wishes : j.id[2] \notin ws.covered
    BY <2>1, <2>2, Lists, UncoveredAre DEF Wishes, Wish
  <2> QED BY <1>5, <2>1, <2>2, <2>3, Lists DEF WishesAre
<1>6. CASE lane = "solver_assist"
  <2>1. Wanted(lane) = WantSolverAssist
    BY <1>6 DEF Wanted
  <2>2. \/ WantSolverAssist = <<>>
        \/ /\ Uncovered # <<>>
           /\ WantSolverAssist =
                <<Wish("solver_assist", Head(Uncovered).method, <<ws.tried, Methods(Uncovered)>>)>>
    BY DEF WantSolverAssist
  <2>3. \A j \in Wishes : j.id[2] \notin ws.covered
    BY <2>1, <2>2, Lists, UncoveredAre DEF Wishes, Wish
  <2> QED BY <1>6, <2>1, <2>2, <2>3, Lists DEF WishesAre
<1>7. CASE lane = "steering"
  <2>1. Wanted(lane) = WantSteering
    BY <1>7 DEF Wanted
  <2> QED BY <1>7, <2>1, SteeringWants DEF WishesAre, Wishes
<1>8. CASE lane = "vuln_hunt"
  <2>1. Wanted(lane) = WantVulnHunt
    BY <1>8 DEF Wanted
  <2> QED BY <1>8, <2>1, Lists DEF WishesAre, Wishes, WantVulnHunt, VulnTrigger
<1>9. CASE lane = "pov_produce"
  <2>1. Wanted(lane) = WantPovProduce
    BY <1>9 DEF Wanted
  <2> QED BY <1>9, <2>1, PovWants DEF WishesAre, Wishes
<1> QED BY <1>1, <1>2, <1>3, <1>4, <1>5, <1>6, <1>7, <1>8, <1>9 DEF JobTypes

-----------------------------------------------------------------------------
(* The invariant *)

\* Every function has one sink, and no hypothesis is named like a function.
DistinctNames ==
  /\ \A s, t \in SinkKeys : s.method = t.method => s = t
  /\ "H1" \notin AllMethods

\* Of the hypotheses at most one is open, and not one of a worker.
OneOpen ==
  /\ \A h \in OpenHyps : h.id = "H1"
  /\ \A i, k \in DOMAIN ws.hyps :
       ws.hyps[i].state = "open" /\ ws.hyps[k].state = "open" => i = k

SameGen(id) == \A j \in Wishes : j.id = id => j.gen = ledger[id].gen

LedgerOK ==
  \A id \in DOMAIN ledger :
    /\ DOMAIN ledger[id] = {"state", "gen", "since"}
    /\ lane = "pov_produce" => id[2] \in Names

QueuedAsWanted ==
  lane \in GenLanes =>
    \A id \in DOMAIN ledger :
      ledger[id].state = "queued" /\ "others" \notin ledger[id].since => SameGen(id)

DoneAsWanted ==
  \A id \in DOMAIN ledger :
    ledger[id].state = "done" /\ "others" \notin ledger[id].since => SameGen(id)

JobsInv == lane \in JobTypes /\ WsOK /\ OneOpen /\ LedgerOK /\ QueuedAsWanted /\ DoneAsWanted

LEMMA JobsInitInv == JobsInit => JobsInv
<1> SUFFICES ASSUME JobsInit PROVE JobsInv
  OBVIOUS
<1>1. lane \in JobTypes /\ DOMAIN ledger = {} /\ ws.hyps = <<>> /\ DOMAIN ws = WsFields
  BY DEF JobsInit, WsFields
<1>2. WsOK
  BY <1>1 DEF WsOK
<1>3. OneOpen
  BY <1>1 DEF OneOpen, OpenHyps, ToSet
<1> QED
  BY <1>1, <1>2, <1>3 DEF JobsInv, LedgerOK, QueuedAsWanted, DoneAsWanted

\* Two jobs that are wanted with one id are wanted with one gen.
LEMMA OneGen ==
  ASSUME DistinctNames, WsOK, OneOpen, lane \in GenLanes, WishesAre,
         NEW j \in Wishes, NEW k \in Wishes, j.id = k.id
  PROVE  j.gen = k.gen
<1>1. CASE lane # "pov_produce"
  BY <1>1 DEF WishesAre, GenLanes
<1>2. CASE lane = "pov_produce"
  <2>1. j \in PovWishes /\ k \in PovWishes
    BY <1>2 DEF WishesAre
  <2>2. \A w \in PovWishes :
          \/ \E h \in OpenHyps : w = Wish("pov_produce", h.id, <<h.lead>>)
          \/ \E s \in ReachedSinks : w = Wish("pov_produce", s.method, <<s, s \in ws.close>>)
    BY DEF PovWishes
  <2>3. \A h \in OpenHyps, g \in OpenHyps : h = g
    BY DEF OneOpen, OpenHyps, ToSet
  <2>4. \A h \in OpenHyps, s \in ReachedSinks : h.id # s.method
    BY SinksAre DEF OneOpen, ReachedSinks, DistinctNames
  <2>5. \A s \in ReachedSinks, t \in ReachedSinks : s.method = t.method => s = t
    BY DEF ReachedSinks, DistinctNames
  <2>6. \A q, r, g, h : /\ Wish("pov_produce", q, g).id = Wish("pov_produce", r, h).id => q = r
                        /\ Wish("pov_produce", q, g).gen = g
    BY DEF Wish
  <2>7. ASSUME NEW h \in OpenHyps, j = Wish("pov_produce", h.id, <<h.lead>>)
        PROVE  j.gen = k.gen
    <3>1. ASSUME NEW g \in OpenHyps, k = Wish("pov_produce", g.id, <<g.lead>>)
          PROVE  j.gen = k.gen
      <4>1. g = h
        BY <2>3
      <4> QED BY <2>7, <3>1, <4>1
    <3>2. ASSUME NEW s \in ReachedSinks, k = Wish("pov_produce", s.method, <<s, s \in ws.close>>)
          PROVE  FALSE
      <4>1. h.id = s.method
        BY <2>6, <2>7, <3>2
      <4> QED BY <2>4, <4>1
    <3> QED BY <2>1, <2>2, <3>1, <3>2
  <2>8. ASSUME NEW s \in ReachedSinks, j = Wish("pov_produce", s.method, <<s, s \in ws.close>>)
        PROVE  j.gen = k.gen
    <3>1. ASSUME NEW g \in OpenHyps, k = Wish("pov_produce", g.id, <<g.lead>>)
          PROVE  FALSE
      <4>1. g.id = s.method
        BY <2>6, <2>8, <3>1
      <4> QED BY <2>4, <4>1
    <3>2. ASSUME NEW t \in ReachedSinks, k = Wish("pov_produce", t.method, <<t, t \in ws.close>>)
          PROVE  j.gen = k.gen
      <4>1. s.method = t.method
        BY <2>6, <2>8, <3>2
      <4>2. s = t
        BY <2>5, <4>1
      <4> QED BY <2>8, <3>2, <4>2
    <3> QED BY <2>1, <2>2, <3>1, <3>2
  <2> QED BY <2>1, <2>2, <2>7, <2>8
<1> QED BY <1>1, <1>2

LEMMA SameWishes ==
  ASSUME lane' = lane, ws' = ws
  PROVE  Wishes' = Wishes
BY DEF Wishes, Wanted, WantFleetPlan, WantTriage, WantAllowlistBuild, WantHarnessAuthor,
       WantFrontierSeed, WantSteering, WantSolverAssist, WantVulnHunt, WantPovProduce,
       VulnTrigger, Visible, Uncovered, Reached, NextRung

LEMMA SyncKeeps ==
  ASSUME DistinctNames, JobsInv, WishesAre, Sync
  PROVE  JobsInv'
<1> DEFINE W == Wanted(lane)
           dropped == [id \in DOMAIN ledger |->
             IF lane = "fleet_plan" /\ id[2] # ws.today /\ ledger[id].state \in Open
               THEN [ledger[id] EXCEPT !.state = "dropped"] ELSE ledger[id]]
           queued == Picked(W, {j \in ToSet(W) : Needed(j)})
           ids == {j.id : j \in ToSet(queued)}
           latest(id) == Last(Picked(queued, {j \in ToSet(queued) : j.id = id}))
<1>1. /\ ledger' = [id \in DOMAIN ledger \cup ids |->
                      IF id \in ids THEN Entry(latest(id).gen) ELSE dropped[id]]
      /\ lane' = lane /\ ws' = ws
  BY DEF Sync
<1>2. IsList(queued) /\ ToSet(queued) \subseteq Wishes
  BY PickedSet DEF WishesAre, Wishes
<1> HIDE DEF queued
<1>3. ASSUME NEW id \in ids PROVE latest(id) \in Wishes /\ latest(id).id = id
  <2> DEFINE T == {j \in ToSet(queued) : j.id = id}
             p == Picked(queued, T)
  <2>1. IsList(p) /\ ToSet(p) = T
    BY <1>2, PickedSet
  <2>2. T # {}
    OBVIOUS
  <2> HIDE DEF p
  <2>3. p # <<>>
    BY <2>1, <2>2, Lists
  <2>4. Last(p) \in T
    BY <2>1, <2>3, LastOf DEF IsList
  <2>5. latest(id) = Last(p)
    BY DEF p
  <2> QED BY <1>2, <2>4, <2>5
<1> HIDE DEF ids, latest
<1>4. Wishes' = Wishes
  BY <1>1, SameWishes
<1>5. (lane \in JobTypes /\ WsOK /\ OneOpen)'
  BY <1>1 DEF JobsInv, WsOK, OneOpen, OpenHyps
<1>6. ASSUME NEW id \in DOMAIN ledger', id \in ids
      PROVE  /\ ledger'[id] = Entry(latest(id).gen)
             /\ lane \in GenLanes => SameGen(id)'
             /\ lane = "pov_produce" => id[2] \in Names
  <2>1. ledger'[id] = Entry(latest(id).gen)
    BY <1>1, <1>6
  <2>2. ledger'[id].gen = latest(id).gen
    BY <2>1 DEF Entry
  <2>3. ASSUME lane \in GenLanes, NEW j \in Wishes, j.id = id
        PROVE  j.gen = latest(id).gen
    BY <1>3, <1>6, <2>3, OneGen DEF JobsInv
  <2>4. ASSUME lane = "pov_produce" PROVE id[2] \in Names
    <3>1. latest(id) \in PovWishes /\ latest(id).id = id
      BY <1>3, <1>6, <2>4 DEF WishesAre
    <3>2. \A h \in OpenHyps : h.id \in Names
      <4>1. ToSet(ws.hyps) \subseteq Rows
        BY SetOfSeq DEF JobsInv, WsOK
      <4> QED BY <4>1 DEF OpenHyps, Rows
    <3>3. \A s \in ReachedSinks : s.method \in Names
      BY SinksAre DEF ReachedSinks, Names
    <3> QED BY <3>1, <3>2, <3>3 DEF PovWishes, Wish
  <2> QED BY <1>4, <2>1, <2>2, <2>3, <2>4 DEF SameGen
<1>7. ASSUME NEW id \in DOMAIN ledger', id \notin ids
      PROVE  /\ id \in DOMAIN ledger
             /\ DOMAIN ledger'[id] = {"state", "gen", "since"}
             /\ ledger'[id].gen = ledger[id].gen /\ ledger'[id].since = ledger[id].since
             /\ ledger'[id].state = "queued" => ledger[id].state = "queued"
             /\ ledger'[id].state = "done" => ledger[id].state = "done"
  <2>1. id \in DOMAIN ledger /\ ledger'[id] = dropped[id]
    BY <1>1, <1>7
  <2>2. DOMAIN ledger[id] = {"state", "gen", "since"}
    BY <2>1 DEF JobsInv, LedgerOK
  <2>3. \/ dropped[id] = ledger[id]
        \/ dropped[id] = [ledger[id] EXCEPT !.state = "dropped"]
    BY <2>1
  <2> HIDE DEF dropped
  <2> QED BY <2>1, <2>2, <2>3
<1>8. \A id : ledger'[id] = Entry(latest(id).gen) =>
        /\ DOMAIN ledger'[id] = {"state", "gen", "since"} /\ ledger'[id].state = "queued"
  BY DEF Entry
<1>9. LedgerOK'
  BY <1>1, <1>6, <1>7, <1>8 DEF LedgerOK, JobsInv
<1>10. QueuedAsWanted'
  BY <1>1, <1>4, <1>6, <1>7 DEF QueuedAsWanted, JobsInv, SameGen
<1>11. DoneAsWanted'
  <2>1. ASSUME NEW id \in DOMAIN ledger',
               ledger'[id].state = "done", "others" \notin ledger'[id].since
        PROVE  SameGen(id)'
    <3>1. id \notin ids
      BY <1>6, <1>8, <2>1
    <3>2. SameGen(id) /\ ledger'[id].gen = ledger[id].gen
      BY <1>7, <2>1, <3>1 DEF JobsInv, DoneAsWanted
    <3> QED BY <1>4, <3>2 DEF SameGen
  <2> QED BY <2>1 DEF DoneAsWanted
<1> QED BY <1>5, <1>9, <1>10, <1>11 DEF JobsInv

LEMMA TouchedIs ==
  ASSUME LedgerOK, NEW who, ledger' = Touched(ledger, who)
  PROVE  /\ DOMAIN ledger' = DOMAIN ledger
         /\ \A id \in DOMAIN ledger :
              /\ DOMAIN ledger'[id] = {"state", "gen", "since"}
              /\ ledger'[id].state = ledger[id].state /\ ledger'[id].gen = ledger[id].gen
              /\ id \notin who => "others" \in ledger'[id].since
              /\ "others" \in ledger[id].since => "others" \in ledger'[id].since
<1>1. DOMAIN ledger' = DOMAIN ledger
  BY DEF Touched
<1>2. ASSUME NEW id \in DOMAIN ledger
      PROVE  /\ DOMAIN ledger'[id] = {"state", "gen", "since"}
             /\ ledger'[id].state = ledger[id].state /\ ledger'[id].gen = ledger[id].gen
             /\ id \notin who => "others" \in ledger'[id].since
             /\ "others" \in ledger[id].since => "others" \in ledger'[id].since
  <2>1. DOMAIN ledger[id] = {"state", "gen", "since"}
    BY DEF LedgerOK
  <2> DEFINE S == ledger[id].since \cup {IF id \in who THEN "worker" ELSE "others"}
  <2>2. ledger'[id] = [ledger[id] EXCEPT !.since = S]
    BY DEF Touched
  <2>3. (id \notin who => "others" \in S) /\ ("others" \in ledger[id].since => "others" \in S)
    OBVIOUS
  <2> HIDE DEF S
  <2> QED BY <2>1, <2>2, <2>3
<1> QED BY <1>1, <1>2

\* A change of a field leaves the others.
LEMMA ChangeIs ==
  ASSUME WsOK, NEW f \in WsFields, NEW v, Change(f, v)
  PROVE  /\ ws' = [ws EXCEPT ![f] = v] /\ DOMAIN ws' = WsFields
         /\ \A g \in WsFields : g # f => ws'[g] = ws[g]
BY DEF Change, WsOK

\* Rows of a scan: at most one that is open.
LEMMA HuntedRowsAre ==
  ASSUME NEW rows \in HuntedRows
  PROVE  /\ rows \in Seq(Rows)
         /\ \A i, k \in DOMAIN rows : i = k
         /\ \A i \in DOMAIN rows : rows[i].id = "H1"
<1>1. CASE rows = <<>>
  BY <1>1
<1>2. CASE rows # <<>>
  <2>1. PICK lead \in Leads, state \in {"open", "bad"} :
          rows = <<Hypothesis("H1", lead, state)>>
    BY <1>2 DEF HuntedRows
  <2> DEFINE h == Hypothesis("H1", lead, state)
  <2>2. h \in Rows /\ h.id = "H1"
    BY DEF Hypothesis, Rows, Names
  <2> HIDE DEF h
  <2>3. rows = <<h>>
    BY <2>1 DEF h
  <2> QED BY <2>2, <2>3
<1> QED BY <1>1, <1>2

\* What keeps the workspace in order: a change of any field by a value of it.
LEMMA ChangeKeeps ==
  ASSUME WsOK, OneOpen, NEW f \in WsFields, NEW v \in Values[f], Change(f, v)
  PROVE  WsOK' /\ OneOpen'
<1>1. /\ ws' = [ws EXCEPT ![f] = v] /\ DOMAIN ws' = WsFields
      /\ \A g \in WsFields : g # f => ws'[g] = ws[g]
  BY ChangeIs
<1>2. CASE f # "hyps"
  <2>1. ws'.hyps = ws.hyps
    BY <1>1, <1>2 DEF WsFields
  <2> QED BY <1>1, <2>1 DEF WsOK, OneOpen, OpenHyps
<1>3. CASE f = "hyps"
  <2>1. ws'.hyps = v /\ v \in HuntedRows
    BY <1>1, <1>3 DEF WsOK, WsFields, Values
  <2>2. v \in Seq(Rows) /\ (\A i, k \in DOMAIN v : i = k) /\ \A i \in DOMAIN v : v[i].id = "H1"
    BY <2>1, HuntedRowsAre
  <2> QED BY <1>1, <2>1, <2>2 DEF WsOK, OneOpen, OpenHyps, ToSet
<1> QED BY <1>2, <1>3

\* A worker writes fields that its scan does not read the evidence from.
LEMMA WorkerWrites ==
  ASSUME NEW f, lane \in JobTypes, f \in Written[lane]
  PROVE  /\ f \in WsFields
         /\ lane = "fleet_plan" => f = "plan"
         /\ lane = "allowlist_build" => f = "built"
         /\ lane = "harness_author" => f \in {"manifest", "binary"}
         /\ lane = "vuln_hunt" => f = "hyps"
BY DEF JobTypes, Written, WsFields

LEMMA OtherFields ==
  ASSUME NEW f, lane \in JobTypes, f \in Watched[lane]
  PROVE  f \in WsFields
BY DEF JobTypes, Watched, WsFields

\* What a worker of pov_produce does to the hypotheses.
LEMMA HypothesesKept ==
  ASSUME WsOK, OneOpen, LedgerOK, lane = "pov_produce", NEW id \in DOMAIN ledger,
         \/ \E i \in DOMAIN ws.hyps :
              ws.hyps[i].id = id[2] /\ ws' = [ws EXCEPT !.hyps[i].state = "refuted"]
         \/ \E other \in {"R1", id[2]}, lead \in Leads :
              ws' = [ws EXCEPT !.hyps = Append(@, Hypothesis(other, lead, "refuted"))]
  PROVE  /\ WsOK' /\ OneOpen' /\ OpenHyps' \subseteq OpenHyps
         /\ \A g \in WsFields \ {"hyps"} : ws'[g] = ws[g]
<1>1. DOMAIN ws = WsFields /\ ws.hyps \in Seq(Rows) /\ id[2] \in Names
  BY DEF WsOK, LedgerOK
<1> DEFINE s == ws.hyps
           n == Len(s)
<1>2. n \in Nat /\ DOMAIN s = 1..n /\ \A k \in 1..n : s[k] \in Rows
  BY <1>1
<1>3. ASSUME NEW i \in DOMAIN s, ws' = [ws EXCEPT !.hyps[i].state = "refuted"]
      PROVE  /\ DOMAIN ws' = WsFields /\ \A g \in WsFields \ {"hyps"} : ws'[g] = ws[g]
             /\ ws'.hyps \in Seq(Rows) /\ DOMAIN ws'.hyps = DOMAIN s
             /\ \A k \in DOMAIN s : ws'.hyps[k].state = "open" => ws'.hyps[k] = s[k]
  <2>1. /\ DOMAIN ws' = WsFields /\ \A g \in WsFields \ {"hyps"} : ws'[g] = ws[g]
        /\ ws'.hyps = [s EXCEPT ![i] = [s[i] EXCEPT !.state = "refuted"]]
    BY <1>1, <1>3 DEF WsFields
  <2> DEFINE row == [s[i] EXCEPT !.state = "refuted"]
  <2>2. row \in Rows /\ row.state = "refuted"
    BY <1>2 DEF Rows
  <2> HIDE DEF row
  <2>3. ws'.hyps = [s EXCEPT ![i] = row]
    BY <2>1 DEF row
  <2>4. ws'.hyps \in Seq(Rows) /\ DOMAIN ws'.hyps = DOMAIN s
    BY <1>1, <2>2, <2>3
  <2>5. \A k \in DOMAIN s : ws'.hyps[k] = IF k = i THEN row ELSE s[k]
    BY <2>3
  <2> QED BY <2>1, <2>2, <2>4, <2>5
<1>4. ASSUME NEW other \in {"R1", id[2]}, NEW lead \in Leads,
             ws' = [ws EXCEPT !.hyps = Append(@, Hypothesis(other, lead, "refuted"))]
      PROVE  /\ DOMAIN ws' = WsFields /\ \A g \in WsFields \ {"hyps"} : ws'[g] = ws[g]
             /\ ws'.hyps \in Seq(Rows)
             /\ \A k \in DOMAIN ws'.hyps : ws'.hyps[k].state = "open"
                  => k \in DOMAIN s /\ ws'.hyps[k] = s[k]
  <2> DEFINE row == Hypothesis(other, lead, "refuted")
  <2>1. /\ DOMAIN ws' = WsFields /\ \A g \in WsFields \ {"hyps"} : ws'[g] = ws[g]
        /\ ws'.hyps = Append(s, row)
    BY <1>1, <1>4 DEF WsFields
  <2>2. row \in Rows /\ row.state = "refuted"
    BY <1>1 DEF Rows, Hypothesis, Names
  <2> HIDE DEF row
  <2>3. /\ ws'.hyps \in Seq(Rows) /\ DOMAIN ws'.hyps = 1..(n + 1)
        /\ \A k \in 1..(n + 1) : ws'.hyps[k] = IF k = n + 1 THEN row ELSE s[k]
    BY <1>1, <1>2, <2>1, <2>2
  <2> QED BY <1>2, <2>1, <2>2, <2>3
<1> HIDE DEF s, n
<1>5. /\ DOMAIN ws' = WsFields /\ \A g \in WsFields \ {"hyps"} : ws'[g] = ws[g]
      /\ ws'.hyps \in Seq(Rows)
      /\ \A k \in DOMAIN ws'.hyps : ws'.hyps[k].state = "open"
           => k \in DOMAIN s /\ ws'.hyps[k] = s[k]
  BY <1>3, <1>4 DEF s
<1>6. OpenHyps' \subseteq OpenHyps
  BY <1>5 DEF OpenHyps, ToSet, s
<1>7. OneOpen'
  BY <1>5, <1>6 DEF OneOpen, s
<1> QED BY <1>5, <1>6, <1>7 DEF WsOK

\* A delivery leaves the workspace in order.
LEMMA DeliverInOrder ==
  ASSUME JobsInv, NEW id \in DOMAIN ledger, Deliver(id)
  PROVE  WsOK' /\ OneOpen' /\ lane' \in JobTypes
<1>1. lane' = lane /\ lane \in JobTypes /\ WsOK /\ OneOpen /\ LedgerOK
  BY DEF Deliver, JobsInv
<1>2. CASE lane = "pov_produce"
  BY <1>1, <1>2, HypothesesKept DEF Deliver
<1>3. CASE lane # "pov_produce"
  <2>1. PICK f \in Written[lane] : \E v \in Values[f] : Change(f, v)
    BY <1>3 DEF Deliver
  <2>2. PICK v \in Values[f] : Change(f, v)
    BY <2>1
  <2> QED BY <1>1, <2>1, <2>2, WorkerWrites, ChangeKeeps
<1> QED BY <1>2, <1>3

\* Where a type has evidence that its workers do not write, nothing is wanted
\* after a delivery that was not before.
LEMMA DeliverWishes ==
  ASSUME JobsInv, WishesAre, WishesAre', NEW id \in DOMAIN ledger, Deliver(id)
  PROVE  lane \in GenLanes => Wishes' \subseteq Wishes
<1>1. lane' = lane /\ lane \in JobTypes /\ WsOK /\ OneOpen /\ LedgerOK
  BY DEF Deliver, JobsInv
<1>2. CASE lane = "pov_produce"
  <2>1. /\ WsOK' /\ OneOpen' /\ OpenHyps' \subseteq OpenHyps
        /\ \A g \in WsFields \ {"hyps"} : ws'[g] = ws[g]
    BY <1>1, <1>2, HypothesesKept DEF Deliver
  <2>2. ws'.status = ws.status /\ ws'.close = ws.close
    BY <2>1 DEF WsFields
  <2>3. PovWishes' \subseteq PovWishes
    BY <2>1, <2>2 DEF PovWishes, ReachedSinks
  <2> QED BY <1>1, <1>2, <2>1, <2>3 DEF WishesAre
<1>3. CASE lane # "pov_produce"
  <2>1. PICK f \in Written[lane] : \E v \in Values[f] : Change(f, v)
    BY <1>3 DEF Deliver
  <2>2. PICK v \in Values[f] : Change(f, v)
    BY <2>1
  <2>3. f \in WsFields
    BY <1>1, <2>1, WorkerWrites
  <2>4. /\ ws' = [ws EXCEPT ![f] = v]
        /\ \A g \in WsFields : g # f => ws'[g] = ws[g]
    BY <1>1, <2>2, <2>3, ChangeIs
  <2>5. CASE lane = "fleet_plan"
    <3>1. ws'.today = ws.today
      BY <1>1, <2>1, <2>4, <2>5, WorkerWrites DEF WsFields
    <3> QED BY <1>1, <2>3, <2>5, <3>1 DEF WishesAre
  <2>6. CASE lane = "allowlist_build"
    <3>1. ws'.aim = ws.aim /\ ws'.priority = ws.priority /\ f = "built"
      BY <1>1, <2>1, <2>4, <2>6, WorkerWrites DEF WsFields
    <3>2. ws.built \subseteq ws'.built
      BY <1>1, <2>2, <2>4, <3>1 DEF Change, Grown, WsOK, WsFields
    <3> QED BY <1>1, <2>3, <2>6, <3>1, <3>2 DEF WishesAre
  <2>7. CASE lane = "harness_author"
    <3>1. ws'.candidate = ws.candidate
      BY <1>1, <2>1, <2>4, <2>7, WorkerWrites DEF WsFields
    <3> QED BY <1>1, <2>3, <2>7, <3>1 DEF WishesAre
  <2>8. CASE lane = "vuln_hunt"
    <3>1. ws'.covered = ws.covered /\ ws'.status = ws.status
      BY <1>1, <2>1, <2>4, <2>8, WorkerWrites DEF WsFields
    <3>2. Visible' = Visible
      BY <3>1 DEF Visible, Uncovered
    <3> QED BY <1>1, <2>3, <2>8, <3>2 DEF WishesAre
  <2> QED BY <1>3, <2>3, <2>5, <2>6, <2>7, <2>8 DEF GenLanes
<1> QED BY <1>2, <1>3

LEMMA DeliverKeeps ==
  ASSUME JobsInv, WishesAre, WishesAre', NEW id \in DOMAIN ledger, Deliver(id)
  PROVE  JobsInv'
<1>1. WsOK' /\ OneOpen' /\ (lane \in GenLanes => Wishes' \subseteq Wishes)
  BY DeliverInOrder, DeliverWishes
<1>2. lane' = lane /\ ledger' = Touched(ledger, {id}) /\ ledger[id].state = "queued" /\ LedgerOK
  BY DEF Deliver, JobsInv
<1>3. /\ DOMAIN ledger' = DOMAIN ledger
      /\ \A k \in DOMAIN ledger :
           /\ DOMAIN ledger'[k] = {"state", "gen", "since"}
           /\ ledger'[k].state = ledger[k].state /\ ledger'[k].gen = ledger[k].gen
           /\ k \notin {id} => "others" \in ledger'[k].since
           /\ "others" \in ledger[k].since => "others" \in ledger'[k].since
  BY <1>2, TouchedIs
<1>4. LedgerOK'
  BY <1>2, <1>3 DEF LedgerOK
<1>5. QueuedAsWanted'
  <2>1. ASSUME lane \in GenLanes, NEW k \in DOMAIN ledger,
               ledger[k].state = "queued", "others" \notin ledger[k].since
        PROVE  SameGen(k)'
    BY <1>1, <1>3, <2>1 DEF JobsInv, QueuedAsWanted, SameGen
  <2> QED BY <1>2, <1>3, <2>1 DEF QueuedAsWanted
<1>6. DoneAsWanted'
  BY <1>2, <1>3 DEF DoneAsWanted
<1> QED BY <1>1, <1>2, <1>4, <1>5, <1>6 DEF JobsInv

LEMMA OthersKeep ==
  ASSUME JobsInv, OthersChange
  PROVE  JobsInv'
<1>1. PICK f \in Watched[lane] : \E v \in Values[f] : Change(f, v)
  BY DEF OthersChange
<1>2. PICK v \in Values[f] : Change(f, v)
  BY <1>1
<1>3. WsOK' /\ OneOpen'
  BY <1>1, <1>2, OtherFields, ChangeKeeps DEF JobsInv
<1>4. lane' = lane /\ ledger' = Touched(ledger, {}) /\ LedgerOK
  BY DEF OthersChange, JobsInv
<1>5. /\ DOMAIN ledger' = DOMAIN ledger
      /\ \A k \in DOMAIN ledger :
           /\ DOMAIN ledger'[k] = {"state", "gen", "since"}
           /\ k \notin {} => "others" \in ledger'[k].since
  BY <1>4, TouchedIs
<1>6. LedgerOK' /\ QueuedAsWanted' /\ DoneAsWanted'
  BY <1>4, <1>5 DEF LedgerOK, QueuedAsWanted, DoneAsWanted
<1> QED BY <1>3, <1>4, <1>6 DEF JobsInv

\* Work of the other types is accepted only when it is not wanted any more.
LEMMA AcceptedNotWanted ==
  ASSUME WishesAre, lane \in JobTypes \ GenLanes, NEW id, NEW foundInTime, Satisfied(id, foundInTime),
         NEW j \in Wishes
  PROVE  j.id # id
<1>1. CASE lane = "triage"
  BY <1>1 DEF WishesAre, Satisfied, TriageDone
<1>2. CASE lane \in {"frontier_seed", "solver_assist"}
  <2>1. id[2] \in ws.covered
    BY <1>2 DEF Satisfied, CoverageFlipped
  <2> QED BY <1>2, <2>1 DEF WishesAre
<1>3. CASE lane = "steering"
  <2>1. SteeringDone(id)
    BY <1>3 DEF Satisfied
  <2>2. \/ j.id[2] = "dict" /\ ws.dict = "none"
        \/ j.id[2] = "bits" /\ ws.bits = "none"
        \/ j.id[2] = "codec" /\ ws.codec # "good"
    BY <1>3 DEF WishesAre
  <2> QED BY <2>1, <2>2 DEF SteeringDone
<1> QED BY <1>1, <1>2, <1>3 DEF JobTypes, GenLanes

LEMMA SettleKeeps ==
  ASSUME JobsInv, WishesAre, NEW id \in DOMAIN ledger, Settle(id)
  PROVE  JobsInv'
<1>1. PICK foundInTime \in BOOLEAN :
        ledger' = [ledger EXCEPT ![id].state = IF Satisfied(id, foundInTime) THEN "done" ELSE "parked"]
  BY DEF Settle
<1>2. lane' = lane /\ ws' = ws /\ ledger[id].state = "queued"
  BY DEF Settle
<1> DEFINE st == IF Satisfied(id, foundInTime) THEN "done" ELSE "parked"
<1>3. /\ DOMAIN ledger' = DOMAIN ledger
      /\ \A k \in DOMAIN ledger : k # id => ledger'[k] = ledger[k]
      /\ ledger'[id] = [ledger[id] EXCEPT !.state = st]
  BY <1>1
<1>4. DOMAIN ledger[id] = {"state", "gen", "since"}
  BY DEF JobsInv, LedgerOK
<1>5. /\ DOMAIN ledger'[id] = {"state", "gen", "since"} /\ ledger'[id].state = st
      /\ ledger'[id].gen = ledger[id].gen /\ ledger'[id].since = ledger[id].since
  <2> HIDE DEF st
  <2> QED BY <1>3, <1>4
<1>6. Wishes' = Wishes
  BY <1>2, SameWishes
<1>7. (lane \in JobTypes /\ WsOK /\ OneOpen)'
  BY <1>2 DEF JobsInv, WsOK, OneOpen, OpenHyps
<1>8. LedgerOK'
  BY <1>2, <1>3, <1>5 DEF JobsInv, LedgerOK
<1>9. st \in {"done", "parked"} /\ (st = "done" => Satisfied(id, foundInTime))
  OBVIOUS
<1> HIDE DEF st
<1>10. QueuedAsWanted'
  <2>1. ASSUME lane \in GenLanes, NEW k \in DOMAIN ledger,
               ledger'[k].state = "queued", "others" \notin ledger'[k].since
        PROVE  SameGen(k)'
    <3>1. k # id
      BY <1>5, <1>9, <2>1
    <3>2. SameGen(k) /\ ledger'[k] = ledger[k]
      BY <1>3, <2>1, <3>1 DEF JobsInv, QueuedAsWanted
    <3> QED BY <1>6, <3>2 DEF SameGen
  <2> QED BY <1>2, <1>3, <2>1 DEF QueuedAsWanted
<1>11. DoneAsWanted'
  <2>1. ASSUME NEW k \in DOMAIN ledger,
               ledger'[k].state = "done", "others" \notin ledger'[k].since
        PROVE  SameGen(k)'
    <3>1. CASE k # id
      <4>1. SameGen(k) /\ ledger'[k] = ledger[k]
        BY <1>3, <2>1, <3>1 DEF JobsInv, DoneAsWanted
      <4> QED BY <1>6, <4>1 DEF SameGen
    <3>2. CASE k = id
      <4>1. SameGen(id)
        <5>1. CASE lane \in GenLanes
          BY <1>2, <1>5, <2>1, <3>2, <5>1 DEF JobsInv, QueuedAsWanted
        <5>2. CASE lane \notin GenLanes
          <6>1. Satisfied(id, foundInTime)
            BY <1>5, <1>9, <2>1, <3>2
          <6> QED BY <5>2, <6>1, AcceptedNotWanted DEF SameGen, JobsInv
        <5> QED BY <5>1, <5>2
      <4> QED BY <1>5, <1>6, <3>2, <4>1 DEF SameGen
    <3> QED BY <3>1, <3>2
  <2> QED BY <1>3, <2>1 DEF DoneAsWanted
<1> QED BY <1>7, <1>8, <1>10, <1>11 DEF JobsInv

\* WantedJobs: for any sinks in distinct functions, work that was accepted is
\* not wanted with another gen because of what its own worker left.
THEOREM AcceptedStaysClosed ==
  ASSUME DistinctNames
  PROVE  JobsSpec => []PassedStaysClosed
<1>1. JobsInv /\ [JobsNext]_jobsVars => JobsInv'
  <2> SUFFICES ASSUME JobsInv, [JobsNext]_jobsVars PROVE JobsInv'
    OBVIOUS
  <2>1. WishesAre
    BY WhatIsWanted DEF JobsInv
  <2>2. CASE Sync
    BY <2>1, <2>2, SyncKeeps
  <2>3. ASSUME NEW id \in DOMAIN ledger, Deliver(id) PROVE JobsInv'
    <3>1. (WsOK /\ lane \in JobTypes => WishesAre)'
      BY WhatIsWanted, PTL
    <3>2. WsOK' /\ lane' \in JobTypes
      BY <2>3, DeliverInOrder
    <3> QED BY <2>1, <2>3, <3>1, <3>2, DeliverKeeps
  <2>4. ASSUME NEW id \in DOMAIN ledger, Settle(id) PROVE JobsInv'
    BY <2>1, <2>4, SettleKeeps
  <2>5. CASE OthersChange
    BY <2>5, OthersKeep
  <2>6. CASE UNCHANGED jobsVars
    <3>1. lane' = lane /\ ws' = ws /\ ledger' = ledger
      BY <2>6 DEF jobsVars
    <3>2. Wishes' = Wishes
      BY <3>1, SameWishes
    <3> QED BY <3>1, <3>2 DEF JobsInv, WsOK, OneOpen, OpenHyps, LedgerOK, QueuedAsWanted,
              DoneAsWanted, SameGen
  <2> QED BY <2>2, <2>3, <2>4, <2>5, <2>6 DEF JobsNext
<1>2. JobsInv => PassedStaysClosed
  BY DEF JobsInv, DoneAsWanted, SameGen, Wishes, PassedStaysClosed
<1> QED BY JobsInitInv, <1>1, <1>2, PTL DEF JobsSpec

-----------------------------------------------------------------------------
(* A full campaign *)

(* What a script has still to do *)

IsCall(l, tool) == l.kind = "call" /\ l.what = tool
Closes(l) == IsCall(l, "choose") \/ IsCall(l, "audit")

\* What a closed campaign needs of its script, as pairs: the agents and the
\* phases that are handed over, and the traces of tools.
FirstDuties ==
  ({"agent"} \X {"planner", "harness-builder", "dictionary-generator", "grammar-reverser",
                 "concolic-generator", "corpus-manager", "input-generator", "fuzz-finder",
                 "native-harness"})
  \cup ({"phase"} \X {"readiness", "scope", "input-material", "fuzzing"})

ClosingDuties ==
  ({"agent"} \X {"crash-grader", "dedupe-judge", "reporter", "export-agent",
                 "artifact-manager"})
  \cup ({"phase"} \X {"grading", "dedupe", "report", "export"})
  \cup ({"seen"} \X {"campaign_report", "sarif", "export_bundle_created", "finding_dedupe"})

Duties == FirstDuties \cup ClosingDuties

\* A line of the script does it, or has it done by what follows.
Meets(l, d) ==
  \/ d[1] = "agent" /\ l.kind = "checkpoint" /\ l.of = d[2]
  \/ d[1] = "phase" /\ l.kind = "checkpoint" /\ l.what = d[2] /\ l.ok
  \/ /\ d[1] = "seen" /\ l.kind = "event"
     /\ l.what = d[2] \/ (l.what = "export_accepted" /\ l.of = d[2])
  \/ IsCall(l, "choose") /\ d \in ClosingDuties

Ahead(s, d) == \E i \in DOMAIN s : Meets(s[i], d)

\* Already done in the run r.
Met(r, d) ==
  \/ d[1] = "agent" /\ d[2] \in r.agents
  \/ d[1] = "phase" /\ r.phase[d[2]].state # "none"
  \/ d[1] = "seen" /\ d[2] \in r.seen

\* The phase that a line opens again.
Opens(l) ==
  IF l.kind = "event" /\ l.what \in DOMAIN EventPhase THEN {EventPhase[l.what]}
  ELSE IF IsCall(l, "submit pov") THEN {"export"} ELSE {}

Dedupe == <<"seen", "finding_dedupe">>

AgentNames == DefaultAgents \cup {"patcher", "patch-grader"}

ToolNames ==
  DOMAIN EventPhase \cup {"finding_verified"}

\* A line that anybody may append, and one of the script.
LineOK(l) ==
  /\ l.kind \in {"event", "finding", "checkpoint", "call"}
  /\ l.kind = "event" => l.what \in ToolNames
  /\ l.kind = "event" /\ l.what = "export_accepted" => l.of \in {"pov", "patch", "sarif"}
  /\ l.kind = "checkpoint" => l.what \in Phases /\ l.of \in AgentNames

ScriptLineOK(l) ==
  /\ LineOK(l)
  /\ l.kind = "event" => l.what # "patch_grade"
  /\ ~l.ok => IsCall(l, "audit")
  /\ l.kind = "call" => l.what \in {"replay", "choose", "submit pov", "audit"}
  /\ IsCall(l, "replay") => DOMAIN Fixtures # {}

\* After the line at i.
Later(s, i, d) == \E k \in DOMAIN s : k > i /\ Meets(s[k], d)

WellOrdered(s) ==
  /\ \A i \in DOMAIN s :
       /\ ScriptLineOK(s[i])
       /\ Closes(s[i]) <=> i = Len(s)
       /\ \A p \in Opens(s[i]) : Later(s, i, <<"phase", p>>)
       /\ s[i].kind = "event" /\ s[i].what = "finding_recorded" => Later(s, i, Dedupe)
       /\ IsCall(s[i], "replay") => IsCall(s[Len(s)], "choose")

(* The invariant *)

\* A run that is open by the script is one it hands over.
ByScriptOK(entry, p) ==
  entry.by = "script" =>
    /\ entry.state # "blocked"
    /\ entry.state = "open" => <<"phase", p>> \in Duties

RunOK(r) ==
  /\ DOMAIN r = {"phase", "agents", "findings", "evidence", "waiting", "seen"}
  /\ r.phase \in [Phases -> [state : {"none", "open", "handed over", "blocked"},
                             by : {"script", "session"}]]
  /\ r.agents \subseteq AgentNames
  /\ r.waiting \subseteq {"script", "session"}
  /\ r.seen \subseteq ToolNames \cup {"pov", "patch", "sarif"}
  /\ "patch_grade" \in r.seen => r.phase["patch"].state # "none"
  /\ \A p \in Phases : ByScriptOK(r.phase[p], p)

IsLines(s) == s \in Seq({s[i] : i \in DOMAIN s})

Loggable(l) == LineOK(l) /\ l.kind # "call"

LoggableLines(s) == IsLines(s) /\ \A i \in DOMAIN s : Loggable(s[i])

\* The script s has met no blocker.
Trying(s) == s # <<>> /\ \A i \in DOMAIN s : s[i].ok

OnTheWay(r, s) ==
  Trying(s) =>
    /\ \A d \in Duties : Met(r, d) \/ Ahead(s, d)
    /\ \A p \in Phases : r.phase[p].by = "script" /\ r.phase[p].state = "open"
         => Ahead(s, <<"phase", p>>)
    /\ "script" \in r.waiting => Ahead(s, Dedupe)

ReplayedOK(s, verified) ==
  /\ verified # <<>> => DOMAIN Fixtures # {}
  /\ s # <<>> /\ ~ Trying(s) => verified = <<>>
  /\ Trying(s) /\ ~ IsCall(s[Len(s)], "choose") => verified # <<>>

ScriptInv ==
  /\ RunOK(run)
  /\ IsLines(script) /\ WellOrdered(script)
  /\ LoggableLines(session)
  /\ OnTheWay(run, script)
  /\ ReplayedOK(script, replayed)

(* Lines *)

LEMMA OpenedPhase ==
  ASSUME NEW l, LineOK(l), l.kind = "event", l.what \in DOMAIN EventPhase
  PROVE  /\ EventPhase[l.what] \in Phases
         /\ Opens(l) = {EventPhase[l.what]}
         /\ l.what # "patch_grade" => <<"phase", EventPhase[l.what]>> \in Duties
<1>1. EventPhase[l.what] \in Phases
  BY DEF EventPhase, Phases
<1>2. Opens(l) = {EventPhase[l.what]}
  BY DEF Opens
<1>3. ASSUME l.what # "patch_grade" PROVE <<"phase", EventPhase[l.what]>> \in Duties
  <2>1. EventPhase[l.what] \in {"input-material", "fuzzing", "grading", "dedupe", "report", "export"}
    BY <1>3 DEF EventPhase
  <2> QED BY <2>1 DEF Duties, FirstDuties, ClosingDuties
<1> QED BY <1>1, <1>2, <1>3

\* What an event leaves, and what a checkpoint leaves.
EventLeaves(q, r, l, who) ==
  /\ DOMAIN q = DOMAIN r
  /\ q.agents = r.agents
  /\ q.seen = r.seen \cup {l.what} \cup IF l.what = "export_accepted" THEN {l.of} ELSE {}
  /\ q.phase = IF l.what \in DOMAIN EventPhase
                THEN [r.phase EXCEPT ![EventPhase[l.what]] = [state |-> "open", by |-> who]]
                ELSE r.phase
  /\ q.waiting = CASE l.what = "finding_recorded" -> r.waiting \cup {who}
                    [] l.what = "finding_dedupe"   -> {}
                    [] OTHER                       -> r.waiting

CheckpointLeaves(q, r, l, who) ==
  /\ DOMAIN q = DOMAIN r
  /\ q.agents = r.agents \cup {l.of}
  /\ q.seen = r.seen /\ q.waiting = r.waiting
  /\ q.phase = [r.phase EXCEPT ![l.what] =
                  [state |-> IF l.ok THEN "handed over" ELSE "blocked", by |-> who]]

LEMMA EventLogged ==
  ASSUME NEW r, RunOK(r), NEW l, LineOK(l), l.kind = "event", NEW who \in {"script", "session"},
         NEW q, q = Logged(r, l, who)
  PROVE  EventLeaves(q, r, l, who)
<1> DEFINE n == IF l.what \in DOMAIN EventPhase THEN InPhase(r, EventPhase[l.what], "open", who)
                ELSE r
<1>1. /\ DOMAIN n = DOMAIN r
      /\ n.agents = r.agents /\ n.seen = r.seen /\ n.waiting = r.waiting
      /\ n.evidence = r.evidence
      /\ n.phase = IF l.what \in DOMAIN EventPhase
              THEN [r.phase EXCEPT ![EventPhase[l.what]] = [state |-> "open", by |-> who]]
              ELSE r.phase
  BY DEF InPhase, RunOK
<1>2. q = LoggedEvent(r, l, who)
  BY DEF Logged
<1>3. q = [n EXCEPT
        !.seen = n.seen \cup {l.what} \cup IF l.what = "export_accepted" THEN {l.of} ELSE {},
        !.evidence = IF l.what = "finding_verified" THEN n.evidence \cup {l.of} ELSE n.evidence,
        !.waiting = CASE l.what = "finding_recorded" -> n.waiting \cup {who}
                      [] l.what = "finding_dedupe"   -> {}
                      [] OTHER                       -> n.waiting]
  BY <1>2 DEF LoggedEvent
<1> HIDE DEF n
<1>4. DOMAIN n = {"phase", "agents", "findings", "evidence", "waiting", "seen"}
  BY <1>1 DEF RunOK
<1>5. /\ DOMAIN q = DOMAIN n
      /\ q.agents = n.agents /\ q.phase = n.phase
  BY <1>3, <1>4
<1>6. q.seen = n.seen \cup {l.what} \cup IF l.what = "export_accepted" THEN {l.of} ELSE {}
  BY <1>3, <1>4
<1>7. q.waiting = CASE l.what = "finding_recorded" -> n.waiting \cup {who}
                      [] l.what = "finding_dedupe"   -> {}
                      [] OTHER                       -> n.waiting
  BY <1>3, <1>4
<1> QED BY <1>1, <1>5, <1>6, <1>7 DEF EventLeaves

LEMMA CheckpointLogged ==
  ASSUME NEW r, RunOK(r), NEW l, LineOK(l), l.kind = "checkpoint",
         NEW who \in {"script", "session"}, NEW q, q = Logged(r, l, who)
  PROVE  CheckpointLeaves(q, r, l, who)
BY DEF Logged, InPhase, RunOK, CheckpointLeaves

LEMMA FindingLogged ==
  ASSUME NEW r, RunOK(r), NEW l, LineOK(l), l.kind = "finding",
         NEW who \in {"script", "session"}, NEW q, q = Logged(r, l, who)
  PROVE  /\ DOMAIN q = DOMAIN r
         /\ q.agents = r.agents /\ q.seen = r.seen
         /\ q.waiting = r.waiting /\ q.phase = r.phase
BY DEF Logged, RunOK

\* What any line leaves.
Extends(q, r, l, who) ==
  /\ r.agents \subseteq q.agents /\ r.seen \subseteq q.seen
  /\ \A w \in q.waiting :
       w \in r.waiting \/ (w = who /\ l.kind = "event" /\ l.what = "finding_recorded")
  /\ \A p \in Phases :
       /\ r.phase[p].state # "none" => q.phase[p].state # "none"
       /\ q.phase[p].by = "script" /\ q.phase[p].state = "open" =>
            \/ r.phase[p].by = "script" /\ r.phase[p].state = "open"
            \/ who = "script" /\ p \in Opens(l)
  /\ \A d \in Duties : Meets(l, d) => Met(q, d)
  
Handed(q, l) ==
  /\ l.kind = "checkpoint" /\ l.ok => q.phase[l.what].state = "handed over"
  /\ l.kind = "event" /\ l.what = "finding_dedupe" => q.waiting = {}
  
LEMMA EntryInPhases ==
  ASSUME NEW r, RunOK(r), NEW p \in Phases
  PROVE  /\ r.phase[p] \in [state : {"none", "open", "handed over", "blocked"},
                             by : {"script", "session"}]
         /\ DOMAIN r.phase = Phases
         /\ ByScriptOK(r.phase[p], p)
BY DEF RunOK

LEMMA LineLogged ==
  ASSUME NEW r, RunOK(r), NEW l, LineOK(l), l.kind # "call", NEW who \in {"script", "session"},
         who = "script" => ScriptLineOK(l), NEW q, q = Logged(r, l, who)
  PROVE  RunOK(q) /\ Extends(q, r, l, who) /\ Handed(q, l)
<1>1. CASE l.kind = "event"
  <2> DEFINE ph == EventPhase[l.what]
             en == [state |-> "open", by |-> who]
  <2>0. EventLeaves(q, r, l, who)
    BY <1>1, EventLogged
  <2>1. /\ DOMAIN q = DOMAIN r
        /\ q.agents = r.agents
        /\ q.seen = r.seen \cup {l.what}
             \cup IF l.what = "export_accepted" THEN {l.of} ELSE {}
        /\ l.what \in DOMAIN EventPhase => q.phase = [r.phase EXCEPT ![ph] = en]
        /\ l.what \notin DOMAIN EventPhase => q.phase = r.phase
    BY <2>0 DEF EventLeaves
  <2>2. /\ l.what = "finding_recorded" => q.waiting = r.waiting \cup {who}
        /\ l.what = "finding_dedupe" => q.waiting = {}
        /\ l.what \notin {"finding_recorded", "finding_dedupe"} => q.waiting = r.waiting
    BY <2>0 DEF EventLeaves
  <2>3. l.what \in DOMAIN EventPhase =>
          /\ ph \in Phases /\ Opens(l) = {ph}
          /\ l.what # "patch_grade" => <<"phase", ph>> \in Duties
    BY <1>1, OpenedPhase
  <2>4. l.what = "patch_grade" => l.what \in DOMAIN EventPhase /\ ph = "patch"
    BY DEF EventPhase
  <2>5. l.what \in ToolNames /\ (l.what = "export_accepted" => l.of \in {"pov", "patch", "sarif"})
    BY <1>1 DEF LineOK
  <2>6. who = "script" => l.what # "patch_grade"
    BY <1>1 DEF ScriptLineOK
  <2> HIDE DEF ph
  <2>7. ASSUME NEW p \in Phases
        PROVE  \/ q.phase[p] = r.phase[p]
               \/ l.what \in DOMAIN EventPhase /\ p = ph /\ q.phase[p] = en
    BY <2>1, EntryInPhases
  <2>8. l.what \in DOMAIN EventPhase => q.phase[ph] = en
    BY <2>1, <2>3, EntryInPhases
  <2>9. q.phase \in [Phases -> [state : {"none", "open", "handed over", "blocked"},
                             by : {"script", "session"}]]
    <3>1. r.phase \in [Phases -> [state : {"none", "open", "handed over", "blocked"},
                             by : {"script", "session"}]]
      BY DEF RunOK
    <3>2. en \in [state : {"none", "open", "handed over", "blocked"},
                  by : {"script", "session"}]
      OBVIOUS
    <3> QED BY <2>1, <3>1, <3>2
  <2>10. \A p \in Phases : ByScriptOK(q.phase[p], p)
    <3> SUFFICES ASSUME NEW p \in Phases PROVE ByScriptOK(q.phase[p], p)
      OBVIOUS
    <3>1. CASE q.phase[p] = r.phase[p]
      BY <3>1, EntryInPhases
    <3>2. CASE l.what \in DOMAIN EventPhase /\ p = ph /\ q.phase[p] = en
      BY <2>3, <2>6, <3>2 DEF ByScriptOK
    <3> QED BY <2>7, <3>1, <3>2
  <2>11. "patch_grade" \in q.seen => q.phase["patch"].state # "none"
    <3>1. "patch" \in Phases
      BY DEF Phases
    <3>2. CASE l.what = "patch_grade"
      BY <2>4, <2>8, <3>2
    <3>3. CASE l.what # "patch_grade"
      <4>1. "patch_grade" \in q.seen => "patch_grade" \in r.seen
        BY <2>1, <2>5, <3>3
      <4>2. "patch_grade" \in r.seen => r.phase["patch"].state # "none"
        BY DEF RunOK
      <4> QED BY <2>7, <3>1, <4>1, <4>2
    <3> QED BY <3>2, <3>3
  <2>12. q.seen \subseteq ToolNames \cup {"pov", "patch", "sarif"}
    BY <2>1, <2>5 DEF RunOK
  <2>13. RunOK(q)
    BY <2>1, <2>2, <2>9, <2>10, <2>11, <2>12 DEF RunOK
  <2>14. \A d \in Duties : Meets(l, d) => Met(q, d)
    BY <1>1, <2>1 DEF Meets, Met, IsCall
  <2>15. \A p \in Phases :
       /\ r.phase[p].state # "none" => q.phase[p].state # "none"
       /\ q.phase[p].by = "script" /\ q.phase[p].state = "open" =>
            \/ r.phase[p].by = "script" /\ r.phase[p].state = "open"
            \/ who = "script" /\ p \in Opens(l)
    BY <2>3, <2>7
  <2>16. Extends(q, r, l, who)
    <3>1. \A w \in q.waiting :
            w \in r.waiting \/ (w = who /\ l.kind = "event" /\ l.what = "finding_recorded")
      BY <1>1, <2>2
    <3> QED BY <2>1, <2>14, <2>15, <3>1 DEF Extends
  <2> QED BY <1>1, <2>2, <2>13, <2>16 DEF Handed
<1>2. CASE l.kind = "checkpoint"
  <2> DEFINE en == [state |-> IF l.ok THEN "handed over" ELSE "blocked", by |-> who]
  <2>1. /\ DOMAIN q = DOMAIN r
        /\ q.agents = r.agents \cup {l.of}
        /\ q.seen = r.seen /\ q.waiting = r.waiting
        /\ q.phase = [r.phase EXCEPT ![l.what] = en]
    <3>1. CheckpointLeaves(q, r, l, who)
      BY <1>2, CheckpointLogged
    <3> QED BY <3>1 DEF CheckpointLeaves
  <2>2. l.what \in Phases /\ l.of \in AgentNames
    BY <1>2 DEF LineOK
  <2>3. who = "script" => l.ok
    BY <1>2 DEF ScriptLineOK, IsCall
  <2>4. en \in [state : {"handed over", "blocked"}, by : {"script", "session"}]
    OBVIOUS
  <2>5. en.by = who /\ (l.ok => en.state = "handed over")
    OBVIOUS
  <2>6. en.by = "script" => en.state = "handed over"
    BY <2>3
  <2> HIDE DEF en
  <2>7. q.phase[l.what] = en
    BY <2>1, <2>2, EntryInPhases
  <2>8. \A p \in Phases : q.phase[p] = r.phase[p] \/ q.phase[p] = en
    BY <2>1, EntryInPhases
  <2>9. q.phase \in [Phases -> [state : {"none", "open", "handed over", "blocked"},
                             by : {"script", "session"}]]
    <3>1. r.phase \in [Phases -> [state : {"none", "open", "handed over", "blocked"},
                             by : {"script", "session"}]]
      BY DEF RunOK
    <3>2. en \in [state : {"none", "open", "handed over", "blocked"},
                  by : {"script", "session"}]
      BY <2>4
    <3> QED BY <2>1, <3>1, <3>2
  <2>10. \A p \in Phases : ByScriptOK(q.phase[p], p)
    BY <2>4, <2>6, <2>8, EntryInPhases DEF ByScriptOK
  <2>11. \A p \in Phases : r.phase[p].state # "none" => q.phase[p].state # "none"
    BY <2>4, <2>8
  <2>12. "patch_grade" \in q.seen => q.phase["patch"].state # "none"
    BY <2>1, <2>11 DEF RunOK, Phases
  <2>13. RunOK(q)
    BY <2>1, <2>2, <2>9, <2>10, <2>12 DEF RunOK
  <2>14. \A d \in Duties : Meets(l, d) => Met(q, d)
    BY <1>2, <2>1, <2>4, <2>7 DEF Meets, Met, IsCall
  <2>15. \A p \in Phases : q.phase[p].by = "script" /\ q.phase[p].state = "open" =>
            r.phase[p].by = "script" /\ r.phase[p].state = "open"
    BY <2>4, <2>8
  <2>16. Extends(q, r, l, who)
    BY <2>1, <2>11, <2>14, <2>15 DEF Extends
  <2> QED BY <1>2, <2>5, <2>7, <2>13, <2>16 DEF Handed
<1>3. CASE l.kind = "finding"
  <2>1. /\ DOMAIN q = DOMAIN r
        /\ q.agents = r.agents /\ q.seen = r.seen
        /\ q.waiting = r.waiting /\ q.phase = r.phase
    BY <1>3, FindingLogged
  <2>2. RunOK(q)
    BY <2>1 DEF RunOK
  <2>3. \A d \in Duties : ~ Meets(l, d)
    BY <1>3 DEF Meets, IsCall
  <2> QED BY <1>3, <2>1, <2>2, <2>3 DEF Extends, Handed
<1> QED BY <1>1, <1>2, <1>3 DEF LineOK

(* Scripts *)

LEMMA SeqIsLines ==
  ASSUME NEW X, NEW s \in Seq(X)
  PROVE  IsLines(s)
<1> DEFINE S == {s[i] : i \in DOMAIN s}
<1>1. Len(s) \in Nat /\ DOMAIN s = 1..Len(s) /\ s = [i \in 1..Len(s) |-> s[i]]
  OBVIOUS
<1>2. \A i \in 1..Len(s) : s[i] \in S
  BY <1>1
<1> HIDE DEF S
<1>3. s \in [1..Len(s) -> S]
  BY <1>1, <1>2
<1>4. s \in Seq(S)
  BY <1>1, <1>3
<1> QED BY <1>4 DEF IsLines, S

LEMMA TailLines ==
  ASSUME NEW s, IsLines(s), s # <<>>
  PROVE  /\ IsLines(Tail(s))
         /\ Len(s) \in Nat /\ Len(s) > 0 /\ DOMAIN s = 1..Len(s)
         /\ Len(Tail(s)) = Len(s) - 1 /\ DOMAIN Tail(s) = 1..(Len(s) - 1)
         /\ Head(s) = s[1]
         /\ \A i \in DOMAIN Tail(s) : Tail(s)[i] = s[i + 1]
<1> DEFINE S == {s[i] : i \in DOMAIN s}
<1>1. s \in Seq(S)
  BY DEF IsLines
<1> HIDE DEF S
<1>2. /\ Len(s) \in Nat /\ Len(s) > 0 /\ DOMAIN s = 1..Len(s)
      /\ Tail(s) \in Seq(S)
      /\ Len(Tail(s)) = Len(s) - 1 /\ DOMAIN Tail(s) = 1..(Len(s) - 1)
      /\ Head(s) = s[1]
      /\ \A i \in DOMAIN Tail(s) : Tail(s)[i] = s[i + 1]
  BY <1>1
<1>3. IsLines(Tail(s))
  BY <1>2, SeqIsLines
<1> QED BY <1>2, <1>3

LEMMA JoinedLines ==
  ASSUME NEW a, NEW b, IsLines(a), IsLines(b)
  PROVE  /\ IsLines(a \o b)
         /\ Len(a) \in Nat /\ Len(b) \in Nat
         /\ DOMAIN a = 1..Len(a) /\ DOMAIN b = 1..Len(b)
         /\ DOMAIN (a \o b) = 1..(Len(a) + Len(b)) /\ Len(a \o b) = Len(a) + Len(b)
         /\ \A i \in DOMAIN a : (a \o b)[i] = a[i]
         /\ \A i \in DOMAIN b : (a \o b)[Len(a) + i] = b[i]
<1> DEFINE A == {a[i] : i \in DOMAIN a}
           B == {b[i] : i \in DOMAIN b}
<1>1. a \in Seq(A) /\ b \in Seq(B)
  BY DEF IsLines
<1> HIDE DEF A, B
<1>2. a \in Seq(A \cup B) /\ b \in Seq(A \cup B)
  <2>1. Len(a) \in Nat /\ a \in [1..Len(a) -> A]
    BY <1>1
  <2>2. Len(b) \in Nat /\ b \in [1..Len(b) -> B]
    BY <1>1
  <2>3. a \in [1..Len(a) -> A \cup B]
    BY <2>1
  <2>4. b \in [1..Len(b) -> A \cup B]
    BY <2>2
  <2> QED BY <2>1, <2>2, <2>3, <2>4
<1>3. /\ a \o b \in Seq(A \cup B)
      /\ Len(a) \in Nat /\ Len(b) \in Nat
      /\ DOMAIN a = 1..Len(a) /\ DOMAIN b = 1..Len(b)
      /\ DOMAIN (a \o b) = 1..(Len(a) + Len(b)) /\ Len(a \o b) = Len(a) + Len(b)
      /\ \A i \in DOMAIN a : (a \o b)[i] = a[i]
      /\ \A i \in DOMAIN b : (a \o b)[Len(a) + i] = b[i]
  BY <1>2
<1>4. IsLines(a \o b)
  BY <1>3, SeqIsLines
<1> QED BY <1>3, <1>4

\* The rest of a script that is in order is in order.
LEMMA TailOrdered ==
  ASSUME NEW s, IsLines(s), s # <<>>, WellOrdered(s)
  PROVE  /\ WellOrdered(Tail(s))
         /\ \A d : Later(s, 1, d) => Ahead(Tail(s), d)
         /\ \A d : Ahead(s, d) => Meets(Head(s), d) \/ Ahead(Tail(s), d)
<1> DEFINE t == Tail(s)
<1>1. /\ IsLines(t)
      /\ Len(s) \in Nat /\ Len(s) > 0 /\ DOMAIN s = 1..Len(s)
      /\ Len(t) = Len(s) - 1 /\ DOMAIN t = 1..(Len(s) - 1)
      /\ Head(s) = s[1]
      /\ \A i \in DOMAIN t : t[i] = s[i + 1]
  BY TailLines
<1> HIDE DEF t
<1>2. \A k \in DOMAIN s : k > 1 => k - 1 \in DOMAIN t /\ s[k] = t[k - 1]
  BY <1>1
<1>3. ASSUME NEW i \in DOMAIN t, NEW d, Later(s, i + 1, d) PROVE Later(t, i, d)
  <2>1. PICK k \in DOMAIN s : k > i + 1 /\ Meets(s[k], d)
    BY <1>3 DEF Later
  <2>2. k - 1 \in DOMAIN t /\ s[k] = t[k - 1] /\ k - 1 > i
    BY <1>1, <1>2, <2>1
  <2> QED BY <2>1, <2>2 DEF Later
<1>4. ASSUME NEW i \in DOMAIN t
      PROVE  /\ ScriptLineOK(t[i])
             /\ Closes(t[i]) <=> i = Len(t)
             /\ \A p \in Opens(t[i]) : Later(t, i, <<"phase", p>>)
             /\ t[i].kind = "event" /\ t[i].what = "finding_recorded" => Later(t, i, Dedupe)
             /\ IsCall(t[i], "replay") => IsCall(t[Len(t)], "choose")
  <2>1. i + 1 \in DOMAIN s /\ t[i] = s[i + 1] /\ (i + 1 = Len(s) <=> i = Len(t))
    BY <1>1
  <2>2. t[Len(t)] = s[Len(s)]
    BY <1>1
  <2>3. /\ ScriptLineOK(t[i])
        /\ Closes(t[i]) <=> i = Len(t)
        /\ IsCall(t[i], "replay") => IsCall(t[Len(t)], "choose")
        /\ \A p \in Opens(t[i]) : Later(s, i + 1, <<"phase", p>>)
        /\ t[i].kind = "event" /\ t[i].what = "finding_recorded" => Later(s, i + 1, Dedupe)
    BY <2>1, <2>2 DEF WellOrdered
  <2> QED BY <1>3, <2>3
<1>5. WellOrdered(t)
  BY <1>4 DEF WellOrdered
<1>6. \A d : Later(s, 1, d) => Ahead(t, d)
  BY <1>2 DEF Later, Ahead
<1>7. \A d : Ahead(s, d) => Meets(Head(s), d) \/ Ahead(t, d)
  <2> SUFFICES ASSUME NEW d, Ahead(s, d) PROVE Meets(Head(s), d) \/ Ahead(t, d)
    OBVIOUS
  <2>1. PICK k \in DOMAIN s : Meets(s[k], d)
    BY DEF Ahead
  <2>2. k = 1 \/ k > 1
    BY <1>1
  <2> QED BY <1>1, <1>2, <2>1, <2>2 DEF Ahead
<1> QED BY <1>5, <1>6, <1>7 DEF t

\* Lines in front of a script that is in order.
InFront(a, b) ==
  \A i \in DOMAIN a :
    /\ ScriptLineOK(a[i])
    /\ ~ Closes(a[i])
    /\ \A p \in Opens(a[i]) : Later(a, i, <<"phase", p>>) \/ Ahead(b, <<"phase", p>>)
    /\ a[i].kind = "event" /\ a[i].what = "finding_recorded"
         => Later(a, i, Dedupe) \/ Ahead(b, Dedupe)
    /\ IsCall(a[i], "replay") => IsCall(b[Len(b)], "choose")

LEMMA JoinedOrdered ==
  ASSUME NEW a, NEW b, IsLines(a), IsLines(b), b # <<>>, WellOrdered(b), InFront(a, b)
  PROVE  /\ WellOrdered(a \o b)
         /\ IsLines(a \o b) /\ a \o b # <<>>
         /\ \A d : Ahead(a, d) \/ Ahead(b, d) => Ahead(a \o b, d)
         /\ (a \o b)[Len(a \o b)] = b[Len(b)]
<1> DEFINE s == a \o b
<1>1. /\ IsLines(s)
      /\ Len(a) \in Nat /\ Len(b) \in Nat
      /\ DOMAIN a = 1..Len(a) /\ DOMAIN b = 1..Len(b)
      /\ DOMAIN s = 1..(Len(a) + Len(b)) /\ Len(s) = Len(a) + Len(b)
      /\ \A i \in DOMAIN a : s[i] = a[i]
      /\ \A i \in DOMAIN b : s[Len(a) + i] = b[i]
  BY JoinedLines
<1>2. Len(b) > 0
  <2>1. b \in Seq({b[i] : i \in DOMAIN b})
    BY DEF IsLines
  <2> HIDE DEF s
  <2> QED BY <2>1
<1> HIDE DEF s
<1>3. s[Len(s)] = b[Len(b)]
  BY <1>1, <1>2
<1>4. \A d : Ahead(a, d) => Ahead(s, d)
  BY <1>1 DEF Ahead
<1>5. \A k \in DOMAIN b : Len(a) + k \in DOMAIN s /\ s[Len(a) + k] = b[k]
  BY <1>1
<1>6. \A d : Ahead(b, d) => Ahead(s, d)
  BY <1>5 DEF Ahead
<1>7. ASSUME NEW i \in DOMAIN a, NEW d, Later(a, i, d) \/ Ahead(b, d) PROVE Later(s, i, d)
  <2>1. CASE Later(a, i, d)
    BY <1>1, <2>1 DEF Later
  <2>2. CASE Ahead(b, d)
    <3>1. PICK k \in DOMAIN b : Meets(b[k], d)
      BY <2>2 DEF Ahead
    <3>2. Len(a) + k > i
      BY <1>1
    <3> QED BY <1>5, <3>1, <3>2 DEF Later
  <2> QED BY <1>7, <2>1, <2>2
<1>8. ASSUME NEW i \in DOMAIN b, NEW d, Later(b, i, d) PROVE Later(s, Len(a) + i, d)
  <2>1. PICK k \in DOMAIN b : k > i /\ Meets(b[k], d)
    BY <1>8 DEF Later
  <2>2. Len(a) + k > Len(a) + i
    BY <1>1, <2>1
  <2> QED BY <1>5, <2>1, <2>2 DEF Later
<1> DEFINE Good(i) ==
      /\ ScriptLineOK(s[i])
      /\ Closes(s[i]) <=> i = Len(s)
      /\ \A p \in Opens(s[i]) : Later(s, i, <<"phase", p>>)
      /\ s[i].kind = "event" /\ s[i].what = "finding_recorded" => Later(s, i, Dedupe)
      /\ IsCall(s[i], "replay") => IsCall(s[Len(s)], "choose")
<1>9. ASSUME NEW i \in DOMAIN a PROVE Good(i)
  <2>1. s[i] = a[i] /\ i # Len(s)
    BY <1>1, <1>2
  <2>2. /\ ScriptLineOK(a[i])
        /\ ~ Closes(a[i])
        /\ IsCall(a[i], "replay") => IsCall(b[Len(b)], "choose")
    BY DEF InFront
  <2>3. \A p \in Opens(a[i]) : Later(a, i, <<"phase", p>>) \/ Ahead(b, <<"phase", p>>)
    BY DEF InFront
  <2>4. a[i].kind = "event" /\ a[i].what = "finding_recorded"
         => Later(a, i, Dedupe) \/ Ahead(b, Dedupe)
    BY DEF InFront
  <2> QED BY <1>3, <1>7, <2>1, <2>2, <2>3, <2>4
<1>10. ASSUME NEW i \in DOMAIN b PROVE Good(Len(a) + i)
  <2>1. s[Len(a) + i] = b[i] /\ (Len(a) + i = Len(s) <=> i = Len(b))
    BY <1>1, <1>5
  <2>2. /\ ScriptLineOK(b[i])
        /\ Closes(b[i]) <=> i = Len(b)
        /\ \A p \in Opens(b[i]) : Later(b, i, <<"phase", p>>)
        /\ b[i].kind = "event" /\ b[i].what = "finding_recorded" => Later(b, i, Dedupe)
        /\ IsCall(b[i], "replay") => IsCall(b[Len(b)], "choose")
    BY DEF WellOrdered
  <2> QED BY <1>3, <1>8, <2>1, <2>2
<1>11. ASSUME NEW i \in DOMAIN s PROVE Good(i)
  <2>1. i \in DOMAIN a \/ (i - Len(a) \in DOMAIN b /\ i = Len(a) + (i - Len(a)))
    BY <1>1
  <2> HIDE DEF Good
  <2> QED BY <1>9, <1>10, <2>1
<1>12. WellOrdered(s)
  BY <1>11 DEF WellOrdered
<1>13. s # <<>>
  BY <1>1, <1>2
<1> QED BY <1>1, <1>3, <1>4, <1>6, <1>12, <1>13 DEF s

\* Lines that ask nothing of what follows, and lines that open a phase.
Plain(l) ==
  /\ ScriptLineOK(l) /\ ~ Closes(l) /\ ~ IsCall(l, "replay") /\ Opens(l) = {}
  /\ ~ (l.kind = "event" /\ l.what = "finding_recorded")

Opener(l, p) ==
  /\ ScriptLineOK(l) /\ ~ Closes(l) /\ ~ IsCall(l, "replay") /\ Opens(l) = {p}
  /\ ~ (l.kind = "event" /\ l.what = "finding_recorded")

HandsOver(l, p, g) ==
  Meets(l, <<"phase", p>>) /\ Meets(l, <<"agent", g>>) /\ Plain(l) /\ l.ok

IsLine(l, kind, what, of) == l.kind = kind /\ l.what = what /\ l.of = of /\ l.ok

LEMMA CallFields ==
  ASSUME NEW w, NEW of, NEW l, l = Call(w, of)
  PROVE  IsLine(l, "call", w, of)
BY DEF Call, IsLine

LEMMA EventFields ==
  ASSUME NEW w, NEW of, NEW l, l = EventOf(w, of)
  PROVE  IsLine(l, "event", w, of)
BY DEF EventOf, IsLine

LEMMA FindingFields ==
  ASSUME NEW of, NEW l, l = Finding(of, TRUE)
  PROVE  IsLine(l, "finding", "", of)
BY DEF Finding, IsLine

LEMMA CheckpointLine ==
  ASSUME NEW p \in Phases, NEW g \in AgentNames, NEW l, l = Checkpoint(p, g)
  PROVE  HandsOver(l, p, g)
BY DEF Checkpoint, HandsOver, Meets, IsCall, Plain, ScriptLineOK, LineOK, Closes, Opens

LEMMA EventLine ==
  ASSUME NEW w \in DOMAIN EventPhase \ {"patch_grade", "finding_recorded", "export_accepted"},
         NEW of, NEW l, l = EventOf(w, of), NEW p, p = EventPhase[w]
  PROVE  Opener(l, p) /\ Meets(l, <<"seen", w>>) /\ l.ok
<1>1. /\ l.kind = "event" /\ l.what = w /\ l.of = of /\ l.ok
  BY DEF EventOf
<1>2. Opens(l) = {p}
  BY <1>1 DEF Opens
<1>3. w \in ToolNames
  BY DEF ToolNames
<1> QED BY <1>1, <1>2, <1>3 DEF Opener, Meets, IsCall, ScriptLineOK, LineOK, Closes

LEMMA TupleOf2 ==
  ASSUME NEW x1, NEW x2
  PROVE  IsLines(<<x1, x2>>)
<1>1. <<x1, x2>> \in Seq({x1, x2})
  OBVIOUS
<1> QED BY <1>1, SeqIsLines

LEMMA TupleOf4 ==
  ASSUME NEW x1, NEW x2, NEW x3, NEW x4
  PROVE  IsLines(<<x1, x2, x3, x4>>)
<1>1. <<x1, x2, x3, x4>> \in Seq({x1, x2, x3, x4})
  OBVIOUS
<1> QED BY <1>1, SeqIsLines

LEMMA TupleOf8 ==
  ASSUME NEW x1, NEW x2, NEW x3, NEW x4, NEW x5, NEW x6, NEW x7, NEW x8
  PROVE  IsLines(<<x1, x2, x3, x4, x5, x6, x7, x8>>)
<1>1. <<x1, x2, x3, x4, x5, x6, x7, x8>> \in Seq({x1, x2, x3, x4, x5, x6, x7, x8})
  OBVIOUS
<1> QED BY <1>1, SeqIsLines

LEMMA TupleOf13 ==
  ASSUME NEW x1, NEW x2, NEW x3, NEW x4, NEW x5, NEW x6, NEW x7,
         NEW x8, NEW x9, NEW x10, NEW x11, NEW x12, NEW x13,
         NEW s, s = <<x1, x2, x3, x4, x5, x6, x7, x8, x9, x10, x11, x12, x13>>
  PROVE  /\ IsLines(s) /\ s # <<>> /\ Len(s) = 13
         /\ DOMAIN s = {1, 2, 3, 4, 5, 6, 7, 8, 9, 10, 11, 12, 13}
         /\ s[1] = x1 /\ s[2] = x2 /\ s[3] = x3 /\ s[4] = x4 /\ s[5] = x5 /\ s[6] = x6
         /\ s[7] = x7 /\ s[8] = x8 /\ s[9] = x9 /\ s[10] = x10 /\ s[11] = x11
         /\ s[12] = x12 /\ s[13] = x13
<1>1. s \in Seq({x1, x2, x3, x4, x5, x6, x7, x8, x9, x10, x11, x12, x13})
  OBVIOUS
<1>2. IsLines(s)
  BY <1>1, SeqIsLines
<1>3. Len(s) = 13 /\ DOMAIN s = 1..13
  OBVIOUS
<1>4. DOMAIN s = {1, 2, 3, 4, 5, 6, 7, 8, 9, 10, 11, 12, 13} /\ s # <<>>
  BY <1>3
<1>5. /\ s[1] = x1 /\ s[2] = x2 /\ s[3] = x3 /\ s[4] = x4 /\ s[5] = x5 /\ s[6] = x6
      /\ s[7] = x7 /\ s[8] = x8 /\ s[9] = x9 /\ s[10] = x10 /\ s[11] = x11
      /\ s[12] = x12 /\ s[13] = x13
  OBVIOUS
<1> QED BY <1>2, <1>3, <1>4, <1>5

FullOpening == Opening \o InputMaterial

LEMMA FullOpeningLines ==
  /\ IsLines(FullOpening) /\ DOMAIN FullOpening = 1..10 /\ FullOpening # <<>>
  /\ HandsOver(FullOpening[1], "readiness", "planner")
  /\ HandsOver(FullOpening[2], "scope", "harness-builder")
  /\ \A i \in {3, 4, 5} : Opener(FullOpening[i], "input-material") /\ FullOpening[i].ok
  /\ HandsOver(FullOpening[6], "input-material", "dictionary-generator")
  /\ HandsOver(FullOpening[7], "input-material", "grammar-reverser")
  /\ HandsOver(FullOpening[8], "input-material", "concolic-generator")
  /\ HandsOver(FullOpening[9], "input-material", "corpus-manager")
  /\ HandsOver(FullOpening[10], "input-material", "input-generator")
<1> DEFINE a == FullOpening
<1>1. IsLines(Opening) /\ IsLines(InputMaterial)
  BY TupleOf2, TupleOf8 DEF Opening, InputMaterial
<1>2. /\ Len(Opening) = 2 /\ DOMAIN Opening = {1, 2}
      /\ Opening[1] = Checkpoint("readiness", "planner")
      /\ Opening[2] = Checkpoint("scope", "harness-builder")
  BY DEF Opening
<1>3. /\ Len(InputMaterial) = 8 /\ DOMAIN InputMaterial = 1..8
      /\ InputMaterial[1] = EventOf("dictionary_generate", "")
      /\ InputMaterial[2] = EventOf("grammar_infer", "")
      /\ InputMaterial[3] = EventOf("concolic_plan", "")
      /\ InputMaterial[4] = Checkpoint("input-material", "dictionary-generator")
      /\ InputMaterial[5] = Checkpoint("input-material", "grammar-reverser")
      /\ InputMaterial[6] = Checkpoint("input-material", "concolic-generator")
      /\ InputMaterial[7] = Checkpoint("input-material", "corpus-manager")
      /\ InputMaterial[8] = Checkpoint("input-material", "input-generator")
  BY DEF InputMaterial, DictionaryGenerate, GrammarInfer, ConcolicPlan, ToolEvent
<1>4. /\ IsLines(a) /\ DOMAIN a = 1..(2 + 8)
      /\ \A i \in DOMAIN Opening : a[i] = Opening[i]
      /\ \A i \in DOMAIN InputMaterial : a[2 + i] = InputMaterial[i]
  <2>1. /\ IsLines(a) /\ DOMAIN a = 1..(Len(Opening) + Len(InputMaterial))
        /\ \A i \in DOMAIN Opening : a[i] = Opening[i]
        /\ \A i \in DOMAIN InputMaterial : a[Len(Opening) + i] = InputMaterial[i]
    BY <1>1, JoinedLines DEF FullOpening
  <2> QED BY <1>2, <1>3, <2>1
<1>5. a[1] = Opening[1] /\ a[2] = Opening[2] /\ \A i \in 1..8 : a[2 + i] = InputMaterial[i]
  BY <1>2, <1>3, <1>4
<1>6. a[3] = InputMaterial[1] /\ a[4] = InputMaterial[2] /\ a[5] = InputMaterial[3]
  <2>1. a[2 + 1] = InputMaterial[1] /\ a[2 + 2] = InputMaterial[2] /\ a[2 + 3] = InputMaterial[3]
    BY <1>5
  <2> QED BY <2>1
<1>7. /\ a[6] = InputMaterial[4] /\ a[7] = InputMaterial[5] /\ a[8] = InputMaterial[6]
      /\ a[9] = InputMaterial[7] /\ a[10] = InputMaterial[8]
  <2>1. /\ a[2 + 4] = InputMaterial[4] /\ a[2 + 5] = InputMaterial[5] /\ a[2 + 6] = InputMaterial[6]
        /\ a[2 + 7] = InputMaterial[7] /\ a[2 + 8] = InputMaterial[8]
    BY <1>5
  <2> QED BY <2>1
<1>8. DOMAIN a = 1..10 /\ a # <<>>
  BY <1>4
<1> HIDE DEF a
<1>9. /\ {"readiness", "scope", "input-material"} \subseteq Phases
      /\ {"planner", "harness-builder", "dictionary-generator", "grammar-reverser",
          "concolic-generator", "corpus-manager", "input-generator"} \subseteq AgentNames
  BY DEF Phases, AgentNames, DefaultAgents
<1>10. \A i \in {3, 4, 5} : Opener(a[i], "input-material") /\ a[i].ok
  <2>1. \A w \in {"dictionary_generate", "grammar_infer", "concolic_plan"} :
          /\ w \in DOMAIN EventPhase \ {"patch_grade", "finding_recorded", "export_accepted"}
          /\ EventPhase[w] = "input-material"
    BY DEF EventPhase
  <2>2. \A w \in {"dictionary_generate", "grammar_infer", "concolic_plan"} :
          Opener(EventOf(w, ""), "input-material") /\ EventOf(w, "").ok
    BY <2>1, EventLine
  <2> QED BY <1>3, <1>6, <2>2
<1>11. /\ HandsOver(a[1], "readiness", "planner")
      /\ HandsOver(a[2], "scope", "harness-builder")
      /\ HandsOver(a[6], "input-material", "dictionary-generator")
      /\ HandsOver(a[7], "input-material", "grammar-reverser")
      /\ HandsOver(a[8], "input-material", "concolic-generator")
      /\ HandsOver(a[9], "input-material", "corpus-manager")
      /\ HandsOver(a[10], "input-material", "input-generator")
  BY <1>2, <1>3, <1>5, <1>7, <1>9, CheckpointLine
<1> QED BY <1>4, <1>8, <1>10, <1>11 DEF a

Last4 ==
  <<ToolEvent("fidelity_replay_campaign"), Checkpoint("fuzzing", "fuzz-finder"),
    Checkpoint("fuzzing", "native-harness"), Call("choose", "")>>

Calls == [i \in DOMAIN Fixtures |-> Call("replay", Fixtures[i])]

LEMMA CallLine ==
  ASSUME NEW tool \in {"choose", "audit", "submit pov"}, NEW pov, NEW l, l = Call(tool, pov)
  PROVE  ScriptLineOK(l) /\ l.ok /\ l.kind = "call" /\ l.what = tool
BY DEF Call, ScriptLineOK, LineOK, IsCall

LEMMA Last4Lines ==
  /\ IsLines(Last4) /\ Len(Last4) = 4 /\ DOMAIN Last4 = 1..4 /\ Last4 # <<>>
  /\ Opener(Last4[1], "fuzzing") /\ Last4[1].ok
  /\ HandsOver(Last4[2], "fuzzing", "fuzz-finder")
  /\ HandsOver(Last4[3], "fuzzing", "native-harness")
  /\ ScriptLineOK(Last4[4]) /\ IsCall(Last4[4], "choose") /\ Last4[4].ok
<1> DEFINE a == Last4
<1>1. /\ DOMAIN a = 1..4 /\ a # <<>> /\ Len(a) = 4
      /\ a[1] = EventOf("fidelity_replay_campaign", "")
      /\ a[2] = Checkpoint("fuzzing", "fuzz-finder")
      /\ a[3] = Checkpoint("fuzzing", "native-harness")
      /\ a[4] = Call("choose", "")
  BY DEF Last4, ToolEvent
<1>2. IsLines(a)
  BY TupleOf4 DEF Last4
<1> HIDE DEF a
<1>3. "fuzzing" \in Phases /\ {"fuzz-finder", "native-harness"} \subseteq AgentNames
  BY DEF Phases, AgentNames, DefaultAgents
<1>4. HandsOver(a[2], "fuzzing", "fuzz-finder") /\ HandsOver(a[3], "fuzzing", "native-harness")
  BY <1>1, <1>3, CheckpointLine
<1>5. /\ "fidelity_replay_campaign" \in
            DOMAIN EventPhase \ {"patch_grade", "finding_recorded", "export_accepted"}
      /\ EventPhase["fidelity_replay_campaign"] = "fuzzing"
  BY DEF EventPhase
<1>6. Opener(a[1], "fuzzing") /\ a[1].ok
  BY <1>1, <1>5, EventLine
<1>7. ScriptLineOK(a[4]) /\ IsCall(a[4], "choose") /\ a[4].ok
  <2>1. ScriptLineOK(a[4]) /\ a[4].ok
    BY <1>1, CallLine
  <2>2. IsLine(a[4], "call", "choose", "")
    BY <1>1, CallFields
  <2> QED BY <2>1, <2>2 DEF IsLine, IsCall
<1> QED BY <1>1, <1>2, <1>4, <1>6, <1>7 DEF a

LEMMA AllTrue ==
  ASSUME NEW a, NEW b, IsLines(a), IsLines(b),
         \A i \in DOMAIN a : a[i].ok, \A i \in DOMAIN b : b[i].ok
  PROVE  \A i \in DOMAIN (a \o b) : (a \o b)[i].ok
<1>1. /\ Len(a) \in Nat /\ Len(b) \in Nat
      /\ DOMAIN a = 1..Len(a) /\ DOMAIN b = 1..Len(b)
      /\ DOMAIN (a \o b) = 1..(Len(a) + Len(b))
      /\ \A i \in DOMAIN a : (a \o b)[i] = a[i]
      /\ \A i \in DOMAIN b : (a \o b)[Len(a) + i] = b[i]
  BY JoinedLines
<1>2. ASSUME NEW i \in DOMAIN (a \o b) PROVE (a \o b)[i].ok
  <2>1. CASE i \in DOMAIN a
    BY <1>1, <2>1
  <2>2. CASE i \notin DOMAIN a
    <3>1. i - Len(a) \in DOMAIN b /\ i = Len(a) + (i - Len(a))
      BY <1>1, <2>2
    <3>2. (a \o b)[Len(a) + (i - Len(a))] = b[i - Len(a)]
      BY <1>1, <3>1
    <3> QED BY <3>1, <3>2
  <2> QED BY <2>1, <2>2
<1> QED BY <1>2

LEMMA CallsLines ==
  /\ IsLines(Calls) /\ DOMAIN Calls = DOMAIN Fixtures
  /\ \A i \in DOMAIN Calls :
       /\ ScriptLineOK(Calls[i]) /\ IsCall(Calls[i], "replay") /\ Calls[i].ok
<1>1. Len(Fixtures) \in Nat /\ DOMAIN Fixtures = 1..Len(Fixtures)
  BY CampaignAssumption
<1>2. DOMAIN Calls = DOMAIN Fixtures /\ \A i \in DOMAIN Calls : Calls[i] = Call("replay", Fixtures[i])
  BY DEF Calls
<1>3. Calls \in Seq({Call("replay", Fixtures[i]) : i \in DOMAIN Fixtures})
  BY <1>1 DEF Calls
<1>4. IsLines(Calls)
  BY <1>3, SeqIsLines
<1>5. ASSUME NEW i \in DOMAIN Calls
      PROVE  ScriptLineOK(Calls[i]) /\ IsCall(Calls[i], "replay") /\ Calls[i].ok
  <2>1. Calls[i] = Call("replay", Fixtures[i]) /\ DOMAIN Fixtures # {}
    BY <1>2
  <2> QED BY <2>1 DEF Call, ScriptLineOK, LineOK, IsCall
<1> QED BY <1>2, <1>4, <1>5

LEMMA Last4Ordered ==
  /\ WellOrdered(Last4)
  /\ \A d \in ClosingDuties \cup {<<"phase", "fuzzing">>, <<"agent", "fuzz-finder">>,
                                 <<"agent", "native-harness">>} : Ahead(Last4, d)
<1> DEFINE a == Last4
<1>1. /\ Len(a) = 4 /\ DOMAIN a = {1, 2, 3, 4}
      /\ Opener(a[1], "fuzzing")
      /\ HandsOver(a[2], "fuzzing", "fuzz-finder")
      /\ HandsOver(a[3], "fuzzing", "native-harness")
      /\ ScriptLineOK(a[4]) /\ IsCall(a[4], "choose")
  BY Last4Lines
<1> HIDE DEF a
<1>2. Closes(a[4]) /\ ~ IsCall(a[4], "replay") /\ a[4].kind = "call" /\ Opens(a[4]) = {}
  BY <1>1 DEF Closes, IsCall, Opens
<1>3. Later(a, 1, <<"phase", "fuzzing">>)
  BY <1>1 DEF Later, HandsOver
<1>4. WellOrdered(a)
  BY <1>1, <1>2, <1>3 DEF WellOrdered, Opener, HandsOver, Plain
<1>5. \A d \in ClosingDuties : Ahead(a, d)
  BY <1>1 DEF Ahead, Meets
<1>6. /\ Ahead(a, <<"phase", "fuzzing">>) /\ Ahead(a, <<"agent", "fuzz-finder">>)
      /\ Ahead(a, <<"agent", "native-harness">>)
  BY <1>1 DEF Ahead, HandsOver
<1> QED BY <1>4, <1>5, <1>6 DEF a

LEMMA ReplayOrdered ==
  /\ IsLines(Replay) /\ Replay # <<>> /\ WellOrdered(Replay)
  /\ IsCall(Replay[Len(Replay)], "choose")
  /\ \A d \in ClosingDuties \cup {<<"phase", "fuzzing">>, <<"agent", "fuzz-finder">>,
                                 <<"agent", "native-harness">>} : Ahead(Replay, d)
  /\ \A i \in DOMAIN Replay : Replay[i].ok
<1>1. Replay = Calls \o Last4
  BY DEF Replay, Calls, Last4
<1>2. InFront(Calls, Last4)
  <2>1. \A i \in DOMAIN Calls : ScriptLineOK(Calls[i]) /\ IsCall(Calls[i], "replay")
    BY CallsLines
  <2>2. IsCall(Last4[Len(Last4)], "choose")
    BY Last4Lines
  <2> QED BY <2>1, <2>2 DEF InFront, IsCall, Closes, Opens
<1>3. IsLines(Calls) /\ IsLines(Last4) /\ Last4 # <<>> /\ WellOrdered(Last4)
  BY CallsLines, Last4Lines, Last4Ordered
<1>4. /\ WellOrdered(Replay) /\ IsLines(Replay) /\ Replay # <<>>
      /\ \A d : Ahead(Calls, d) \/ Ahead(Last4, d) => Ahead(Replay, d)
      /\ Replay[Len(Replay)] = Last4[Len(Last4)]
  BY <1>1, <1>2, <1>3, JoinedOrdered
<1>5. IsCall(Last4[Len(Last4)], "choose")
  BY Last4Lines
<1>6. \A i \in DOMAIN Replay : Replay[i].ok
  <2>1. \A i \in DOMAIN Last4 : Last4[i].ok
    BY Last4Lines DEF HandsOver
  <2>2. \A i \in DOMAIN Calls : Calls[i].ok
    BY CallsLines
  <2> QED BY <1>1, <1>3, <2>1, <2>2, AllTrue
<1> QED BY <1>4, <1>5, <1>6, Last4Ordered

LEMMA FullScript ==
  ASSUME NEW s, s = Opening \o InputMaterial \o Replay
  PROVE  /\ IsLines(s) /\ s # <<>> /\ WellOrdered(s)
         /\ IsCall(s[Len(s)], "choose")
         /\ \A d \in Duties : Ahead(s, d)
         /\ \A i \in DOMAIN s : s[i].ok
<1> DEFINE a == FullOpening
<1>1. s = a \o Replay
  BY DEF FullOpening
<1>2. /\ IsLines(a) /\ DOMAIN a = 1..10 /\ a # <<>>
      /\ HandsOver(a[1], "readiness", "planner")
      /\ HandsOver(a[2], "scope", "harness-builder")
      /\ \A i \in {3, 4, 5} : Opener(a[i], "input-material") /\ a[i].ok
      /\ HandsOver(a[6], "input-material", "dictionary-generator")
      /\ HandsOver(a[7], "input-material", "grammar-reverser")
      /\ HandsOver(a[8], "input-material", "concolic-generator")
      /\ HandsOver(a[9], "input-material", "corpus-manager")
      /\ HandsOver(a[10], "input-material", "input-generator")
  BY FullOpeningLines
<1> HIDE DEF a
<1>3. \A i \in {3, 4, 5} : Later(a, i, <<"phase", "input-material">>)
  <2>1. 6 \in DOMAIN a /\ Meets(a[6], <<"phase", "input-material">>)
    BY <1>2 DEF HandsOver
  <2> QED BY <2>1 DEF Later
<1>4. \A i \in DOMAIN a : i \in {3, 4, 5} \/ (Plain(a[i]) /\ a[i].ok)
  <2>1. \A i \in {1, 2, 6, 7, 8, 9, 10} : Plain(a[i]) /\ a[i].ok
    BY <1>2 DEF HandsOver
  <2>2. \A i \in 1..10 : i \in {3, 4, 5} \/ i \in {1, 2, 6, 7, 8, 9, 10}
    OBVIOUS
  <2> QED BY <1>2, <2>1, <2>2
<1>5. InFront(a, Replay)
  <2> SUFFICES ASSUME NEW i \in DOMAIN a
               PROVE  /\ ScriptLineOK(a[i]) /\ ~ Closes(a[i]) /\ ~ IsCall(a[i], "replay")
                      /\ \A p \in Opens(a[i]) : Later(a, i, <<"phase", p>>)
                      /\ ~ (a[i].kind = "event" /\ a[i].what = "finding_recorded")
    BY DEF InFront
  <2>1. CASE i \in {3, 4, 5}
    BY <1>2, <1>3, <2>1 DEF Opener
  <2>2. CASE Plain(a[i])
    BY <2>2 DEF Plain
  <2> QED BY <1>4, <2>1, <2>2
<1>6. /\ WellOrdered(s) /\ IsLines(s) /\ s # <<>>
      /\ \A d : Ahead(a, d) \/ Ahead(Replay, d) => Ahead(s, d)
      /\ s[Len(s)] = Replay[Len(Replay)]
  BY <1>1, <1>2, <1>5, ReplayOrdered, JoinedOrdered
<1>7. IsCall(s[Len(s)], "choose")
  BY <1>6, ReplayOrdered
<1>8. /\ Ahead(a, <<"phase", "readiness">>) /\ Ahead(a, <<"agent", "planner">>)
      /\ Ahead(a, <<"phase", "scope">>) /\ Ahead(a, <<"agent", "harness-builder">>)
      /\ Ahead(a, <<"phase", "input-material">>) /\ Ahead(a, <<"agent", "dictionary-generator">>)
      /\ Ahead(a, <<"agent", "grammar-reverser">>) /\ Ahead(a, <<"agent", "concolic-generator">>)
      /\ Ahead(a, <<"agent", "corpus-manager">>) /\ Ahead(a, <<"agent", "input-generator">>)
  <2>1. {1, 2, 6, 7, 8, 9, 10} \subseteq DOMAIN a
    BY <1>2
  <2> QED BY <1>2, <2>1 DEF HandsOver, Ahead
<1>9. \A d \in Duties : Ahead(a, d) \/ Ahead(Replay, d)
  <2>1. \A d \in ClosingDuties \cup {<<"phase", "fuzzing">>, <<"agent", "fuzz-finder">>,
                                 <<"agent", "native-harness">>} : Ahead(Replay, d)
    BY ReplayOrdered
  <2>2. \A d \in FirstDuties : Ahead(a, d) \/ Ahead(Replay, d)
    BY <1>8, <2>1 DEF FirstDuties
  <2> QED BY <2>1, <2>2 DEF Duties
<1>10. \A i \in DOMAIN s : s[i].ok
  BY <1>1, <1>2, <1>4, ReplayOrdered, AllTrue
<1> QED BY <1>6, <1>7, <1>9, <1>10

LEMMA GiveUpOrdered ==
  /\ IsLines(GiveUp) /\ GiveUp # <<>> /\ WellOrdered(GiveUp)
  /\ Len(GiveUp) = 1 /\ DOMAIN GiveUp = {1} /\ ~ GiveUp[1].ok /\ IsCall(GiveUp[1], "audit")
<1> DEFINE l == [Call("audit", "") EXCEPT !.ok = FALSE]
<1>1. l.kind = "call" /\ l.what = "audit" /\ ~ l.ok
  BY DEF Call
<1>2. ScriptLineOK(l) /\ Closes(l) /\ ~ IsCall(l, "replay") /\ Opens(l) = {} /\ IsCall(l, "audit")
  BY <1>1 DEF ScriptLineOK, LineOK, Closes, IsCall, Opens
<1>3. GiveUp = <<l>>
  BY DEF GiveUp
<1> HIDE DEF l
<1>4. GiveUp \in Seq({l})
  BY <1>3
<1>5. Len(GiveUp) = 1 /\ DOMAIN GiveUp = {1} /\ GiveUp[1] = l /\ GiveUp # <<>>
  BY <1>3
<1>6. WellOrdered(GiveUp)
  BY <1>1, <1>2, <1>5 DEF WellOrdered
<1>7. IsLines(GiveUp)
  BY <1>4, SeqIsLines
<1> QED BY <1>1, <1>2, <1>5, <1>6, <1>7

LEMMA ShortScript ==
  ASSUME NEW s, s = Opening \o GiveUp
  PROVE  /\ IsLines(s) /\ s # <<>> /\ WellOrdered(s)
         /\ ~ s[Len(s)].ok /\ Len(s) \in DOMAIN s
<1>1. IsLines(Opening) /\ DOMAIN Opening = {1, 2}
  BY TupleOf2 DEF Opening
<1>2. Opening[1] = Checkpoint("readiness", "planner") /\ Opening[2] = Checkpoint("scope", "harness-builder")
  BY DEF Opening
<1>3. Plain(Opening[1]) /\ Plain(Opening[2])
  <2>1. /\ {"readiness", "scope"} \subseteq Phases
        /\ {"planner", "harness-builder"} \subseteq AgentNames
    BY DEF Phases, AgentNames, DefaultAgents
  <2> QED BY <1>2, <2>1, CheckpointLine DEF HandsOver
<1>4. InFront(Opening, GiveUp)
  BY <1>1, <1>3 DEF InFront, Plain
<1>5. /\ WellOrdered(s) /\ IsLines(s) /\ s # <<>>
      /\ s[Len(s)] = GiveUp[Len(GiveUp)]
  BY <1>1, <1>4, GiveUpOrdered, JoinedOrdered
<1>6. ~ s[Len(s)].ok
  BY <1>5, GiveUpOrdered
<1>7. Len(s) \in DOMAIN s
  BY <1>5, TailLines
<1> QED BY <1>5, <1>6, <1>7

LEMMA ClosingScript ==
  ASSUME NEW pov, NEW s, s = Closing(pov)
  PROVE  /\ IsLines(s) /\ s # <<>> /\ WellOrdered(s)
         /\ ~ IsCall(s[Len(s)], "choose")
         /\ \A d \in ClosingDuties : Ahead(s, d)
         /\ \A i \in DOMAIN s : s[i].ok
<1> DEFINE x1 == EventOf("finding_graded", pov)
           x2 == EventOf("pov_minimize", "")
           x3 == Checkpoint("grading", "crash-grader")
           x4 == EventOf("finding_dedupe", "")
           x5 == Checkpoint("dedupe", "dedupe-judge")
           x6 == EventOf("campaign_report", "")
           x7 == Checkpoint("report", "reporter")
           x8 == EventOf("export_bundle_created", "")
           x9 == Call("submit pov", pov)
           x10 == EventOf("export_accepted", "sarif")
           x11 == Checkpoint("export", "export-agent")
           x12 == Checkpoint("export", "artifact-manager")
           x13 == Call("audit", "")
<1>a. s = <<x1, x2, x3, x4, x5, x6, x7, x8, x9, x10, x11, x12, x13>>
  BY DEF Closing, FindingGrade, PovMinimize, FindingDedupe, CampaignReport,
         ExportBundleCreate, SubmitSarif, ToolEvent
<1> HIDE DEF x1, x2, x3, x4, x5, x6, x7, x8, x9, x10, x11, x12, x13
<1>b. /\ IsLines(s) /\ s # <<>> /\ Len(s) = 13
      /\ DOMAIN s = {1, 2, 3, 4, 5, 6, 7, 8, 9, 10, 11, 12, 13}
  BY <1>a, TupleOf13
<1>c. /\ s[1] = x1 /\ s[2] = x2 /\ s[3] = x3 /\ s[4] = x4 /\ s[5] = x5 /\ s[6] = x6
      /\ s[7] = x7 /\ s[8] = x8 /\ s[9] = x9 /\ s[10] = x10 /\ s[11] = x11
      /\ s[12] = x12 /\ s[13] = x13
  BY <1>a, TupleOf13
<1>1. /\ s[1] = EventOf("finding_graded", pov)
      /\ s[2] = EventOf("pov_minimize", "")
      /\ s[3] = Checkpoint("grading", "crash-grader")
      /\ s[4] = EventOf("finding_dedupe", "")
      /\ s[5] = Checkpoint("dedupe", "dedupe-judge")
      /\ s[6] = EventOf("campaign_report", "")
      /\ s[7] = Checkpoint("report", "reporter")
      /\ s[8] = EventOf("export_bundle_created", "")
      /\ s[11] = Checkpoint("export", "export-agent")
      /\ s[12] = Checkpoint("export", "artifact-manager")
  BY <1>c DEF x1, x2, x3, x4, x5, x6, x7, x8, x11, x12
<1>2. s[9] = Call("submit pov", pov) /\ s[10] = EventOf("export_accepted", "sarif") /\ s[13] = Call("audit", "")
  BY <1>c DEF x9, x10, x13
<1>3. /\ {"grading", "dedupe", "report", "export"} \subseteq Phases
      /\ {"crash-grader", "dedupe-judge", "reporter", "export-agent", "artifact-manager"}
           \subseteq AgentNames
  BY DEF Phases, AgentNames, DefaultAgents
<1>4. /\ HandsOver(s[3], "grading", "crash-grader")
      /\ HandsOver(s[5], "dedupe", "dedupe-judge")
      /\ HandsOver(s[7], "report", "reporter")
      /\ HandsOver(s[11], "export", "export-agent")
      /\ HandsOver(s[12], "export", "artifact-manager")
  BY <1>1, <1>3, CheckpointLine
<1> DEFINE Easy(w, p) ==
      /\ w \in DOMAIN EventPhase \ {"patch_grade", "finding_recorded", "export_accepted"}
      /\ EventPhase[w] = p
<1>5. /\ Easy("finding_graded", "grading") /\ Easy("pov_minimize", "grading")
      /\ Easy("finding_dedupe", "dedupe") /\ Easy("campaign_report", "report")
      /\ Easy("export_bundle_created", "export")
  BY DEF EventPhase
<1>6. /\ Opener(s[1], "grading") /\ s[1].ok
      /\ Opener(s[2], "grading") /\ s[2].ok
      /\ Opener(s[4], "dedupe") /\ s[4].ok /\ Meets(s[4], Dedupe)
      /\ Opener(s[6], "report") /\ s[6].ok /\ Meets(s[6], <<"seen", "campaign_report">>)
      /\ Opener(s[8], "export") /\ s[8].ok /\ Meets(s[8], <<"seen", "export_bundle_created">>)
  BY <1>1, <1>5, EventLine DEF Dedupe
<1>7. Opener(s[9], "export") /\ s[9].ok
  <2>1. s[9].kind = "call" /\ s[9].what = "submit pov" /\ s[9].ok
    <3>1. IsLine(s[9], "call", "submit pov", pov)
      BY <1>2, CallFields
    <3> QED BY <3>1 DEF IsLine
  <2>2. ScriptLineOK(s[9])
    BY <2>1 DEF ScriptLineOK, LineOK, IsCall
  <2>3. Opens(s[9]) = {"export"}
    BY <2>1 DEF Opens, IsCall
  <2> QED BY <2>1, <2>2, <2>3 DEF Opener, Closes, IsCall
<1>8. Opener(s[10], "export") /\ s[10].ok /\ Meets(s[10], <<"seen", "sarif">>)
  <2>1. s[10].kind = "event" /\ s[10].what = "export_accepted" /\ s[10].of = "sarif" /\ s[10].ok
    <3>1. IsLine(s[10], "event", "export_accepted", "sarif")
      BY <1>2, EventFields
    <3> QED BY <3>1 DEF IsLine
  <2>2. "export_accepted" \in DOMAIN EventPhase /\ EventPhase["export_accepted"] = "export"
    BY DEF EventPhase
  <2>3. Opens(s[10]) = {"export"}
    BY <2>1, <2>2 DEF Opens
  <2> QED BY <2>1, <2>2, <2>3 DEF Opener, ScriptLineOK, LineOK, Closes, IsCall, Meets, ToolNames
<1>9. /\ ScriptLineOK(s[13]) /\ Closes(s[13]) /\ s[13].ok /\ s[13].kind = "call"
      /\ ~ IsCall(s[13], "choose") /\ ~ IsCall(s[13], "replay") /\ Opens(s[13]) = {}
  <2>1. s[13].kind = "call" /\ s[13].what = "audit" /\ s[13].ok
    <3>1. IsLine(s[13], "call", "audit", "")
      BY <1>2, CallFields
    <3> QED BY <3>1 DEF IsLine
  <2> QED BY <2>1 DEF ScriptLineOK, LineOK, Closes, IsCall, Opens
<1> HIDE DEF Easy
<1>10. \A i \in DOMAIN s : i \in {1, 2, 3, 4, 5, 6, 7, 8, 9, 10, 11, 12, 13}
  BY <1>b
<1>11. {1, 2, 3, 4, 5, 6, 7, 8, 9, 10, 11, 12, 13} \subseteq DOMAIN s /\ Len(s) = 13
  BY <1>b
<1>12. \A i \in DOMAIN s : s[i].ok
  BY <1>4, <1>6, <1>7, <1>8, <1>9, <1>10 DEF HandsOver
<1>13. /\ \A i \in {1, 2} : Later(s, i, <<"phase", "grading">>)
       /\ Later(s, 4, <<"phase", "dedupe">>)
       /\ Later(s, 6, <<"phase", "report">>)
       /\ \A i \in {8, 9, 10} : Later(s, i, <<"phase", "export">>)
  BY <1>4, <1>11 DEF Later, HandsOver
<1> DEFINE Good(i) ==
      /\ ScriptLineOK(s[i])
      /\ Closes(s[i]) <=> i = Len(s)
      /\ \A p \in Opens(s[i]) : Later(s, i, <<"phase", p>>)
      /\ s[i].kind = "event" /\ s[i].what = "finding_recorded" => Later(s, i, Dedupe)
      /\ IsCall(s[i], "replay") => IsCall(s[Len(s)], "choose")
<1>14. \A i \in {3, 5, 7, 11, 12} : Good(i)
  <2>1. \A i \in {3, 5, 7, 11, 12} : Plain(s[i]) /\ i # Len(s)
    BY <1>4, <1>11 DEF HandsOver
  <2> QED BY <2>1 DEF Plain
<1>15. \A i \in {1, 2, 4, 6, 8, 9, 10} : Good(i)
  <2>1. ASSUME NEW i \in {1, 2, 4, 6, 8, 9, 10}
        PROVE  \E p : Opener(s[i], p) /\ Later(s, i, <<"phase", p>>) /\ i # Len(s)
    BY <1>6, <1>7, <1>8, <1>11, <1>13
  <2> QED BY <2>1 DEF Opener
<1>16. Good(13)
  BY <1>9, <1>11
<1>17. WellOrdered(s)
  <2> HIDE DEF Good
  <2>1. \A i \in DOMAIN s : Good(i)
    BY <1>10, <1>14, <1>15, <1>16
  <2> QED BY <2>1 DEF WellOrdered, Good
<1>18. \A d \in ClosingDuties : Ahead(s, d)
  <2>1. /\ Ahead(s, <<"agent", "crash-grader">>) /\ Ahead(s, <<"agent", "dedupe-judge">>)
        /\ Ahead(s, <<"agent", "reporter">>) /\ Ahead(s, <<"agent", "export-agent">>)
        /\ Ahead(s, <<"agent", "artifact-manager">>)
    BY <1>4, <1>11 DEF HandsOver, Ahead
  <2>2. /\ Ahead(s, <<"phase", "grading">>) /\ Ahead(s, <<"phase", "dedupe">>)
        /\ Ahead(s, <<"phase", "report">>) /\ Ahead(s, <<"phase", "export">>)
    BY <1>4, <1>11 DEF HandsOver, Ahead
  <2>3. /\ Ahead(s, <<"seen", "campaign_report">>) /\ Ahead(s, <<"seen", "sarif">>)
        /\ Ahead(s, <<"seen", "export_bundle_created">>) /\ Ahead(s, Dedupe)
    BY <1>6, <1>8, <1>11 DEF Ahead
  <2> QED BY <2>1, <2>2, <2>3 DEF ClosingDuties, Dedupe
<1> QED BY <1>b, <1>9, <1>11, <1>12, <1>17, <1>18

GoesBefore(s, t) ==
  /\ IsLines(s) /\ s # <<>> /\ WellOrdered(s)
  /\ \A d : Ahead(t, d) => Ahead(s, d)
  /\ s[Len(s)] = t[Len(t)]
  /\ (\A i \in DOMAIN t : t[i].ok) => \A i \in DOMAIN s : s[i].ok

\* A proof that is recorded in front of a script that will choose.
LEMMA RecordedInFront ==
  ASSUME NEW pov, NEW t, IsLines(t), t # <<>>, WellOrdered(t), IsCall(t[Len(t)], "choose"),
         NEW s, s = Recorded(pov) \o t
  PROVE  GoesBefore(s, t)
<1> DEFINE a == Recorded(pov)
<1>1. /\ DOMAIN a = {1, 2, 3, 4}
      /\ a[1] = EventOf("finding_classified", pov)
      /\ a[2] = EventOf("finding_verified", pov)
      /\ a[3] = Finding(pov, TRUE)
      /\ a[4] = EventOf("finding_recorded", pov)
  BY DEF Recorded
<1>2. IsLines(a)
  BY TupleOf4 DEF Recorded
<1> HIDE DEF a
<1>3. \A d \in ClosingDuties : Ahead(t, d)
  <2>1. Len(t) \in DOMAIN t
    BY TailLines
  <2> QED BY <2>1 DEF Ahead, Meets
<1>4. Opener(a[1], "dedupe") /\ a[1].ok
  <2>1. /\ "finding_classified" \in
              DOMAIN EventPhase \ {"patch_grade", "finding_recorded", "export_accepted"}
        /\ EventPhase["finding_classified"] = "dedupe"
    BY DEF EventPhase
  <2> QED BY <1>1, <2>1, EventLine
<1>5. Plain(a[2]) /\ a[2].ok
  <2>1. "finding_verified" \notin DOMAIN EventPhase
    BY DEF EventPhase
  <2> QED BY <1>1, <2>1 DEF EventOf, Plain, ScriptLineOK, LineOK, Closes, IsCall, Opens, ToolNames
<1>6. Plain(a[3]) /\ a[3].ok
  <2>1. a[3].kind = "finding" /\ a[3].ok
    <3>1. IsLine(a[3], "finding", "", pov)
      BY <1>1, FindingFields
    <3> QED BY <3>1 DEF IsLine
  <2> QED BY <2>1 DEF Plain, ScriptLineOK, LineOK, Closes, IsCall, Opens
<1>7. /\ ScriptLineOK(a[4]) /\ ~ Closes(a[4]) /\ ~ IsCall(a[4], "replay") /\ a[4].ok
      /\ Opens(a[4]) = {"grading"}
  <2>1. "finding_recorded" \in DOMAIN EventPhase /\ EventPhase["finding_recorded"] = "grading"
    BY DEF EventPhase
  <2>2. a[4].kind = "event" /\ a[4].what = "finding_recorded" /\ a[4].ok
    BY <1>1 DEF EventOf
  <2>3. Opens(a[4]) = {"grading"}
    BY <2>1, <2>2 DEF Opens
  <2> QED BY <2>1, <2>2, <2>3 DEF ScriptLineOK, LineOK, Closes, IsCall, ToolNames
<1>8. /\ Ahead(t, <<"phase", "dedupe">>) /\ Ahead(t, <<"phase", "grading">>) /\ Ahead(t, Dedupe)
  BY <1>3 DEF ClosingDuties, Dedupe
<1>9. InFront(a, t)
  <2> SUFFICES ASSUME NEW i \in DOMAIN a
               PROVE  /\ ScriptLineOK(a[i]) /\ ~ Closes(a[i]) /\ ~ IsCall(a[i], "replay")
                      /\ \A p \in Opens(a[i]) : Ahead(t, <<"phase", p>>)
    BY <1>8 DEF InFront
  <2>1. CASE i = 1
    BY <1>4, <1>8, <2>1 DEF Opener
  <2>2. CASE i \in {2, 3}
    BY <1>5, <1>6, <2>2 DEF Plain
  <2>3. CASE i = 4
    BY <1>7, <1>8, <2>3
  <2> QED BY <1>1, <2>1, <2>2, <2>3
<1>10. /\ WellOrdered(s) /\ IsLines(s) /\ s # <<>>
       /\ \A d : Ahead(a, d) \/ Ahead(t, d) => Ahead(s, d)
       /\ s[Len(s)] = t[Len(t)]
  BY <1>2, <1>9, JoinedOrdered DEF a
<1>11. ASSUME \A i \in DOMAIN t : t[i].ok PROVE \A i \in DOMAIN s : s[i].ok
  <2>1. \A i \in DOMAIN a : a[i].ok
    BY <1>1, <1>4, <1>5, <1>6, <1>7
  <2> QED BY <1>2, <1>11, <2>1, AllTrue DEF a
<1> QED BY <1>10, <1>11 DEF GoesBefore

(* The work of sessions *)

LEMMA EventLoggable ==
  ASSUME NEW w \in ToolNames, NEW of, w = "export_accepted" => of \in {"pov", "patch", "sarif"},
         NEW l, l = EventOf(w, of)
  PROVE  Loggable(l)
<1>1. IsLine(l, "event", w, of)
  BY EventFields
<1> QED BY <1>1 DEF IsLine, Loggable, LineOK

LEMMA CheckpointLoggable ==
  ASSUME NEW p \in Phases, NEW g \in AgentNames, NEW l, l = Checkpoint(p, g) \/ l = Blocked(p, g)
  PROVE  Loggable(l)
BY DEF Checkpoint, Blocked, Loggable, LineOK

LEMMA FindingLoggable ==
  ASSUME NEW p, NEW ok, NEW l, l = Finding(p, ok)
  PROVE  Loggable(l)
BY DEF Finding, Loggable, LineOK

LEMMA RecordedLoggable ==
  ASSUME NEW pov
  PROVE  LoggableLines(Recorded(pov))
<1> DEFINE a == Recorded(pov)
<1>1. /\ DOMAIN a = {1, 2, 3, 4}
      /\ a[1] = EventOf("finding_classified", pov)
      /\ a[2] = EventOf("finding_verified", pov)
      /\ a[3] = Finding(pov, TRUE)
      /\ a[4] = EventOf("finding_recorded", pov)
  BY DEF Recorded
<1>2. IsLines(a)
  BY TupleOf4 DEF Recorded
<1> HIDE DEF a
<1>3. {"finding_classified", "finding_verified", "finding_recorded"} \subseteq ToolNames
  BY DEF ToolNames, EventPhase
<1>4. Loggable(a[1]) /\ Loggable(a[2]) /\ Loggable(a[4])
  BY <1>1, <1>3, EventLoggable
<1>5. Loggable(a[3])
  BY <1>1, FindingLoggable
<1> QED BY <1>1, <1>2, <1>4, <1>5 DEF LoggableLines, a

LEMMA JoinedLoggable ==
  ASSUME NEW a, NEW b, LoggableLines(a), LoggableLines(b)
  PROVE  LoggableLines(a \o b)
<1>0. IsLines(a) /\ IsLines(b)
  BY DEF LoggableLines
<1>1. /\ IsLines(a \o b)
      /\ Len(a) \in Nat /\ Len(b) \in Nat
      /\ DOMAIN a = 1..Len(a) /\ DOMAIN b = 1..Len(b)
      /\ DOMAIN (a \o b) = 1..(Len(a) + Len(b))
      /\ \A i \in DOMAIN a : (a \o b)[i] = a[i]
      /\ \A i \in DOMAIN b : (a \o b)[Len(a) + i] = b[i]
  BY <1>0, JoinedLines
<1>2. ASSUME NEW i \in DOMAIN (a \o b) PROVE Loggable((a \o b)[i])
  <2>1. CASE i \in DOMAIN a
    BY <1>1, <2>1 DEF LoggableLines
  <2>2. CASE i \notin DOMAIN a
    <3>1. i - Len(a) \in DOMAIN b /\ i = Len(a) + (i - Len(a))
      BY <1>1, <2>2
    <3>2. (a \o b)[Len(a) + (i - Len(a))] = b[i - Len(a)]
      BY <1>1, <3>1
    <3> QED BY <3>1, <3>2 DEF LoggableLines
  <2> QED BY <2>1, <2>2
<1> QED BY <1>1, <1>2 DEF LoggableLines

LEMMA ShortLoggable ==
  /\ \A x : Loggable(x) => LoggableLines(<<x>>)
  /\ \A x, y : Loggable(x) /\ Loggable(y) => LoggableLines(<<x, y>>)
  /\ \A x, y, z : Loggable(x) /\ Loggable(y) /\ Loggable(z) => LoggableLines(<<x, y, z>>)
<1>1. ASSUME NEW x, Loggable(x) PROVE LoggableLines(<<x>>)
  <2>1. <<x>> \in Seq({x})
    OBVIOUS
  <2>2. IsLines(<<x>>)
    BY <2>1, SeqIsLines
  <2> QED BY <1>1, <2>2 DEF LoggableLines
<1>2. ASSUME NEW x, NEW y, Loggable(x), Loggable(y) PROVE LoggableLines(<<x, y>>)
  BY <1>2, TupleOf2 DEF LoggableLines
<1>3. ASSUME NEW x, NEW y, NEW z, Loggable(x), Loggable(y), Loggable(z)
      PROVE  LoggableLines(<<x, y, z>>)
  <2>1. <<x, y, z>> \in Seq({x, y, z})
    OBVIOUS
  <2>2. IsLines(<<x, y, z>>)
    BY <2>1, SeqIsLines
  <2> QED BY <1>3, <2>2 DEF LoggableLines
<1> QED BY <1>1, <1>2, <1>3

LEMMA WorkLoggable ==
  ASSUME NEW s \in Work
  PROVE  LoggableLines(s)
<1>1. /\ {"grading", "dedupe", "patch", "export"} \subseteq Phases
      /\ {"crash-grader", "dedupe-judge", "patcher", "patch-grader", "export-agent", "planner"}
           \subseteq AgentNames
  BY DEF Phases, AgentNames, DefaultAgents
<1>2. {"finding_recorded", "finding_dedupe", "campaign_report", "patch_grade", "export_accepted"}
        \subseteq ToolNames
  BY DEF ToolNames, EventPhase
<1>3. Loggable(FindingDedupe) /\ Loggable(CampaignReport) /\ Loggable(PatchGrade)
  BY <1>2, EventLoggable DEF FindingDedupe, CampaignReport, PatchGrade, ToolEvent
<1>4. Loggable(SubmitPatch)
  BY <1>2, EventLoggable DEF SubmitPatch
<1>5. \A p : Loggable(EventOf("finding_recorded", p)) /\ Loggable(Finding(p, FALSE))
  BY <1>2, EventLoggable, FindingLoggable
<1>6. /\ Loggable(Checkpoint("grading", "crash-grader"))
      /\ Loggable(Checkpoint("dedupe", "dedupe-judge"))
      /\ Loggable(Checkpoint("patch", "patcher")) /\ Loggable(Checkpoint("patch", "patch-grader"))
      /\ Loggable(Checkpoint("export", "export-agent"))
  BY <1>1, CheckpointLoggable
<1>7. ASSUME NEW p, s = Recorded(p) \o <<Checkpoint("grading", "crash-grader"), FindingDedupe,
                    Checkpoint("dedupe", "dedupe-judge")>>
      PROVE  LoggableLines(s)
  <2>1. LoggableLines(<<Checkpoint("grading", "crash-grader"), FindingDedupe,
                       Checkpoint("dedupe", "dedupe-judge")>>)
    BY <1>3, <1>6, ShortLoggable
  <2> QED BY <1>7, <2>1, RecordedLoggable, JoinedLoggable
<1>8. ASSUME NEW p, s = <<Finding(p, FALSE), EventOf("finding_recorded", p)>>
      PROVE  LoggableLines(s)
  BY <1>5, <1>8, ShortLoggable
<1>9. CASE s \in {<<FindingDedupe>>, <<CampaignReport>>}
  BY <1>3, <1>9, ShortLoggable
<1>10. CASE s = <<PatchGrade, Checkpoint("patch", "patcher"),
                  Checkpoint("patch", "patch-grader"), SubmitPatch,
                  Checkpoint("export", "export-agent")>>
  <2> DEFINE x1 == PatchGrade
             x2 == Checkpoint("patch", "patcher")
             x3 == Checkpoint("patch", "patch-grader")
             x4 == SubmitPatch
             x5 == Checkpoint("export", "export-agent")
  <2>1. s = <<x1, x2, x3, x4, x5>>
    BY <1>10
  <2>2. /\ Loggable(x1) /\ Loggable(x2) /\ Loggable(x3) /\ Loggable(x4) /\ Loggable(x5)
    BY <1>3, <1>4, <1>6
  <2> HIDE DEF x1, x2, x3, x4, x5
  <2>3. s \in Seq({x1, x2, x3, x4, x5})
    BY <2>1
  <2>4. IsLines(s)
    BY <2>3, SeqIsLines
  <2>5. \A i \in DOMAIN s : s[i] \in {x1, x2, x3, x4, x5}
    BY <2>3
  <2> QED BY <2>2, <2>4, <2>5 DEF LoggableLines
<1>11. ASSUME NEW p \in Halted, s = <<Blocked(p, "planner"), Checkpoint(p, "planner")>>
       PROVE  LoggableLines(s)
  <2>1. p \in Phases
    BY CampaignAssumption DEF Phases
  <2>2. Loggable(Blocked(p, "planner")) /\ Loggable(Checkpoint(p, "planner"))
    BY <1>1, <2>1, CheckpointLoggable
  <2> QED BY <1>11, <2>2, ShortLoggable
<1> QED BY <1>7, <1>8, <1>9, <1>10, <1>11 DEF Work

(* The way to the audit *)

LEMMA EntryFields ==
  ASSUME NEW state, NEW who, NEW e, e = [state |-> state, by |-> who]
  PROVE  e.state = state
OBVIOUS

LEMMA PhaseDuties ==
  ASSUME NEW d \in Duties, d[1] = "phase"
  PROVE  d[2] \in Phases
BY DEF Duties, FirstDuties, ClosingDuties, Phases

LEMMA StaysMet ==
  ASSUME NEW r, NEW q, NEW l, NEW who, Extends(q, r, l, who), NEW d \in Duties, Met(r, d)
  PROVE  Met(q, d)
<1>1. CASE d[1] = "agent" /\ d[2] \in r.agents
  BY <1>1 DEF Met, Extends
<1>2. CASE d[1] = "phase" /\ r.phase[d[2]].state # "none"
  BY <1>2, PhaseDuties DEF Met, Extends
<1>3. CASE d[1] = "seen" /\ d[2] \in r.seen
  BY <1>3 DEF Met, Extends
<1> QED BY <1>1, <1>2, <1>3 DEF Met

\* The script does what its line l stands for.
LEMMA WayOn ==
  ASSUME NEW r, NEW q, NEW s, NEW l, RunOK(r), IsLines(s), s # <<>>, WellOrdered(s),
         OnTheWay(r, s), ~ Closes(Head(s)), Loggable(l),
         Extends(q, r, l, "script"), Handed(q, l),
         Opens(l) \subseteq Opens(Head(s)),
         l.kind = "event" /\ l.what = "finding_recorded"
           => Head(s).kind = "event" /\ Head(s).what = "finding_recorded",
         \A d \in Duties : Meets(Head(s), d) => Meets(l, d)
  PROVE  OnTheWay(q, Tail(s))
<1> SUFFICES ASSUME Trying(Tail(s))
             PROVE  /\ \A d \in Duties : Met(q, d) \/ Ahead(Tail(s), d)
                    /\ \A p \in Phases : q.phase[p].by = "script" /\ q.phase[p].state = "open"
                         => Ahead(Tail(s), <<"phase", p>>)
                    /\ "script" \in q.waiting => Ahead(Tail(s), Dedupe)
  BY DEF OnTheWay
<1> DEFINE t == Tail(s)
           h == Head(s)
<1>1. /\ Len(s) \in Nat /\ Len(s) > 0 /\ DOMAIN s = 1..Len(s)
      /\ DOMAIN t = 1..(Len(s) - 1)
      /\ h = s[1]
      /\ \A i \in DOMAIN t : t[i] = s[i + 1]
  BY TailLines
<1>2. /\ \A d : Later(s, 1, d) => Ahead(t, d)
      /\ \A d : Ahead(s, d) => Meets(h, d) \/ Ahead(t, d)
  BY TailOrdered
<1> HIDE DEF t, h
<1>3. /\ ScriptLineOK(h)
      /\ \A p \in Opens(h) : Later(s, 1, <<"phase", p>>)
      /\ h.kind = "event" /\ h.what = "finding_recorded" => Later(s, 1, Dedupe)
  BY <1>1 DEF WellOrdered
<1>4. Trying(s)
  <2>1. h.ok
    BY <1>3 DEF ScriptLineOK, Closes, h
  <2>2. \A i \in DOMAIN t : t[i].ok
    BY DEF Trying, t
  <2>3. \A i \in DOMAIN s : i = 1 \/ (i - 1 \in DOMAIN t /\ s[i] = t[i - 1])
    BY <1>1
  <2> QED BY <1>1, <2>1, <2>2, <2>3 DEF Trying
<1>5. /\ \A d \in Duties : Met(r, d) \/ Ahead(s, d)
      /\ \A p \in Phases : r.phase[p].by = "script" /\ r.phase[p].state = "open"
           => Ahead(s, <<"phase", p>>)
      /\ "script" \in r.waiting => Ahead(s, Dedupe)
  BY <1>4 DEF OnTheWay
<1>6. \A d \in Duties : Meets(h, d) => Meets(l, d)
  BY DEF h
<1>7. ASSUME NEW d \in Duties PROVE Met(q, d) \/ Ahead(t, d)
  <2>1. Meets(l, d) => Met(q, d)
    BY DEF Extends
  <2> QED BY <1>2, <1>5, <1>6, <2>1, StaysMet
<1>8. ASSUME NEW p \in Phases, q.phase[p].by = "script", q.phase[p].state = "open"
      PROVE  Ahead(t, <<"phase", p>>)
  <2>1. CASE p \in Opens(l)
    BY <1>2, <1>3, <2>1 DEF h
  <2>2. CASE r.phase[p].by = "script" /\ r.phase[p].state = "open"
    <3>1. Ahead(s, <<"phase", p>>)
      BY <1>5, <2>2
    <3>2. <<"phase", p>> \in Duties
      BY <2>2, EntryInPhases DEF ByScriptOK
    <3>3. ASSUME Meets(h, <<"phase", p>>) PROVE FALSE
      <4>1. Meets(l, <<"phase", p>>)
        BY <1>6, <3>2, <3>3
      <4>2. l.kind = "checkpoint" /\ l.what = p /\ l.ok
        BY <4>1 DEF Meets, IsCall, Loggable
      <4>3. q.phase[p].state = "handed over"
        BY <4>2 DEF Handed
      <4> QED BY <1>8, <4>3
    <3> QED BY <1>2, <3>1, <3>3
  <2> QED BY <1>8, <2>1, <2>2 DEF Extends
<1>9. ASSUME "script" \in q.waiting PROVE Ahead(t, Dedupe)
  <2>1. CASE l.kind = "event" /\ l.what = "finding_recorded"
    BY <1>2, <1>3, <2>1 DEF h
  <2>2. CASE "script" \in r.waiting
    <3>1. Ahead(s, Dedupe)
      BY <1>5, <2>2
    <3>2. ASSUME Meets(h, Dedupe) PROVE FALSE
      <4>1. Meets(l, Dedupe)
        BY <1>6, <3>2 DEF Duties, ClosingDuties, Dedupe
      <4>2. l.kind = "event" /\ l.what = "finding_dedupe"
        BY <4>1 DEF Meets, Dedupe, IsCall, Loggable, LineOK
      <4> QED BY <1>9, <4>2 DEF Handed
    <3> QED BY <1>2, <3>1, <3>2
  <2> QED BY <1>9, <2>1, <2>2 DEF Extends
<1> QED BY <1>7, <1>8, <1>9 DEF t

\* A session gets in nobody's way.
LEMMA WayBeside ==
  ASSUME NEW r, NEW q, NEW s, NEW l, OnTheWay(r, s), Extends(q, r, l, "session")
  PROVE  OnTheWay(q, s)
<1> SUFFICES ASSUME Trying(s)
             PROVE  /\ \A d \in Duties : Met(q, d) \/ Ahead(s, d)
                    /\ \A p \in Phases : q.phase[p].by = "script" /\ q.phase[p].state = "open"
                         => Ahead(s, <<"phase", p>>)
                    /\ "script" \in q.waiting => Ahead(s, Dedupe)
  BY DEF OnTheWay
<1>1. /\ \A d \in Duties : Met(r, d) \/ Ahead(s, d)
      /\ \A p \in Phases : r.phase[p].by = "script" /\ r.phase[p].state = "open"
           => Ahead(s, <<"phase", p>>)
      /\ "script" \in r.waiting => Ahead(s, Dedupe)
  BY DEF OnTheWay
<1>2. \A d \in Duties : Met(q, d) \/ Ahead(s, d)
  BY <1>1, StaysMet
<1>3. \A p \in Phases : q.phase[p].by = "script" /\ q.phase[p].state = "open"
        => Ahead(s, <<"phase", p>>)
  BY <1>1 DEF Extends
<1>4. "script" \in q.waiting => Ahead(s, Dedupe)
  BY <1>1 DEF Extends
<1> QED BY <1>2, <1>3, <1>4

(* Steps *)

LEMMA EmptyOrdered == IsLines(<<>>) /\ WellOrdered(<<>>) /\ ~ Trying(<<>>)
<1>1. <<>> \in Seq({}) /\ DOMAIN <<>> = {}
  OBVIOUS
<1>2. IsLines(<<>>)
  BY <1>1, SeqIsLines
<1> QED BY <1>1, <1>2 DEF WellOrdered, Trying

LEMMA ScriptInitInv == ScriptInit => ScriptInv
<1> SUFFICES ASSUME ScriptInit PROVE ScriptInv
  OBVIOUS
<1>1. script = <<>> /\ session = <<>> /\ replayed = <<>>
  BY DEF ScriptInit
<1>2. RunOK(run)
  <2>1. /\ DOMAIN run = {"phase", "agents", "findings", "evidence", "waiting", "seen"}
        /\ run.phase = [p \in Phases |-> [state |-> "none", by |-> "script"]]
        /\ run.agents = {} /\ run.waiting = {} /\ run.seen = {}
    BY DEF ScriptInit, NewRun
  <2>2. ASSUME NEW p \in Phases PROVE ByScriptOK(run.phase[p], p)
    <3>1. run.phase[p].state = "none"
      BY <2>1, EntryFields
    <3> QED BY <3>1 DEF ByScriptOK
  <2>3. run.phase \in [Phases -> [state : {"none", "open", "handed over", "blocked"},
                             by : {"script", "session"}]]
    BY <2>1
  <2> QED BY <2>1, <2>2, <2>3 DEF RunOK
<1>3. LoggableLines(session)
  <2>1. DOMAIN session = {}
    BY <1>1
  <2> QED BY <1>1, <2>1, EmptyOrdered DEF LoggableLines
<1> QED BY <1>1, <1>2, <1>3, EmptyOrdered DEF ScriptInv, OnTheWay, ReplayedOK

\* A script that ends here.
LEMMA EndKeeps ==
  ASSUME ScriptInv, script' = <<>>, UNCHANGED <<run, replayed, session>>
  PROVE  ScriptInv'
<1>1. IsLines(script') /\ WellOrdered(script') /\ ~ Trying(script')
  BY EmptyOrdered
<1> QED BY <1>1 DEF ScriptInv, OnTheWay, ReplayedOK

LEMMA StartKeeps ==
  ASSUME ScriptInv, StartScript
  PROVE  ScriptInv'
<1>1. replayed' = <<>> /\ run' = run /\ session' = session
  BY DEF StartScript
<1>2. CASE script' = Opening \o GiveUp
  <2>1. /\ IsLines(script') /\ script' # <<>> /\ WellOrdered(script') /\ ~ Trying(script')
    BY <1>2, ShortScript DEF Trying
  <2> QED BY <1>1, <2>1 DEF ScriptInv, OnTheWay, ReplayedOK
<1>3. CASE script' = Opening \o InputMaterial \o Replay
  <2>1. /\ IsLines(script') /\ script' # <<>> /\ WellOrdered(script')
        /\ IsCall(script'[Len(script')], "choose")
        /\ \A d \in Duties : Ahead(script', d)
        /\ \A i \in DOMAIN script' : script'[i].ok
    BY <1>3, FullScript
  <2>2. Trying(script')
    BY <2>1 DEF Trying
  <2>3. \A p \in Phases : run.phase[p].by = "script" /\ run.phase[p].state = "open"
          => <<"phase", p>> \in Duties
    BY EntryInPhases DEF ScriptInv, ByScriptOK
  <2>4. Dedupe \in Duties
    BY DEF Duties, ClosingDuties, Dedupe
  <2>5. OnTheWay(run', script')
    BY <1>1, <2>1, <2>3, <2>4 DEF OnTheWay
  <2>6. ReplayedOK(script', replayed')
    BY <1>1, <2>1, <2>2 DEF ReplayedOK
  <2> QED BY <1>1, <2>1, <2>5, <2>6 DEF ScriptInv
<1> QED BY <1>2, <1>3 DEF StartScript

LEMMA HeadOf ==
  ASSUME NEW s, IsLines(s), s # <<>>, WellOrdered(s)
  PROVE  /\ Head(s) = s[1] /\ 1 \in DOMAIN s
         /\ ScriptLineOK(Head(s))
         /\ Closes(Head(s)) <=> Len(s) = 1
         /\ IsCall(Head(s), "replay") => IsCall(s[Len(s)], "choose")
<1>1. Head(s) = s[1] /\ 1 \in DOMAIN s
  BY TailLines
<1> QED BY <1>1 DEF WellOrdered

LEMMA TailGoesOn ==
  ASSUME NEW s, IsLines(s), s # <<>>, WellOrdered(s), ~ Closes(Head(s)),
         NEW verified, ReplayedOK(s, verified)
  PROVE  /\ Tail(s) # <<>> /\ Tail(s)[Len(Tail(s))] = s[Len(s)]
         /\ Trying(Tail(s)) <=> Trying(s)
         /\ ReplayedOK(Tail(s), verified)
<1> DEFINE t == Tail(s)
           h == Head(s)
<1>1. /\ Len(s) \in Nat /\ Len(s) > 0 /\ DOMAIN s = 1..Len(s)
      /\ Len(t) = Len(s) - 1 /\ DOMAIN t = 1..(Len(s) - 1)
      /\ h = s[1]
      /\ \A i \in DOMAIN t : t[i] = s[i + 1]
  BY TailLines
<1>2. ScriptLineOK(h) /\ (Closes(h) <=> Len(s) = 1)
  BY HeadOf
<1> HIDE DEF t, h
<1>3. Len(s) > 1 /\ t # <<>> /\ t[Len(t)] = s[Len(s)]
  BY <1>1, <1>2 DEF h
<1>4. h.ok
  BY <1>2 DEF ScriptLineOK, Closes, h
<1>5. \A i \in DOMAIN s : i = 1 \/ (i - 1 \in DOMAIN t /\ s[i] = t[i - 1])
  BY <1>1
<1>6. \A i \in DOMAIN t : i + 1 \in DOMAIN s /\ t[i] = s[i + 1]
  BY <1>1
<1>7. Trying(t) <=> Trying(s)
  BY <1>1, <1>3, <1>4, <1>5, <1>6 DEF Trying
<1>8. ReplayedOK(t, verified)
  BY <1>3, <1>7 DEF ReplayedOK
<1> QED BY <1>3, <1>7, <1>8 DEF t

\* A line of the script that does what the script says.
LEMMA LineKeeps ==
  ASSUME ScriptInv, script # <<>>, ~ Closes(Head(script)),
         NEW l, Loggable(l), ScriptLineOK(l),
         Opens(l) \subseteq Opens(Head(script)),
         l.kind = "event" /\ l.what = "finding_recorded"
           => Head(script).kind = "event" /\ Head(script).what = "finding_recorded",
         \A d \in Duties : Meets(Head(script), d) => Meets(l, d),
         run' = Logged(run, l, "script"), script' = Tail(script),
         UNCHANGED <<replayed, session>>
  PROVE  ScriptInv'
<1>1. /\ RunOK(run) /\ IsLines(script) /\ WellOrdered(script)
      /\ OnTheWay(run, script) /\ ReplayedOK(script, replayed)
      /\ LoggableLines(session)
  BY DEF ScriptInv
<1>2. LineOK(l) /\ l.kind # "call"
  BY DEF Loggable
<1>3. RunOK(run') /\ Extends(run', run, l, "script") /\ Handed(run', l)
  BY <1>1, <1>2, LineLogged
<1>4. OnTheWay(run', script')
  BY <1>1, <1>3, WayOn
<1>5. IsLines(script') /\ WellOrdered(script') /\ ReplayedOK(script', replayed')
  BY <1>1, TailLines, TailOrdered, TailGoesOn
<1>6. LoggableLines(session')
  BY <1>1
<1> QED BY <1>3, <1>4, <1>5, <1>6 DEF ScriptInv

LEMMA AppendLineKeeps ==
  ASSUME ScriptInv, AppendLine
  PROVE  ScriptInv'
<1> DEFINE h == Head(script)
<1>1. /\ script # <<>> /\ h.kind # "call" /\ run' = Logged(run, h, "script")
      /\ script' = Tail(script) /\ replayed' = replayed /\ session' = session
  BY DEF AppendLine
<1>2. ScriptLineOK(h)
  BY <1>1, HeadOf DEF ScriptInv
<1>3. ~ Closes(h) /\ Loggable(h)
  BY <1>1, <1>2 DEF Closes, IsCall, Loggable, ScriptLineOK
<1> QED BY <1>1, <1>2, <1>3, LineKeeps

LEMMA SubmitKeeps ==
  ASSUME ScriptInv, SubmitPov
  PROVE  ScriptInv'
<1> DEFINE h == Head(script)
<1>1. /\ script # <<>> /\ h.kind = "call" /\ h.what = "submit pov"
      /\ script' = Tail(script) /\ replayed' = replayed /\ session' = session
  BY DEF SubmitPov, Doing
<1>2. PICK l : /\ run' = Logged(run, l, "script")
               /\ l = EventOf("export_accepted", "pov") \/ l = ToolEvent("export_rejected")
  BY DEF SubmitPov
<1>3. /\ l.kind = "event" /\ l.what \in {"export_accepted", "export_rejected"} /\ l.ok
      /\ l.what = "export_accepted" => l.of = "pov"
  <2>1. CASE l = EventOf("export_accepted", "pov")
    BY <2>1, EventFields DEF IsLine
  <2>2. CASE l = EventOf("export_rejected", "")
    <3>1. IsLine(l, "event", "export_rejected", "")
      BY <2>2, EventFields
    <3> QED BY <3>1 DEF IsLine
  <2>3. l = EventOf("export_accepted", "pov") \/ l = EventOf("export_rejected", "")
    BY <1>2 DEF ToolEvent
  <2> QED BY <2>1, <2>2, <2>3
<1>4. /\ {"export_accepted", "export_rejected"} \subseteq DOMAIN EventPhase
      /\ EventPhase["export_accepted"] = "export" /\ EventPhase["export_rejected"] = "export"
  BY DEF EventPhase
<1>5. Opens(l) = {"export"} /\ Opens(h) = {"export"}
  BY <1>1, <1>3, <1>4 DEF Opens, IsCall
<1>6. ScriptLineOK(l) /\ Loggable(l)
  BY <1>3, <1>4 DEF ScriptLineOK, LineOK, Loggable, ToolNames, IsCall
<1>7. ~ Closes(h) /\ \A d \in Duties : ~ Meets(h, d)
  BY <1>1 DEF Closes, IsCall, Meets
<1> HIDE DEF h
<1>8. l.what # "finding_recorded"
  BY <1>3
<1> QED BY <1>1, <1>2, <1>5, <1>6, <1>7, <1>8, LineKeeps DEF h

LEMMA ReplayKeeps ==
  ASSUME ScriptInv, ReplayProof
  PROVE  ScriptInv'
<1> DEFINE h == Head(script)
           t == Tail(script)
<1>1. /\ script # <<>> /\ h.kind = "call" /\ h.what = "replay"
      /\ run' = run /\ session' = session
  BY DEF ReplayProof, Doing
<1>2. \/ script' = Recorded(h.of) \o t /\ replayed' = Append(replayed, h.of)
      \/ script' = t /\ replayed' = replayed
  BY DEF ReplayProof
<1>3. /\ RunOK(run) /\ IsLines(script) /\ WellOrdered(script)
      /\ OnTheWay(run, script) /\ ReplayedOK(script, replayed)
      /\ LoggableLines(session)
  BY DEF ScriptInv
<1>4. ~ Closes(h) /\ \A d \in Duties : ~ Meets(h, d)
  BY <1>1 DEF Closes, IsCall, Meets
<1>5. /\ DOMAIN Fixtures # {} /\ IsCall(script[Len(script)], "choose")
  BY <1>1, <1>3, HeadOf DEF ScriptLineOK, IsCall
<1>6. /\ IsLines(t) /\ WellOrdered(t) /\ t # <<>>
      /\ t[Len(t)] = script[Len(script)]
      /\ Trying(t) <=> Trying(script)
      /\ ReplayedOK(t, replayed)
      /\ \A d : Ahead(script, d) => Meets(h, d) \/ Ahead(t, d)
  BY <1>1, <1>3, <1>4, TailLines, TailOrdered, TailGoesOn
<1> HIDE DEF h, t
<1>7. OnTheWay(run, t)
  <2> SUFFICES ASSUME Trying(t)
               PROVE  /\ \A d \in Duties : Met(run, d) \/ Ahead(t, d)
                      /\ \A p \in Phases : run.phase[p].by = "script" /\ run.phase[p].state = "open"
                           => Ahead(t, <<"phase", p>>)
                      /\ "script" \in run.waiting => Ahead(t, Dedupe)
    BY DEF OnTheWay
  <2>1. /\ \A d \in Duties : Met(run, d) \/ Ahead(script, d)
        /\ \A p \in Phases : run.phase[p].by = "script" /\ run.phase[p].state = "open"
             => Ahead(script, <<"phase", p>>)
        /\ "script" \in run.waiting => Ahead(script, Dedupe)
    BY <1>3, <1>6 DEF OnTheWay
  <2>2. \A d \in Duties : Ahead(script, d) => Ahead(t, d)
    BY <1>4, <1>6
  <2>3. \A p \in Phases : run.phase[p].by = "script" /\ run.phase[p].state = "open"
          => <<"phase", p>> \in Duties
    BY <1>3, EntryInPhases DEF ByScriptOK
  <2>4. Dedupe \in Duties
    BY DEF Duties, ClosingDuties, Dedupe
  <2> QED BY <2>1, <2>2, <2>3, <2>4
<1>8. CASE script' = t /\ replayed' = replayed
  BY <1>1, <1>3, <1>6, <1>7, <1>8 DEF ScriptInv
<1>9. CASE script' = Recorded(h.of) \o t /\ replayed' = Append(replayed, h.of)
  <2>1. IsCall(t[Len(t)], "choose")
    BY <1>5, <1>6
  <2>2. /\ IsLines(script') /\ script' # <<>> /\ WellOrdered(script')
        /\ \A d : Ahead(t, d) => Ahead(script', d)
        /\ script'[Len(script')] = t[Len(t)]
        /\ (\A i \in DOMAIN t : t[i].ok) => \A i \in DOMAIN script' : script'[i].ok
    <3>1. GoesBefore(script', t)
      BY <1>6, <1>9, <2>1, RecordedInFront
    <3> QED BY <3>1 DEF GoesBefore
  <2>3. Trying(t)
    \* the last line is a choice, so no line is the end of a script that gives up
    <3> SUFFICES ASSUME NEW i \in DOMAIN t, ~ t[i].ok PROVE FALSE
      BY <1>6 DEF Trying
    <3>1. ScriptLineOK(t[i]) /\ (Closes(t[i]) <=> i = Len(t))
      BY <1>6 DEF WellOrdered
    <3>2. IsCall(t[i], "audit")
      BY <3>1 DEF ScriptLineOK
    <3> QED BY <2>1, <3>1, <3>2 DEF Closes, IsCall
  <2>4. Trying(script')
    BY <2>2, <2>3 DEF Trying
  <2>5. OnTheWay(run', script')
    BY <1>1, <1>7, <2>2, <2>3 DEF OnTheWay
  <2>6. ReplayedOK(script', replayed')
    BY <1>5, <2>1, <2>2, <2>4 DEF ReplayedOK
  <2> QED BY <1>1, <1>3, <2>2, <2>5, <2>6 DEF ScriptInv
<1> QED BY <1>2, <1>8, <1>9 DEF t

LEMMA ChooseKeeps ==
  ASSUME ScriptInv, Choose
  PROVE  ScriptInv'
<1> DEFINE h == Head(script)
<1>1. /\ script # <<>> /\ h.kind = "call" /\ h.what = "choose"
      /\ run' = run /\ session' = session /\ replayed' = replayed
  BY DEF Choose, Doing
<1>2. /\ RunOK(run) /\ IsLines(script) /\ WellOrdered(script)
      /\ OnTheWay(run, script) /\ ReplayedOK(script, replayed)
      /\ LoggableLines(session)
  BY DEF ScriptInv
<1>3. script' = IF replayed = <<>> THEN GiveUp ELSE Closing(Head(replayed))
  BY DEF Choose
<1>4. /\ h = script[1] /\ ScriptLineOK(h) /\ (Closes(h) <=> Len(script) = 1)
  BY <1>1, <1>2, HeadOf
<1>5. Len(script) = 1 /\ DOMAIN script = {1}
  <2>1. Closes(h)
    BY <1>1 DEF Closes, IsCall
  <2>2. DOMAIN script = 1..Len(script)
    BY <1>1, <1>2, TailLines
  <2> QED BY <1>4, <2>1, <2>2
<1> HIDE DEF h
<1>6. Trying(script)
  <2>1. h.ok
    BY <1>1, <1>4 DEF ScriptLineOK, IsCall
  <2> QED BY <1>1, <1>4, <1>5, <2>1 DEF Trying
<1>7. \A d : Ahead(script, d) => d \in ClosingDuties
  BY <1>1, <1>4, <1>5 DEF Ahead, Meets, IsCall
<1>8. CASE replayed = <<>>
  <2>1. IsLines(script') /\ script' # <<>> /\ WellOrdered(script') /\ ~ Trying(script')
    BY <1>3, <1>8, GiveUpOrdered DEF Trying
  <2> QED BY <1>1, <1>2, <1>8, <2>1 DEF ScriptInv, OnTheWay, ReplayedOK
<1>9. CASE replayed # <<>>
  <2>1. /\ IsLines(script') /\ script' # <<>> /\ WellOrdered(script')
        /\ \A d \in ClosingDuties : Ahead(script', d)
        /\ \A i \in DOMAIN script' : script'[i].ok
    BY <1>3, <1>9, ClosingScript
  <2>2. Trying(script')
    BY <2>1 DEF Trying
  <2>3. /\ \A d \in Duties : Met(run, d) \/ Ahead(script, d)
        /\ \A p \in Phases : run.phase[p].by = "script" /\ run.phase[p].state = "open"
             => Ahead(script, <<"phase", p>>)
        /\ "script" \in run.waiting => Ahead(script, Dedupe)
    BY <1>2, <1>6 DEF OnTheWay
  <2>4. OnTheWay(run', script')
    BY <1>1, <1>7, <2>1, <2>3 DEF OnTheWay
  <2>5. ReplayedOK(script', replayed')
    BY <1>1, <1>2, <1>9, <2>2 DEF ReplayedOK
  <2> QED BY <1>1, <1>2, <2>1, <2>4, <2>5 DEF ScriptInv
<1> QED BY <1>8, <1>9

LEMMA SessionStartsKeeps ==
  ASSUME ScriptInv, SessionStarts
  PROVE  ScriptInv'
<1>1. /\ session' \in Work /\ run' = run /\ script' = script /\ replayed' = replayed
  BY DEF SessionStarts
<1>2. LoggableLines(session')
  BY <1>1, WorkLoggable
<1> QED BY <1>1, <1>2 DEF ScriptInv

LEMMA SessionAppendsKeeps ==
  ASSUME ScriptInv, SessionAppends
  PROVE  ScriptInv'
<1> DEFINE h == Head(session)
           t == Tail(session)
<1>1. /\ session # <<>> /\ run' = Logged(run, h, "session") /\ session' \in {t, <<>>}
      /\ script' = script /\ replayed' = replayed
  BY DEF SessionAppends
<1>2. /\ RunOK(run) /\ IsLines(script) /\ WellOrdered(script)
      /\ OnTheWay(run, script) /\ ReplayedOK(script, replayed)
      /\ IsLines(session) /\ \A i \in DOMAIN session : Loggable(session[i])
  BY DEF ScriptInv, LoggableLines
<1>3. /\ IsLines(t) /\ Len(session) \in Nat /\ Len(session) > 0
      /\ DOMAIN session = 1..Len(session)
      /\ DOMAIN t = 1..(Len(session) - 1) /\ h = session[1]
      /\ \A i \in DOMAIN t : t[i] = session[i + 1]
  BY <1>1, <1>2, TailLines
<1>4. Loggable(h)
  BY <1>2, <1>3
<1>5. LoggableLines(t)
  <2>1. \A i \in DOMAIN t : i + 1 \in DOMAIN session /\ t[i] = session[i + 1]
    BY <1>3
  <2> QED BY <1>2, <1>3, <2>1 DEF LoggableLines
<1>6. LoggableLines(<<>>)
  <2>1. DOMAIN <<>> = {}
    OBVIOUS
  <2> QED BY <2>1, EmptyOrdered DEF LoggableLines
<1> HIDE DEF h, t
<1>7. LineOK(h) /\ h.kind # "call"
  BY <1>4 DEF Loggable
<1>8. RunOK(run') /\ Extends(run', run, h, "session")
  BY <1>1, <1>2, <1>7, LineLogged
<1>9. OnTheWay(run', script')
  BY <1>1, <1>2, <1>8, WayBeside
<1>10. LoggableLines(session')
  BY <1>1, <1>5, <1>6
<1> QED BY <1>1, <1>2, <1>8, <1>9, <1>10 DEF ScriptInv

LEMMA ScriptStep == ScriptInv /\ [ScriptNext]_scriptVars => ScriptInv'
<1> SUFFICES ASSUME ScriptInv, [ScriptNext]_scriptVars PROVE ScriptInv'
  OBVIOUS
<1>1. CASE Audit \/ ScriptDies
  <2>1. script' = <<>> /\ UNCHANGED <<run, replayed, session>>
    BY <1>1 DEF Audit, ScriptDies
  <2> QED BY <2>1, EndKeeps
<1>2. CASE UNCHANGED scriptVars
  BY <1>2 DEF scriptVars, ScriptInv
<1> QED BY <1>1, <1>2, StartKeeps, AppendLineKeeps, ReplayKeeps, ChooseKeeps, SubmitKeeps,
           SessionStartsKeeps, SessionAppendsKeeps DEF ScriptNext

(* The audit *)

\* At the audit nothing is left to do.
LEMMA NothingAhead ==
  ASSUME ScriptInv, Audit
  PROVE  /\ Head(script).ok <=> Trying(script)
         /\ ~ IsCall(script[Len(script)], "choose")
         /\ \A d : ~ Ahead(script, d)
<1> DEFINE h == Head(script)
<1>1. script # <<>> /\ h.kind = "call" /\ h.what = "audit"
  BY DEF Audit, Doing
<1>2. IsLines(script) /\ WellOrdered(script)
  BY DEF ScriptInv
<1>3. h = script[1] /\ (Closes(h) <=> Len(script) = 1)
  BY <1>1, <1>2, HeadOf
<1>4. Len(script) = 1 /\ DOMAIN script = {1}
  <2>1. Closes(h)
    BY <1>1 DEF Closes, IsCall
  <2>2. DOMAIN script = 1..Len(script)
    BY <1>1, <1>2, TailLines
  <2> QED BY <1>3, <2>1, <2>2
<1> HIDE DEF h
<1>5. h.ok <=> Trying(script)
  BY <1>1, <1>3, <1>4 DEF Trying
<1>6. ~ IsCall(script[Len(script)], "choose")
  BY <1>1, <1>3, <1>4 DEF IsCall
<1>7. \A d : ~ Ahead(script, d)
  BY <1>1, <1>3, <1>4 DEF Ahead, Meets, IsCall
<1> QED BY <1>5, <1>6, <1>7 DEF h

LEMMA ClosedIsEarned ==
  ASSUME ScriptInv, Audit, result' = "ok"
  PROVE  Earned
<1>1. Complete /\ Head(script).ok
  BY DEF Audit
<1>2. replayed # <<>> /\ DOMAIN Fixtures # {}
  BY <1>1, NothingAhead DEF ScriptInv, ReplayedOK
<1>3. Represented /\ run.findings # {}
  BY <1>1, <1>2 DEF Complete, Represented
<1>4. "pov" \in run.seen
  BY <1>1, <1>3 DEF Complete, ExportGate
<1> QED BY <1>2, <1>3, <1>4 DEF Earned

LEMMA EarnedIsClosed ==
  ASSUME ScriptInv, Audit, result' = "blocked", Earned
  PROVE  Obstructed
<1> SUFFICES ASSUME ~ Obstructed PROVE FALSE
  OBVIOUS
<1>1. script # <<>>
  BY DEF Audit, Doing
<1>2. Trying(script)
  BY <1>1 DEF Earned, ScriptInv, ReplayedOK
<1>3. Head(script).ok
  BY <1>2, NothingAhead
<1>4. ~ Complete
  BY <1>3 DEF Audit
<1>5. \A d : ~ Ahead(script, d)
  BY NothingAhead
<1>6. /\ \A d \in Duties : Met(run, d)
      /\ \A p \in Phases : ~ (run.phase[p].by = "script" /\ run.phase[p].state = "open")
      /\ "script" \notin run.waiting
  BY <1>2, <1>5 DEF ScriptInv, OnTheWay
<1>7. /\ \A f \in run.findings : f.sound
      /\ "session" \notin run.waiting
      /\ \A p \in Phases : run.phase[p].by = "session" => run.phase[p].state = "handed over"
      /\ PatchWork => {"patch", "patcher", "patch-grader"} \subseteq run.seen \cup run.agents
  BY DEF Obstructed
<1>8. RunOK(run)
  BY DEF ScriptInv
<1>9. PhaseGate
  <2>1. ASSUME NEW p \in Phases PROVE run.phase[p].state \in {"none", "handed over"}
    <3>1. /\ run.phase[p] \in [state : {"none", "open", "handed over", "blocked"},
                             by : {"script", "session"}]
          /\ ByScriptOK(run.phase[p], p)
      BY <1>8, EntryInPhases
    <3>2. CASE run.phase[p].by = "script"
      BY <1>6, <3>1, <3>2 DEF ByScriptOK
    <3>3. CASE run.phase[p].by = "session"
      BY <1>7, <3>3
    <3> QED BY <3>1, <3>2, <3>3
  <2>2. ASSUME NEW p \in DefaultPhases \cup {"export"} PROVE run.phase[p].state # "none"
    <3>1. <<"phase", p>> \in Duties
      BY DEF DefaultPhases, Duties, FirstDuties, ClosingDuties
    <3>2. Met(run, <<"phase", p>>)
      BY <1>6, <3>1
    <3> QED BY <3>2 DEF Met
  <2> QED BY <2>1, <2>2 DEF PhaseGate
<1>10. {"campaign_report", "sarif", "export_bundle_created", "finding_dedupe"} \subseteq run.seen
  <2>1. ASSUME NEW w \in {"campaign_report", "sarif", "export_bundle_created", "finding_dedupe"}
        PROVE  w \in run.seen
    <3>1. <<"seen", w>> \in Duties
      BY DEF Duties, ClosingDuties
    <3>2. Met(run, <<"seen", w>>)
      BY <1>6, <3>1
    <3> QED BY <3>2 DEF Met
  <2> QED BY <2>1
<1>11. LifecycleGate
  <2>1. run.waiting = {}
    BY <1>6, <1>7, <1>8 DEF RunOK
  <2> QED BY <1>7, <1>10, <2>1 DEF LifecycleGate
<1>12. {"patch", "patcher", "patch-grader"} \cap AgentNames = {"patcher", "patch-grader"}
  BY DEF AgentNames, DefaultAgents
<1>13. {"patcher", "patch-grader"} \cap (ToolNames \cup {"pov", "patch", "sarif"}) = {}
  BY DEF ToolNames, EventPhase
<1>14. PatchWork => "patch" \in run.seen /\ {"patcher", "patch-grader"} \subseteq run.agents
  BY <1>7, <1>8, <1>12, <1>13 DEF RunOK
<1>15. ExportGate
  <2>1. "pov" \in run.seen
    BY DEF Earned
  <2>2. "patch_grade" \in run.seen => PatchWork
    BY <1>8 DEF RunOK, PatchWork
  <2> QED BY <1>10, <1>14, <2>1, <2>2 DEF ExportGate
<1>16. DefaultAgents \subseteq run.agents
  <2>1. ASSUME NEW g \in DefaultAgents PROVE g \in run.agents
    <3>1. <<"agent", g>> \in Duties
      BY DEF DefaultAgents, Duties, FirstDuties, ClosingDuties
    <3>2. Met(run, <<"agent", g>>)
      BY <1>6, <3>1
    <3> QED BY <3>2 DEF Met
  <2> QED BY <2>1
<1>17. AgentGate
  BY <1>14, <1>16 DEF AgentGate
<1> QED BY <1>4, <1>9, <1>11, <1>15, <1>17 DEF Complete, Earned

\* FullCampaign: for any benchmark and any work of sessions, a campaign closes
\* only if it has earned it, and if it has, it is blocked only by what a session
\* left, wherever an execution of its script died before.
THEOREM CampaignClosesWhenEarned == ScriptSpec => ClosesWhenEarned
<1>1. ScriptInv /\ [ScriptNext]_scriptVars =>
        [Audit => /\ result' = "ok" => Earned
                  /\ result' = "blocked" /\ Earned => Obstructed]_scriptVars
  BY ClosedIsEarned, EarnedIsClosed
<1> QED BY ScriptInitInv, ScriptStep, <1>1, PTL DEF ScriptSpec, ClosesWhenEarned

==============================================================================
