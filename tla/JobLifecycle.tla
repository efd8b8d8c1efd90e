----------------------------- MODULE JobLifecycle -----------------------------
(***************************************************************************)
(* What the fleet promises about one job id, whoever writes its events.    *)
(*                                                                         *)
(* A job is opened for a piece of evidence and starts at attempt 1.  While *)
(* it is open it ends done, parked or dropped, or an attempt fails.  A     *)
(* failure is followed by another try at the same or the next attempt, up  *)
(* to MaxAttempts, or by parking once the attempts are used up.  A settled *)
(* job is opened again only for other evidence.  The one exception is a    *)
(* job cut off between a failure and what follows it: it may be opened     *)
(* afresh, and then forgets its attempts.                                  *)
(***************************************************************************)
EXTENDS Integers

CONSTANTS Job, Gen, NoGen, MaxAttempts

VARIABLES phase, tries, cause

lifeVars == <<phase, tries, cause>>

LifeInit ==
  /\ phase = [j \in Job |-> "none"]
  /\ tries = [j \in Job |-> 0]
  /\ cause = [j \in Job |-> NoGen]

Opened(j, g) ==
  /\ \/ phase[j] \in {"none", "failed"}
     \/ phase[j] \in {"done", "parked", "dropped"} /\ g # cause[j]
  /\ phase' = [phase EXCEPT ![j] = "open"]
  /\ tries' = [tries EXCEPT ![j] = 1]
  /\ cause' = [cause EXCEPT ![j] = g]

Ended(j) ==
  /\ phase[j] = "open"
  /\ \E p \in {"done", "parked", "dropped", "failed"} : phase' = [phase EXCEPT ![j] = p]
  /\ UNCHANGED <<tries, cause>>

Retried(j) ==
  /\ phase[j] = "failed"
  /\ phase' = [phase EXCEPT ![j] = "open"]
  /\ \E n \in {tries[j], tries[j] + 1} :
       n <= MaxAttempts /\ tries' = [tries EXCEPT ![j] = n]
  /\ UNCHANGED cause

Exhausted(j) ==
  /\ phase[j] = "failed"
  /\ tries[j] = MaxAttempts
  /\ phase' = [phase EXCEPT ![j] = "parked"]
  /\ UNCHANGED <<tries, cause>>

LifeNext ==
  \E j \in Job :
    \/ \E g \in Gen : Opened(j, g)
    \/ Ended(j)
    \/ Retried(j)
    \/ Exhausted(j)

LifeSpec == LifeInit /\ [][LifeNext]_lifeVars

=============================================================================
