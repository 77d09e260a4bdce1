---------------------------- MODULE ConnectionRate ----------------------------
(***************************************************************************)
(* IntensityGovernor with an observation of the last second: how many      *)
(* tokens were taken from the bucket in the last 1, 2, ..., Rate ticks.    *)
(***************************************************************************)
EXTENDS IntensityGovernor

VARIABLE taken

rateVars == <<vars, taken>>

NextTick == [i \in 1..Rate |-> IF i = 1 THEN 0 ELSE taken[i - 1]]

RateInit == Init /\ taken = [i \in 1..Rate |-> 0]

\* A step of a task takes at most one token, which counts in every window.
Observe == taken' = IF tokens' < tokens THEN [i \in 1..Rate |-> taken[i] + 1] ELSE taken

RateNext ==
  \/ Tick /\ taken' = NextTick
  \/ \E t \in Tasks :
       /\ \/ \E h \in Hosts : BudgetExceeded(t, h)
          \/ AcquireStep(t) \/ ConnectStep(t) \/ CancelAcquire(t)
       /\ Observe

RateSpec == RateInit /\ [][RateNext]_rateVars

FairRateSpec == RateSpec /\ Fairness

\* _TokenBucket starts full and refills while it is drained: in any second it
\* hands out less than twice its rate, and never more.
BurstBounded == taken[Rate] <= 2 * Rate - 1
=============================================================================
