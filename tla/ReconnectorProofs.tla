-------------------------- MODULE ReconnectorProofs --------------------------
(***************************************************************************)
(* Proofs about Reconnector, for every set of goroutines, every set of     *)
(* configurations and every saturation bound: one loop at a time, its      *)
(* budget and its waits, and what a Reconnector used twice comes to.       *)
(***************************************************************************)
EXTENDS Reconnector, TLAPS

\* SetDefaults leaves limits that are in order, whatever the configuration says.
CfgInv ==
  /\ cfg.MinBackoff <= cfg.MaxBackoff
  /\ cfg.MaxRetries > 0 => cfg.MaxRetries < CounterCap

\* attempts runs ahead of calls by a margin that depends on where the loop is.
\* Reset clears both, so after it the margin is stated for calls = 0 and 1.
BudgetInv ==
  cfg.MaxRetries > 0 =>
    /\ calls <= cfg.MaxRetries
    /\ \A s \in Starters :
         /\ pc[s] \in {"check", "backoff", "poll"} => calls <= attempts
         /\ pc[s] \in {"backoff", "wait", "refresh"} => calls < cfg.MaxRetries
         /\ pc[s] \in {"wait", "refresh"} => calls < attempts \/ calls = 0
         /\ pc[s] = "calling" => calls <= attempts \/ calls <= 1

\* A late call is only begun on the way from an expired timer, and the poll after
\* it leaves the loop because stopCh stays closed.
LateInv ==
  /\ AtMostOneLateCall
  /\ lateCalls > 0 => stopClosed
  /\ \A s \in Starters :
       pc[s] \in {"check", "backoff", "wait", "refresh"} => lateCalls = 0

IInv == TypeOK /\ OneLoop /\ CfgInv /\ BudgetInv /\ LateInv /\ BackoffInRange
------------------------------------------------------------------------------
\* SetDefaults (reconnector.go:43): whatever the raw configuration, MaxRetries is not
\* negative and below the saturation bound, the limits are positive and in order.
LEMMA SetDefaultsSound ==
  ASSUME NEW rc \in RawConfigs
  PROVE  LET c == SetDefaults(rc) IN
         /\ c \in [MaxRetries : Nat, MinBackoff : Nat \ {0}, MaxBackoff : Nat \ {0},
                  BackoffFactor : Nat \ {0}]
         /\ c.MinBackoff <= c.MaxBackoff
         /\ c.MaxRetries > 0 => c.MaxRetries < CounterCap
BY ConfigAssumption
   DEF SetDefaults, DefaultMinBackoff, DefaultMaxBackoff, DefaultBackoffFactor

\* A counter that saturates stays in its range and never falls.
LEMMA IncrSound ==
  ASSUME NEW n \in 0 .. CounterCap
  PROVE  /\ Incr(n) \in 0 .. CounterCap
         /\ Incr(n) >= n
         /\ n < CounterCap => Incr(n) = n + 1
BY ConfigAssumption DEF Incr, AtMost

\* The wait before jitter is a duration.
LEMMA BaseBackoffSound ==
  ASSUME TypeOK
  PROVE  BaseBackoff \in Nat
<1>1. lastBackoff * cfg.BackoffFactor \in Nat
  BY DEF TypeOK
<1>2. (lastBackoff * cfg.BackoffFactor) \div 100 \in Nat
  BY <1>1
<1>3. QED
  BY <1>2 DEF BaseBackoff, AtMost, TypeOK

\* Jitter never makes a duration negative, and the cap is applied after it.
LEMMA JitterSound ==
  ASSUME TypeOK, NEW j \in Jitter(BaseBackoff)
  PROVE  /\ AtMost(BaseBackoff + j, cfg.MaxBackoff) \in Nat
         /\ AtMost(BaseBackoff + j, cfg.MaxBackoff) <= cfg.MaxBackoff
<1> DEFINE b == BaseBackoff
<1>1. b \in Nat
  BY BaseBackoffSound
<1>2. j \in Int /\ b + j >= 0
  BY <1>1 DEF Jitter
<1>3. QED
  BY <1>1, <1>2 DEF AtMost, TypeOK

\* The base of a wait is not below MinBackoff: a wait that was worn down by jitter to 7/8 of
\* it is above it again after a factor of 1.15.
LEMMA BaseAboveMin ==
  ASSUME TypeOK, CfgInv, BackoffInRange, cfg.BackoffFactor >= 115
  PROVE  BaseBackoff >= cfg.MinBackoff
<1> DEFINE L == lastBackoff  f == cfg.BackoffFactor  m == cfg.MinBackoff
<1>1. L \in Nat /\ f \in Nat /\ m \in Nat /\ cfg.MaxBackoff \in Nat /\ m <= cfg.MaxBackoff
  BY DEF TypeOK, CfgInv
<1>2. CASE L = 0
  BY <1>1, <1>2 DEF BaseBackoff
<1>3. CASE L # 0
  <2>1. 8 * L >= 7 * m
    BY <1>3 DEF BackoffInRange
  <2>2. L * f >= L * 115
    BY <1>1
  <2>3. L * f \in Nat
    BY <1>1
  <2>4. L * f >= 100 * m
    BY <1>1, <2>1, <2>2, <2>3
  <2>5. (L * f) \div 100 >= m
    <3> HIDE DEF L, f, m
    <3> DEFINE p == L * f
    <3>1. p \in Nat /\ p >= 100 * m /\ m \in Nat
      BY <1>1, <2>3, <2>4
    <3> HIDE DEF p
    <3>2. p \div 100 >= m
      BY <3>1
    <3>3. QED
      BY <3>2 DEF p
  <2>6. QED
    BY <1>1, <1>3, <2>5 DEF BaseBackoff, AtMost
<1>4. QED
  BY <1>2, <1>3

\* Jitter takes at most an eighth away, so the wait stays above 7/8 of MinBackoff.
LEMMA FloorSound ==
  ASSUME TypeOK, CfgInv, BackoffInRange, cfg.BackoffFactor >= 115,
         NEW j \in Jitter(BaseBackoff)
  PROVE  8 * AtMost(BaseBackoff + j, cfg.MaxBackoff) >= 7 * cfg.MinBackoff
<1> DEFINE b == BaseBackoff
<1>1. /\ b \in Nat /\ b >= cfg.MinBackoff /\ cfg.MinBackoff \in Nat
      /\ cfg.MaxBackoff \in Nat /\ cfg.MinBackoff <= cfg.MaxBackoff
  BY BaseBackoffSound, BaseAboveMin DEF TypeOK, CfgInv
<1>2. j \in Int /\ j >= -(b \div 8)
  BY <1>1 DEF Jitter
<1> HIDE DEF b
<1>3. 8 * (b + j) >= 7 * b
  BY <1>1, <1>2
<1>4. 8 * AtMost(b + j, cfg.MaxBackoff) >= 7 * cfg.MinBackoff
  BY <1>1, <1>2, <1>3 DEF AtMost
<1>5. QED
  BY <1>4 DEF b

------------------------------------------------------------------------------
LEMMA InitTypeOK == Init => TypeOK
<1> SUFFICES ASSUME Init PROVE TypeOK
  OBVIOUS
<1>1. PICK rc \in RawConfigs : cfg = SetDefaults(rc)
  BY DEF Init
<1>2. cfg \in [MaxRetries : Nat, MinBackoff : Nat \ {0}, MaxBackoff : Nat \ {0},
              BackoffFactor : Nat \ {0}]
  BY <1>1, SetDefaultsSound
<1>3. 0 \in 0 .. CounterCap
  BY ConfigAssumption
<1>4. QED
  BY <1>2, <1>3 DEF Init, TypeOK, InLoop

LEMMA NextTypeOK == TypeOK /\ [Next]_vars => TypeOK'
<1> SUFFICES ASSUME TypeOK, [Next]_vars PROVE TypeOK'
  OBVIOUS
<1>0. 0 \in 0 .. CounterCap
  BY ConfigAssumption
<1> USE <1>0, IncrSound DEF TypeOK, InLoop, Goto, Leave, ResetLocked
<1>1. ASSUME NEW s \in Starters, StartLoop(s) PROVE TypeOK'
  BY <1>1 DEF StartLoop
<1>2. ASSUME NEW s \in Starters, StartRejected(s) PROVE TypeOK'
  BY <1>2 DEF StartRejected
<1>3. ASSUME NEW s \in Starters, CheckRetries(s) PROVE TypeOK'
  BY <1>3 DEF CheckRetries
<1>4. ASSUME NEW s \in Starters, NextBackoff(s) PROVE TypeOK'
  <2>1. lastBackoff' \in Nat
    BY <1>4, JitterSound DEF NextBackoff
  <2>2. QED
    BY <1>4, <2>1 DEF NextBackoff
<1>5. ASSUME NEW s \in Starters, WaitBackoff(s) PROVE TypeOK'
  BY <1>5 DEF WaitBackoff
<1>6. ASSUME NEW s \in Starters, Refresh(s) PROVE TypeOK'
  BY <1>6 DEF Refresh
<1>7. ASSUME NEW s \in Starters, ReconnectSucceeds(s) PROVE TypeOK'
  BY <1>7 DEF ReconnectSucceeds
<1>8. ASSUME NEW s \in Starters, ReconnectFails(s) PROVE TypeOK'
  BY <1>8 DEF ReconnectFails
<1>9. ASSUME NEW s \in Starters, PollStop(s) PROVE TypeOK'
  BY <1>9 DEF PollStop
<1>10. ASSUME NEW s \in Starters, Return(s) PROVE TypeOK'
  BY <1>10 DEF Return
<1>11. ASSUME NEW s \in Starters, CancelContext(s) PROVE TypeOK'
  BY <1>11 DEF CancelContext
<1>12. ASSUME NEW p \in Stoppers, StopSignal(p) PROVE TypeOK'
  BY <1>12 DEF StopSignal
<1>13. ASSUME NEW p \in Stoppers, StopReturn(p) PROVE TypeOK'
  BY <1>13 DEF StopReturn
<1>14. CASE Reset
  BY <1>14 DEF Reset
<1>15. CASE UNCHANGED vars
  BY <1>15 DEF vars
<1>16. QED
  BY <1>1, <1>2, <1>3, <1>4, <1>5, <1>6, <1>7, <1>8, <1>9, <1>10, <1>11,
     <1>12, <1>13, <1>14, <1>15 DEF Next, LoopStep

\* Type correctness: Start, Stop, Reset and the callbacks keep every variable in its
\* type, for every set of goroutines and configurations.
THEOREM TypeCorrect == Spec => []TypeOK
BY InitTypeOK, NextTypeOK, PTL DEF Spec

\* The guard of Start and its deferred function: the loop has one owner at most and
\* isRunning says whether it has one.
LEMMA OneLoopStep ==
  ASSUME TypeOK, OneLoop, [Next]_vars
  PROVE  OneLoop'
<1> USE ConfigAssumption DEF TypeOK, OneLoop, Inside, InLoop, Goto, Leave, ResetLocked
<1>1. ASSUME NEW s \in Starters, StartLoop(s) PROVE OneLoop'
  BY <1>1 DEF StartLoop
<1>2. ASSUME NEW s \in Starters, StartRejected(s) PROVE OneLoop'
  BY <1>2 DEF StartRejected
<1>3. ASSUME NEW s \in Starters, CheckRetries(s) PROVE OneLoop'
  BY <1>3 DEF CheckRetries
<1>4. ASSUME NEW s \in Starters, NextBackoff(s) PROVE OneLoop'
  BY <1>4 DEF NextBackoff
<1>5. ASSUME NEW s \in Starters, WaitBackoff(s) PROVE OneLoop'
  BY <1>5 DEF WaitBackoff
<1>6. ASSUME NEW s \in Starters, Refresh(s) PROVE OneLoop'
  BY <1>6 DEF Refresh
<1>7. ASSUME NEW s \in Starters, ReconnectSucceeds(s) PROVE OneLoop'
  BY <1>7 DEF ReconnectSucceeds
<1>8. ASSUME NEW s \in Starters, ReconnectFails(s) PROVE OneLoop'
  BY <1>8 DEF ReconnectFails
<1>9. ASSUME NEW s \in Starters, PollStop(s) PROVE OneLoop'
  BY <1>9 DEF PollStop
<1>10. ASSUME NEW s \in Starters, Return(s) PROVE OneLoop'
  BY <1>10 DEF Return
<1>11. ASSUME NEW s \in Starters, CancelContext(s) PROVE OneLoop'
  BY <1>11 DEF CancelContext
<1>12. ASSUME NEW p \in Stoppers, StopSignal(p) PROVE OneLoop'
  BY <1>12 DEF StopSignal
<1>13. ASSUME NEW p \in Stoppers, StopReturn(p) PROVE OneLoop'
  BY <1>13 DEF StopReturn
<1>14. CASE Reset
  BY <1>14 DEF Reset
<1>15. CASE UNCHANGED vars
  BY <1>15 DEF vars
<1>16. QED
  BY <1>1, <1>2, <1>3, <1>4, <1>5, <1>6, <1>7, <1>8, <1>9, <1>10, <1>11,
     <1>12, <1>13, <1>14, <1>15 DEF Next, LoopStep

\* The accounting of attempts: from check to check calls never overtakes attempts.
LEMMA BudgetStep ==
  ASSUME TypeOK, OneLoop, CfgInv, BudgetInv, [Next]_vars
  PROVE  BudgetInv'
<1> USE ConfigAssumption, IncrSound
       DEF TypeOK, OneLoop, Inside, InLoop, Goto, Leave, ResetLocked, CfgInv,
           BudgetInv, Exhausted
<1>1. ASSUME NEW s \in Starters, StartLoop(s) PROVE BudgetInv'
  BY <1>1 DEF StartLoop
<1>2. ASSUME NEW s \in Starters, StartRejected(s) PROVE BudgetInv'
  BY <1>2 DEF StartRejected
<1>3. ASSUME NEW s \in Starters, CheckRetries(s) PROVE BudgetInv'
  BY <1>3 DEF CheckRetries
<1>4. ASSUME NEW s \in Starters, NextBackoff(s) PROVE BudgetInv'
  BY <1>4 DEF NextBackoff
<1>5. ASSUME NEW s \in Starters, WaitBackoff(s) PROVE BudgetInv'
  BY <1>5 DEF WaitBackoff
<1>6. ASSUME NEW s \in Starters, Refresh(s) PROVE BudgetInv'
  BY <1>6 DEF Refresh
<1>7. ASSUME NEW s \in Starters, ReconnectSucceeds(s) PROVE BudgetInv'
  BY <1>7 DEF ReconnectSucceeds
<1>8. ASSUME NEW s \in Starters, ReconnectFails(s) PROVE BudgetInv'
  BY <1>8 DEF ReconnectFails
<1>9. ASSUME NEW s \in Starters, PollStop(s) PROVE BudgetInv'
  BY <1>9 DEF PollStop
<1>10. ASSUME NEW s \in Starters, Return(s) PROVE BudgetInv'
  BY <1>10 DEF Return
<1>11. ASSUME NEW s \in Starters, CancelContext(s) PROVE BudgetInv'
  BY <1>11 DEF CancelContext
<1>12. ASSUME NEW p \in Stoppers, StopSignal(p) PROVE BudgetInv'
  BY <1>12 DEF StopSignal
<1>13. ASSUME NEW p \in Stoppers, StopReturn(p) PROVE BudgetInv'
  BY <1>13 DEF StopReturn
<1>14. CASE Reset
  BY <1>14 DEF Reset
<1>15. CASE UNCHANGED vars
  BY <1>15 DEF vars
<1>16. QED
  BY <1>1, <1>2, <1>3, <1>4, <1>5, <1>6, <1>7, <1>8, <1>9, <1>10, <1>11,
     <1>12, <1>13, <1>14, <1>15 DEF Next, LoopStep

\* The stop channel stays closed until the next Start, which needs the loop to be over.
LEMMA LateStep ==
  ASSUME TypeOK, OneLoop, LateInv, [Next]_vars
  PROVE  LateInv'
<1> USE ConfigAssumption, IncrSound
       DEF TypeOK, OneLoop, Inside, InLoop, Goto, Leave, ResetLocked, LateInv,
           AtMostOneLateCall, Incr, AtMost
<1>1. ASSUME NEW s \in Starters, StartLoop(s) PROVE LateInv'
  BY <1>1 DEF StartLoop
<1>2. ASSUME NEW s \in Starters, StartRejected(s) PROVE LateInv'
  BY <1>2 DEF StartRejected
<1>3. ASSUME NEW s \in Starters, CheckRetries(s) PROVE LateInv'
  BY <1>3 DEF CheckRetries
<1>4. ASSUME NEW s \in Starters, NextBackoff(s) PROVE LateInv'
  BY <1>4 DEF NextBackoff
<1>5. ASSUME NEW s \in Starters, WaitBackoff(s) PROVE LateInv'
  BY <1>5 DEF WaitBackoff
<1>6. ASSUME NEW s \in Starters, Refresh(s) PROVE LateInv'
  BY <1>6 DEF Refresh
<1>7. ASSUME NEW s \in Starters, ReconnectSucceeds(s) PROVE LateInv'
  BY <1>7 DEF ReconnectSucceeds
<1>8. ASSUME NEW s \in Starters, ReconnectFails(s) PROVE LateInv'
  BY <1>8 DEF ReconnectFails
<1>9. ASSUME NEW s \in Starters, PollStop(s) PROVE LateInv'
  BY <1>9 DEF PollStop
<1>10. ASSUME NEW s \in Starters, Return(s) PROVE LateInv'
  BY <1>10 DEF Return
<1>11. ASSUME NEW s \in Starters, CancelContext(s) PROVE LateInv'
  BY <1>11 DEF CancelContext
<1>12. ASSUME NEW p \in Stoppers, StopSignal(p) PROVE LateInv'
  BY <1>12 DEF StopSignal
<1>13. ASSUME NEW p \in Stoppers, StopReturn(p) PROVE LateInv'
  BY <1>13 DEF StopReturn
<1>14. CASE Reset
  BY <1>14 DEF Reset
<1>15. CASE UNCHANGED vars
  BY <1>15 DEF vars
<1>16. QED
  BY <1>1, <1>2, <1>3, <1>4, <1>5, <1>6, <1>7, <1>8, <1>9, <1>10, <1>11,
     <1>12, <1>13, <1>14, <1>15 DEF Next, LoopStep

\* The backoff is capped after the jitter, and Reset clears it.
LEMMA RangeStep ==
  ASSUME TypeOK, CfgInv, BackoffInRange, [Next]_vars
  PROVE  BackoffInRange'
<1> USE DEF TypeOK, ResetLocked, BackoffInRange
<1>1. ASSUME NEW s \in Starters, StartLoop(s) PROVE BackoffInRange'
  BY <1>1 DEF StartLoop
<1>2. ASSUME NEW s \in Starters, StartRejected(s) PROVE BackoffInRange'
  BY <1>2 DEF StartRejected
<1>3. ASSUME NEW s \in Starters, CheckRetries(s) PROVE BackoffInRange'
  BY <1>3 DEF CheckRetries
<1>4. ASSUME NEW s \in Starters, NextBackoff(s) PROVE BackoffInRange'
  <2>1. PICK j \in Jitter(BaseBackoff) :
          lastBackoff' = AtMost(BaseBackoff + j, cfg.MaxBackoff)
    BY <1>4 DEF NextBackoff
  <2>2. cfg' = cfg
    BY <1>4 DEF NextBackoff
  <2>3. lastBackoff' <= cfg.MaxBackoff
    BY <2>1, JitterSound
  <2>4. cfg.BackoffFactor >= 115 => 8 * lastBackoff' >= 7 * cfg.MinBackoff
    BY <2>1, FloorSound
  <2>5. QED
    BY <2>2, <2>3, <2>4
<1>5. ASSUME NEW s \in Starters, WaitBackoff(s) PROVE BackoffInRange'
  BY <1>5 DEF WaitBackoff
<1>6. ASSUME NEW s \in Starters, Refresh(s) PROVE BackoffInRange'
  BY <1>6 DEF Refresh
<1>7. ASSUME NEW s \in Starters, ReconnectSucceeds(s) PROVE BackoffInRange'
  BY <1>7 DEF ReconnectSucceeds
<1>8. ASSUME NEW s \in Starters, ReconnectFails(s) PROVE BackoffInRange'
  BY <1>8 DEF ReconnectFails
<1>9. ASSUME NEW s \in Starters, PollStop(s) PROVE BackoffInRange'
  BY <1>9 DEF PollStop
<1>10. ASSUME NEW s \in Starters, Return(s) PROVE BackoffInRange'
  BY <1>10 DEF Return
<1>11. ASSUME NEW s \in Starters, CancelContext(s) PROVE BackoffInRange'
  BY <1>11 DEF CancelContext
<1>12. ASSUME NEW p \in Stoppers, StopSignal(p) PROVE BackoffInRange'
  BY <1>12 DEF StopSignal
<1>13. ASSUME NEW p \in Stoppers, StopReturn(p) PROVE BackoffInRange'
  BY <1>13 DEF StopReturn
<1>14. CASE Reset
  BY <1>14 DEF Reset
<1>15. CASE UNCHANGED vars
  BY <1>15 DEF vars
<1>16. QED
  BY <1>1, <1>2, <1>3, <1>4, <1>5, <1>6, <1>7, <1>8, <1>9, <1>10, <1>11,
     <1>12, <1>13, <1>14, <1>15 DEF Next, LoopStep

LEMMA InvInit == Init => IInv
<1> SUFFICES ASSUME Init PROVE IInv
  OBVIOUS
<1>1. PICK rc \in RawConfigs : cfg = SetDefaults(rc)
  BY DEF Init
<1>2. CfgInv
  BY <1>1, SetDefaultsSound DEF CfgInv
<1>3. TypeOK
  BY InitTypeOK
<1>4. QED
  BY <1>2, <1>3 DEF Init, IInv, TypeOK, OneLoop, Inside, InLoop, BudgetInv, LateInv,
     AtMostOneLateCall, BackoffInRange

LEMMA InvStep == IInv /\ [Next]_vars => IInv'
<1> SUFFICES ASSUME IInv, [Next]_vars PROVE IInv'
  OBVIOUS
<1>1. TypeOK'
  BY NextTypeOK DEF IInv
<1>2. cfg' = cfg
  BY DEF Next, LoopStep, StartLoop, StartRejected, CheckRetries, NextBackoff,
     WaitBackoff, Refresh, ReconnectSucceeds, ReconnectFails, PollStop, Return,
     CancelContext, StopSignal, StopReturn, Reset, vars
<1>3. CfgInv'
  BY <1>2 DEF IInv, CfgInv
<1>4. QED
  BY <1>1, <1>3, OneLoopStep, BudgetStep, LateStep, RangeStep DEF IInv

LEMMA Invariance == Spec => []IInv
BY InvInit, InvStep, PTL DEF Spec

\* The loop is never entered twice, for any number of callers of Start and Stop.
THEOREM SingleLoop == Spec => []OneLoop
<1>1. IInv => OneLoop
  BY DEF IInv
<1>2. QED
  BY <1>1, Invariance, PTL

\* The retry limit is never exceeded, for every limit and wherever Reset strikes.
THEOREM RetriesBounded == Spec => []AttemptBudget
<1>1. IInv => AttemptBudget
  BY DEF IInv, BudgetInv, AttemptBudget
<1>2. QED
  BY <1>1, Invariance, PTL

\* Stop is followed by one more reconnection attempt at most.
THEOREM StopTakesEffect == Spec => []AtMostOneLateCall
<1>1. IInv => AtMostOneLateCall
  BY DEF IInv, LateInv
<1>2. QED
  BY <1>1, Invariance, PTL

\* No configuration makes the wait exceed MaxBackoff, and with a factor of 1.15 or more no
\* number of attempts wears it down below 7/8 of MinBackoff.
THEOREM WaitInRange == Spec => []BackoffInRange
<1>1. IInv => BackoffInRange
  BY DEF IInv
<1>2. QED
  BY <1>1, Invariance, PTL
------------------------------------------------------------------------------
(***************************************************************************)
(* stoppedCh is made once, in the constructor.  Which histories end the    *)
(* process on its second close, and which leave Stop waiting, follows from *)
(* how many Starts have run the loop to its end.                           *)
(***************************************************************************)

\* Start s has run the loop and is over: it returned and was not turned away.
RanToEnd(s) == pc[s] = "returned" /\ result[s] # "rejected"

\* stoppedCh is closed exactly when some Start has run the loop to its end, so Stop returns
\* only after one has; and the deferred function of Start panics on a second close only
\* when two Starts have: one Reconnector is good for one loop (reconnector.go:119).
OneLoopPerReconnector ==
  /\ stoppedClosed <=> \E s \in Starters : RanToEnd(s)
  /\ \A p \in Stoppers : pc[p] = "returned" => stoppedClosed
  /\ panicked => \E s, t \in Starters : s # t /\ RanToEnd(s) /\ RanToEnd(t)

\* What a Start returns is decided when it leaves the loop, and only a Start that never
\* entered it is turned away.
ResultInv ==
  /\ \A s \in Starters :
       /\ pc[s] # "stopping"
       /\ Inside(s) \/ pc[s] = "idle" => result[s] # "rejected"
  /\ \A p \in Stoppers : pc[p] \in {"idle", "stopping", "returned"}

LoopInv == TypeOK /\ ResultInv /\ OneLoopPerReconnector

\* A step moves one goroutine; what it does to the others is nothing.
LEMMA LoopInvStep == LoopInv /\ [Next]_vars => LoopInv'
<1> SUFFICES ASSUME LoopInv, [Next]_vars PROVE LoopInv'
  OBVIOUS
<1> DEFINE Kept == ResultInv' /\ OneLoopPerReconnector'
<1>0. TypeOK'
  BY NextTypeOK DEF LoopInv
<1>a. /\ pc \in [Starters \cup Stoppers -> InLoop \cup {"idle", "stopping", "returned"}]
      /\ result \in [Starters -> {"none", "rejected", "exhausted", "context", "stopped",
                                  "nil"}]
      /\ stoppedClosed \in BOOLEAN /\ panicked \in BOOLEAN
      /\ ResultInv /\ OneLoopPerReconnector
  BY DEF LoopInv, TypeOK
<1>b. Starters \cap Stoppers = {}
  BY ConfigAssumption
<1>c. CASE Reset \/ UNCHANGED vars
  <2>1. pc' = pc /\ result' = result /\ stoppedClosed' = stoppedClosed /\ panicked' = panicked
    BY <1>c DEF Reset, vars
  <2>2. ResultInv'
    BY <1>a, <2>1 DEF ResultInv, Inside
  <2>3. OneLoopPerReconnector'
    BY <1>a, <2>1 DEF OneLoopPerReconnector, RanToEnd
  <2>4. QED
    BY <1>0, <2>2, <2>3 DEF LoopInv
<1> USE <1>a, <1>b DEF ResultInv, OneLoopPerReconnector, RanToEnd, Inside, InLoop, Goto,
                       Leave
<1>1. ASSUME NEW s \in Starters, StartLoop(s) PROVE Kept
  BY <1>1 DEF StartLoop
<1>2. ASSUME NEW s \in Starters, StartRejected(s) PROVE Kept
  BY <1>2 DEF StartRejected
<1>3. ASSUME NEW s \in Starters, CheckRetries(s) PROVE Kept
  BY <1>3 DEF CheckRetries
<1>4. ASSUME NEW s \in Starters, NextBackoff(s) PROVE Kept
  BY <1>4 DEF NextBackoff
<1>5. ASSUME NEW s \in Starters, WaitBackoff(s) PROVE Kept
  BY <1>5 DEF WaitBackoff
<1>6. ASSUME NEW s \in Starters, Refresh(s) PROVE Kept
  BY <1>6 DEF Refresh
<1>7. ASSUME NEW s \in Starters, ReconnectSucceeds(s) PROVE Kept
  BY <1>7 DEF ReconnectSucceeds
<1>8. ASSUME NEW s \in Starters, ReconnectFails(s) PROVE Kept
  BY <1>8 DEF ReconnectFails
<1>9. ASSUME NEW s \in Starters, PollStop(s) PROVE Kept
  BY <1>9 DEF PollStop
<1>10. ASSUME NEW s \in Starters, Return(s) PROVE Kept
  BY <1>10 DEF Return
<1>11. ASSUME NEW s \in Starters, CancelContext(s) PROVE Kept
  BY <1>11 DEF CancelContext
<1>12. ASSUME NEW p \in Stoppers, StopSignal(p) PROVE Kept
  BY <1>12 DEF StopSignal
<1>13. ASSUME NEW p \in Stoppers, StopReturn(p) PROVE Kept
  BY <1>13 DEF StopReturn
<1>14. QED
  BY <1>0, <1>c, <1>1, <1>2, <1>3, <1>4, <1>5, <1>6, <1>7, <1>8, <1>9, <1>10, <1>11,
     <1>12, <1>13 DEF Next, LoopStep, LoopInv

\* Every history of calls: the process ends on a closed stoppedCh only after a second loop,
\* and Stop returns only after a first.
THEOREM PanicNeedsSecondLoop == Spec => []OneLoopPerReconnector
<1>1. Init => LoopInv
  <2> SUFFICES ASSUME Init PROVE LoopInv
    OBVIOUS
  <2>1. ResultInv /\ OneLoopPerReconnector
    BY ConfigAssumption
       DEF Init, ResultInv, OneLoopPerReconnector, RanToEnd, Inside, InLoop
  <2>2. QED
    BY <2>1, InitTypeOK DEF LoopInv
<1>2. LoopInv => OneLoopPerReconnector
  BY DEF LoopInv
<1>3. QED
  BY <1>1, <1>2, LoopInvStep, PTL DEF Spec
==============================================================================
