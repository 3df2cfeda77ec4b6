----------------------------- MODULE Reconnector -----------------------------
(***************************************************************************)
(* The reconnection loop of src/pkg/client/reconnector.go: goroutines that *)
(* call Start, Stop and Reset on one Reconnector, the context of every     *)
(* Start, and the two callbacks the loop runs.  One action per section of  *)
(* code between two points where another goroutine can get in (a lock, a   *)
(* select, a callback).  Durations are integers in an arbitrary unit, the  *)
(* backoff factor is in percent.                                           *)
(***************************************************************************)
EXTENDS Integers

CONSTANTS
  Starters,    \* goroutines that call Start, once each
  Stoppers,    \* goroutines that call Stop, once each
  RawConfigs,  \* the configurations the loop may be created with
  CounterCap   \* where the counters saturate, above every MaxRetries

ASSUME ConfigAssumption ==
  /\ Starters \cap Stoppers = {}
  /\ CounterCap \in Nat
  /\ RawConfigs \subseteq [MaxRetries : Int, MinBackoff : Int,
                           MaxBackoff : Int, BackoffFactor : Int]
  /\ \A c \in RawConfigs : c.MaxRetries < CounterCap

VARIABLES
  cfg,          \* r.cfg
  attempts,     \* r.attempts
  isRunning,    \* r.isRunning
  lastBackoff,  \* r.lastBackoff
  stopClosed,   \* r.stopCh is closed
  stoppedClosed,\* r.stoppedCh is closed
  panicked,     \* a close of a closed channel has ended the process
  ctxDone,      \* the context of each Start is cancelled
  pc,           \* where each goroutine is
  result,       \* what each Start returned
  calls,        \* history: reconnectFunc calls since attempts was last 0
  lateCalls     \* history: those begun after stopCh was closed

vars == <<cfg, attempts, isRunning, lastBackoff, stopClosed, stoppedClosed,
          panicked, ctxDone, pc, result, calls, lateCalls>>
------------------------------------------------------------------------------
DefaultMinBackoff    == 5
DefaultMaxBackoff    == 300
DefaultBackoffFactor == 200

AtMost(n, bound) == IF n > bound THEN bound ELSE n

\* Faulty: a negative MaxRetries is not clamped to 0.
SetDefaultsNoClamp(rc) ==
  [MaxRetries |-> rc.MaxRetries, MinBackoff |-> DefaultMinBackoff,
   MaxBackoff |-> DefaultMaxBackoff, BackoffFactor |-> DefaultBackoffFactor]

SetDefaults(rc) ==
  LET min == IF rc.MinBackoff <= 0 THEN DefaultMinBackoff ELSE rc.MinBackoff
      max == IF rc.MaxBackoff <= 0 THEN DefaultMaxBackoff ELSE rc.MaxBackoff
  IN  [MaxRetries    |-> IF rc.MaxRetries < 0 THEN 0 ELSE rc.MaxRetries,
       MinBackoff    |-> min,
       MaxBackoff    |-> IF max < min THEN 2 * min ELSE max,
       BackoffFactor |-> IF rc.BackoffFactor <= 100 THEN DefaultBackoffFactor
                                                    ELSE rc.BackoffFactor]

\* attempts is compared with MaxRetries only, so it may saturate above it.
Incr(n) == AtMost(n + 1, CounterCap)

\* The wait before jitter: the first is MinBackoff, then it grows to the cap.
BaseBackoff == IF lastBackoff = 0
               THEN cfg.MinBackoff
               ELSE AtMost((lastBackoff * cfg.BackoffFactor) \div 100, cfg.MaxBackoff)

\* 0.25 * (sin(x) + 0.5) lies between -1/8 and 3/8 of the base.
Jitter(base) == -(base \div 8) .. (3 * base) \div 8

InLoop == {"check", "backoff", "wait", "refresh", "calling", "poll", "exit"}

Inside(s) == pc[s] \in InLoop
------------------------------------------------------------------------------
Init ==
  /\ cfg \in {SetDefaults(c) : c \in RawConfigs}
  /\ attempts = 0
  /\ isRunning = FALSE
  /\ lastBackoff = 0
  /\ stopClosed = FALSE
  /\ stoppedClosed = FALSE
  /\ panicked = FALSE
  /\ ctxDone = [s \in Starters |-> FALSE]
  /\ pc = [g \in Starters \cup Stoppers |-> "idle"]
  /\ result = [s \in Starters |-> "none"]
  /\ calls = 0
  /\ lateCalls = 0

Goto(g, from, to) == pc[g] = from /\ pc' = [pc EXCEPT ![g] = to]

ResetLocked == attempts' = 0 /\ lastBackoff' = 0 /\ calls' = 0

\* Faulty: Start does not look at isRunning.
StartLoopUnguarded(s) ==
  /\ Goto(s, "idle", "check")
  /\ isRunning' = TRUE
  /\ stopClosed' = FALSE
  /\ lateCalls' = 0
  /\ ResetLocked
  /\ UNCHANGED <<cfg, stoppedClosed, panicked, ctxDone, result>>

\* Start, first critical section: take the loop and make a new stopCh.
StartLoop(s) ==
  /\ ~isRunning
  /\ Goto(s, "idle", "check")
  /\ isRunning' = TRUE
  /\ stopClosed' = FALSE
  /\ lateCalls' = 0
  /\ ResetLocked
  /\ UNCHANGED <<cfg, stoppedClosed, panicked, ctxDone, result>>

\* Start while another Start runs returns an error at once.
StartRejected(s) ==
  /\ isRunning
  /\ Goto(s, "idle", "returned")
  /\ result' = [result EXCEPT ![s] = "rejected"]
  /\ UNCHANGED <<cfg, attempts, isRunning, lastBackoff, stopClosed, stoppedClosed,
                 panicked, ctxDone, calls, lateCalls>>

\* Every return from inside the loop goes through the deferred function.
Leave(s, from, why) ==
  /\ Goto(s, from, "exit")
  /\ result' = [result EXCEPT ![s] = why]

\* Faulty: the smallest limit is read as "unlimited".
ExhaustedOffByOne == cfg.MaxRetries > 1 /\ attempts >= cfg.MaxRetries

Exhausted == cfg.MaxRetries > 0 /\ attempts >= cfg.MaxRetries

CheckRetries(s) ==
  /\ \/ Exhausted  /\ Leave(s, "check", "exhausted")
     \/ ~Exhausted /\ Goto(s, "check", "backoff") /\ UNCHANGED result
  /\ UNCHANGED <<cfg, attempts, isRunning, lastBackoff, stopClosed, stoppedClosed,
                 panicked, ctxDone, calls, lateCalls>>

\* Faulty: the cap is not applied again after the jitter.
NextBackoffUncapped(s) ==
  /\ Goto(s, "backoff", "wait")
  /\ attempts' = Incr(attempts)
  /\ \E j \in Jitter(BaseBackoff) : lastBackoff' = BaseBackoff + j
  /\ UNCHANGED <<cfg, isRunning, stopClosed, stoppedClosed, panicked, ctxDone,
                 result, calls, lateCalls>>

NextBackoff(s) ==
  /\ Goto(s, "backoff", "wait")
  /\ attempts' = Incr(attempts)
  /\ \E j \in Jitter(BaseBackoff) :
       lastBackoff' = AtMost(BaseBackoff + j, cfg.MaxBackoff)
  /\ UNCHANGED <<cfg, isRunning, stopClosed, stoppedClosed, panicked, ctxDone,
                 result, calls, lateCalls>>

\* waitWithContext: select takes any of the channels that are ready.
WaitBackoff(s) ==
  /\ \/ ctxDone[s] /\ Leave(s, "wait", "context")
     \/ stopClosed /\ Leave(s, "wait", "stopped")
     \/ Goto(s, "wait", "refresh") /\ UNCHANGED result
  /\ UNCHANGED <<cfg, attempts, isRunning, lastBackoff, stopClosed, stoppedClosed,
                 panicked, ctxDone, calls, lateCalls>>

\* refreshFunc returns (its error is only logged) and reconnectFunc is called.
Refresh(s) ==
  /\ Goto(s, "refresh", "calling")
  /\ calls' = Incr(calls)
  /\ lateCalls' = IF stopClosed THEN Incr(lateCalls) ELSE lateCalls
  /\ UNCHANGED <<cfg, attempts, isRunning, lastBackoff, stopClosed, stoppedClosed,
                 panicked, ctxDone, result>>

ReconnectSucceeds(s) ==
  /\ Leave(s, "calling", "nil")
  /\ ResetLocked
  /\ UNCHANGED <<cfg, isRunning, stopClosed, stoppedClosed, panicked, ctxDone,
                 lateCalls>>

ReconnectFails(s) ==
  /\ Goto(s, "calling", "poll")
  /\ attempts' = Incr(attempts)
  /\ UNCHANGED <<cfg, isRunning, lastBackoff, stopClosed, stoppedClosed, panicked,
                 ctxDone, result, calls, lateCalls>>

\* Faulty: the poll forgets one of its two channels.
PollContextOnly(s) ==
  /\ \/ ctxDone[s] /\ Leave(s, "poll", "context")
     \/ ~ctxDone[s] /\ Goto(s, "poll", "check") /\ UNCHANGED result
  /\ UNCHANGED <<cfg, attempts, isRunning, lastBackoff, stopClosed, stoppedClosed,
                 panicked, ctxDone, calls, lateCalls>>

PollStopOnly(s) ==
  /\ \/ stopClosed /\ Leave(s, "poll", "stopped")
     \/ ~stopClosed /\ Goto(s, "poll", "check") /\ UNCHANGED result
  /\ UNCHANGED <<cfg, attempts, isRunning, lastBackoff, stopClosed, stoppedClosed,
                 panicked, ctxDone, calls, lateCalls>>

\* The select with a default at the end of an iteration.
PollStop(s) ==
  /\ \/ ctxDone[s] /\ Leave(s, "poll", "context")
     \/ stopClosed /\ Leave(s, "poll", "stopped")
     \/ /\ ~ctxDone[s] /\ ~stopClosed
        /\ Goto(s, "poll", "check")
        /\ UNCHANGED result
  /\ UNCHANGED <<cfg, attempts, isRunning, lastBackoff, stopClosed, stoppedClosed,
                 panicked, ctxDone, calls, lateCalls>>

\* The deferred function; stoppedCh is never made anew, so a second close panics.
Return(s) ==
  /\ Goto(s, "exit", "returned")
  /\ isRunning' = FALSE
  /\ stoppedClosed' = TRUE
  /\ panicked' = stoppedClosed
  /\ UNCHANGED <<cfg, attempts, lastBackoff, stopClosed, ctxDone, result, calls,
                 lateCalls>>

\* Stop closes stopCh once and then waits for stoppedCh.
StopSignal(p) ==
  /\ Goto(p, "idle", "stopping")
  /\ stopClosed' = TRUE
  /\ UNCHANGED <<cfg, attempts, isRunning, lastBackoff, stoppedClosed, panicked,
                 ctxDone, result, calls, lateCalls>>

StopReturn(p) ==
  /\ stoppedClosed
  /\ Goto(p, "stopping", "returned")
  /\ UNCHANGED <<cfg, attempts, isRunning, lastBackoff, stopClosed, stoppedClosed,
                 panicked, ctxDone, result, calls, lateCalls>>

Reset ==
  /\ ResetLocked
  /\ UNCHANGED <<cfg, isRunning, stopClosed, stoppedClosed, panicked, ctxDone, pc,
                 result, lateCalls>>

\* The owner of a Start's context cancels it.
CancelContext(s) ==
  /\ ~ctxDone[s]
  /\ ctxDone' = [ctxDone EXCEPT ![s] = TRUE]
  /\ UNCHANGED <<cfg, attempts, isRunning, lastBackoff, stopClosed, stoppedClosed,
                 panicked, pc, result, calls, lateCalls>>

LoopStep(s) ==
  \/ CheckRetries(s) \/ NextBackoff(s) \/ WaitBackoff(s) \/ Refresh(s)
  \/ ReconnectSucceeds(s) \/ ReconnectFails(s) \/ PollStop(s) \/ Return(s)

Next ==
  /\ ~panicked
  /\ \/ \E s \in Starters : StartLoop(s) \/ StartRejected(s) \/ LoopStep(s)
                            \/ CancelContext(s)
     \/ \E p \in Stoppers : StopSignal(p) \/ StopReturn(p)
     \/ Reset

\* A goroutine that is inside the loop, or whose wait is over, is scheduled; the
\* timer fires and the callbacks return.  Nobody has to call Start or Stop.
Fairness ==
  /\ \A s \in Starters : WF_vars(~panicked /\ LoopStep(s))
  /\ \A p \in Stoppers : WF_vars(~panicked /\ StopReturn(p))

Spec == Init /\ [][Next]_vars /\ Fairness

------------------------------------------------------------------------------
(***************************************************************************)
(* Properties                                                              *)
(***************************************************************************)

\* Every variable holds a value of its Go type; one type invariant for the module.
TypeOK ==
  /\ cfg \in [MaxRetries : Nat, MinBackoff : Nat \ {0}, MaxBackoff : Nat \ {0},
              BackoffFactor : Nat \ {0}]
  /\ attempts \in 0 .. CounterCap
  /\ isRunning \in BOOLEAN
  /\ lastBackoff \in Nat
  /\ stopClosed \in BOOLEAN
  /\ stoppedClosed \in BOOLEAN
  /\ panicked \in BOOLEAN
  /\ ctxDone \in [Starters -> BOOLEAN]
  /\ pc \in [Starters \cup Stoppers -> InLoop \cup {"idle", "stopping", "returned"}]
  /\ result \in [Starters -> {"none", "rejected", "exhausted", "context", "stopped",
                              "nil"}]
  /\ calls \in 0 .. CounterCap
  /\ lateCalls \in 0 .. CounterCap

\* However Start, Stop, Reset and the end of an earlier Start interleave, at most
\* one goroutine is inside the loop, and isRunning tells whether there is one: the
\* critical section at the head of Start and the deferred function agree.
OneLoop ==
  /\ \A s, t \in Starters : Inside(s) /\ Inside(t) => s = t
  /\ isRunning <=> \E s \in Starters : Inside(s)

\* reconnectFunc is never called more often than MaxRetries allows, although
\* attempts is counted in two places and Reset may clear it between any two steps.
AttemptBudget == cfg.MaxRetries > 0 => calls <= cfg.MaxRetries

\* The wait never exceeds MaxBackoff, and with a factor of at least 1.15 jitter never
\* wears it down below 7/8 of MinBackoff, however many attempts compound it.
BackoffInRange ==
  /\ lastBackoff <= cfg.MaxBackoff
  /\ lastBackoff # 0 /\ cfg.BackoffFactor >= 115
       => 8 * lastBackoff >= 7 * cfg.MinBackoff

\* Once Stop has closed stopCh, the loop begins at most one more reconnection: the
\* select may prefer an expired timer once, the poll after the attempt never does.
AtMostOneLateCall == lateCalls <= 1

\* A loop that is told to end, by Stop or by its context, ends.
LoopEndsWhenTold ==
  \A s \in Starters :
    (Inside(s) /\ (stopClosed \/ ctxDone[s])) ~> ~Inside(s)
==============================================================================
