---------------------------- MODULE SupervisorProofs ----------------------------
(***************************************************************************)
(* Proofs about Supervisor, for every number of URLs, connectors and       *)
(* retries: the closure's variables stay in step with main's, the fatal    *)
(* error of a connector is never out of main's hearing, a cancelled        *)
(* reconnection makes no connection, and nobody takes two signals.         *)
(***************************************************************************)
EXTENDS Supervisor, TLAPS

\* main is in a call of createConnector, or waits for one, exactly if there is an attempt;
\* FetchFails stays within the list.
AttemptInv ==
  /\ attempt.pc = "none" <=> main \in {"serve", "ended"}
  /\ attempt.pc = "fetching" => attempt.url <= URLs

\* The closure's variables are main's: they all belong to the connector that came last.
CurrentInv ==
  /\ connector = made /\ monitorCtx = made
  /\ main \in {"serve", "reconnect"} => made > 0
  /\ main \in {"first", "firstLoop"} => made = 0
  /\ \A k \in Connectors : k > made => /\ conn[k] = "none" /\ monitor[k].pc = "none"
                                     /\ k \notin stopped

\* A new connector is made only after the one before it was stopped.
StoppedInv ==
  /\ \A k \in Connectors : k < made => k \in stopped
  /\ main = "reconnect" => made \in stopped
  /\ main = "serve" => made \notin stopped

\* Only an attempt that has not looked at its context yet is late, and the context it has
\* not looked at stays cancelled.
LateInv == attempt.late => attempt.pc = "fetch" /\ Cancelled

IInv == TypeOK /\ AttemptInv /\ CurrentInv /\ StoppedInv /\ LateInv

\* A connector whose fatal error was not taken is the one main listens to, and main listens.
FatalIsHeard ==
  main # "ended" =>
    \A k \in Connectors : conn[k] = "exhausted" /\ k \notin stopped
                            => main = "serve" /\ connector = k
------------------------------------------------------------------------------
LEMMA Numbers ==
  /\ 1 \in 1 .. URLs + 1 /\ 0 \in 0 .. MaxConnectors
  /\ Connectors \subseteq 0 .. MaxConnectors
  /\ made \in Connectors <=> made \in 0 .. MaxConnectors /\ made > 0
BY SupervisorAssumption DEF Connectors

\* A step of the search that makes no connector: only main and the attempt change.
LEMMA SearchStep ==
  ASSUME IInv, UNCHANGED <<current, monitors, signals, blocked, deadURLs>>,
         attempt' \in [pc : {"none", "backoff", "fetch", "fetching", "connect"},
                       url : 1 .. URLs + 1, late : BOOLEAN],
         main' \in {main, "firstLoop", "ended"},
         main' = "firstLoop" => main \in {"first", "firstLoop"},
         AttemptInv', attempt'.late => attempt'.pc = "fetch" /\ Cancelled'
  PROVE  IInv'
<1>1. /\ UNCHANGED <<connector, made, conn, stopped>>
      /\ UNCHANGED <<monitorCtx, cancelled, monitor>>
      /\ UNCHANGED <<waiter, reconCancelled, sigterm>>
      /\ UNCHANGED <<blocked, deadURLs>>
  BY DEF current, monitors, signals
<1>2. TypeOK'
  BY <1>1 DEF IInv, TypeOK
<1>3. CurrentInv' /\ StoppedInv'
  BY <1>1 DEF IInv, CurrentInv, StoppedInv
<1> QED
  BY <1>2, <1>3 DEF IInv, LateInv

\* An attempt that fails, for whatever reason.
LEMMA FailsStep ==
  ASSUME IInv, attempt.pc # "none", AttemptFails \/ End,
         UNCHANGED <<current, monitors, signals, blocked, deadURLs>>
  PROVE  IInv'
<1>1. CASE End
  <2>1. attempt' = [pc |-> "none", url |-> 1, late |-> FALSE] /\ main' = "ended"
    BY <1>1 DEF End, None
  <2>2. attempt' \in [pc : {"none", "backoff", "fetch", "fetching", "connect"},
                      url : 1 .. URLs + 1, late : BOOLEAN]
    BY <2>1, Numbers
  <2> QED
    BY <2>1, <2>2, SearchStep DEF AttemptInv
<1>2. CASE /\ attempt' = [None EXCEPT !.pc = "backoff"]
           /\ main' = IF main = "first" THEN "firstLoop" ELSE main
  <2>1. attempt' = [pc |-> "backoff", url |-> 1, late |-> FALSE]
    BY <1>2 DEF None
  <2>2. attempt' \in [pc : {"none", "backoff", "fetch", "fetching", "connect"},
                      url : 1 .. URLs + 1, late : BOOLEAN]
    BY <2>1, Numbers
  <2>3. main \notin {"serve", "ended"} /\ main' \notin {"serve", "ended"}
    BY <1>2 DEF IInv, AttemptInv
  <2>4. AttemptInv'
    BY <2>1, <2>3 DEF AttemptInv
  <2> QED
    BY <1>2, <2>1, <2>2, <2>4, SearchStep
<1> QED
  BY <1>1, <1>2 DEF AttemptFails

\* The attempt goes on.
LEMMA AttemptStep ==
  ASSUME IInv, BackoffEnds \/ FetchFails \/ FetchLinks
               \/ (FetchBegins /\ ~Cancelled)
  PROVE  IInv'
<1>1. /\ UNCHANGED <<current, monitors, signals, blocked, deadURLs>>
      /\ main' = main /\ attempt.pc # "none"
  BY DEF BackoffEnds, FetchFails, FetchLinks, FetchBegins, Answers, AttemptFails
<1>2. Cancelled' = Cancelled
  BY <1>1 DEF Cancelled, current, signals
<1>3. attempt \in [pc : {"none", "backoff", "fetch", "fetching", "connect"},
                   url : 1 .. URLs + 1, late : BOOLEAN]
  BY DEF IInv, TypeOK
<1>4. /\ attempt' \in [pc : {"none", "backoff", "fetch", "fetching", "connect"},
                       url : 1 .. URLs + 1, late : BOOLEAN]
      /\ attempt'.pc # "none"
      /\ attempt'.pc = "fetching" => attempt'.url <= URLs
      /\ attempt'.late => attempt'.pc = "fetch" /\ Cancelled
  <2>1. CASE BackoffEnds
    <3>1. attempt' = [pc |-> "fetch", url |-> 1, late |-> Cancelled] /\ Cancelled \in BOOLEAN
      BY <2>1 DEF BackoffEnds, Cancelled
    <3> QED
      BY <3>1, Numbers
  <2>2. CASE FetchFails
    <3>1. /\ attempt.pc = "fetching" /\ attempt' = [attempt EXCEPT !.pc = "fetch", !.url = @ + 1]
          /\ attempt.url <= URLs /\ ~attempt.late
      BY <2>2 DEF FetchFails, IInv, AttemptInv, LateInv
    <3>2. attempt.url + 1 \in 1 .. URLs + 1
      BY <1>3, <3>1, SupervisorAssumption
    <3> QED
      BY <1>3, <3>1, <3>2
  <2>3. CASE FetchLinks
    <3>1. /\ attempt.pc = "fetching" /\ attempt' = [attempt EXCEPT !.pc = "connect"]
          /\ ~attempt.late
      BY <2>3 DEF FetchLinks, Answers, IInv, LateInv
    <3> QED
      BY <1>3, <3>1
  <2>4. CASE FetchBegins /\ ~Cancelled
    <3>1. /\ attempt.url <= URLs /\ attempt' = [attempt EXCEPT !.pc = "fetching"]
          /\ ~attempt.late
      BY <2>4 DEF FetchBegins, IInv, LateInv
    <3> QED
      BY <1>3, <3>1
  <2> QED
    BY <2>1, <2>2, <2>3, <2>4
<1>5. AttemptInv'
  BY <1>1, <1>4 DEF IInv, AttemptInv
<1> QED
  BY <1>1, <1>2, <1>4, <1>5, SearchStep

\* A connector is made when the one before it is stopped, and is not stopped itself.
LEMMA ConnectOkStep ==
  ASSUME IInv, ConnectOk
  PROVE  IInv'
<1>1. /\ attempt.pc = "connect" /\ made < MaxConnectors
      /\ made' = made + 1 /\ connector' = made + 1 /\ monitorCtx' = made + 1
      /\ conn' = [conn EXCEPT ![made + 1] = "up"]
      /\ monitor' = [monitor EXCEPT ![made + 1] = [pc |-> "busy", ctx |-> 0]]
      /\ blocked' = FALSE /\ main' = "serve"
      /\ attempt' = [pc |-> "none", url |-> 1, late |-> FALSE]
      /\ UNCHANGED <<stopped, cancelled, waiter, reconCancelled, sigterm, deadURLs>>
  BY DEF ConnectOk, NewCurrent, None, signals
<1>2. made \in 0 .. MaxConnectors /\ made + 1 \in Connectors /\ made + 1 \in 0 .. MaxConnectors
  BY <1>1, SupervisorAssumption DEF IInv, TypeOK, Connectors
<1>3. /\ attempt' \in [pc : {"none", "backoff", "fetch", "fetching", "connect"},
                       url : 1 .. URLs + 1, late : BOOLEAN]
      /\ [pc |-> "busy", ctx |-> 0] \in [pc : {"none", "busy", "wait", "ended"},
                                         ctx : 0 .. MaxConnectors]
  BY <1>1, Numbers
<1>4. TypeOK'
  BY <1>1, <1>2, <1>3 DEF IInv, TypeOK
<1>5. CurrentInv'
  BY <1>1, <1>2 DEF IInv, CurrentInv, TypeOK, Connectors
<1>6. main \notin {"serve", "ended"}
  BY <1>1 DEF IInv, AttemptInv
<1>7. made > 0 => made \in stopped
  BY <1>2, <1>6 DEF IInv, TypeOK, CurrentInv, StoppedInv
<1>8. made + 1 \notin stopped
  BY <1>2 DEF IInv, CurrentInv, Connectors
<1>9. StoppedInv'
  BY <1>1, <1>2, <1>7, <1>8 DEF IInv, StoppedInv, Connectors
<1>10. AttemptInv' /\ LateInv'
  BY <1>1 DEF AttemptInv, LateInv
<1> QED
  BY <1>4, <1>5, <1>9, <1>10 DEF IInv
------------------------------------------------------------------------------
(***************************************************************************)
(* The loop of main.                                                       *)
(***************************************************************************)
LEMMA TakeSignalStep ==
  ASSUME IInv, TakeSignal
  PROVE  IInv'
<1>1. /\ main' = "ended" /\ attempt' = [pc |-> "none", url |-> 1, late |-> FALSE]
      /\ sigterm' = FALSE
      /\ UNCHANGED <<connector, made, conn, stopped, monitorCtx, cancelled, monitor, waiter,
                     reconCancelled, blocked, deadURLs>>
  BY DEF TakeSignal, End, None, current, monitors
<1>2. attempt' \in [pc : {"none", "backoff", "fetch", "fetching", "connect"},
                    url : 1 .. URLs + 1, late : BOOLEAN]
  BY <1>1, Numbers
<1>3. TypeOK'
  BY <1>1, <1>2 DEF IInv, TypeOK
<1>4. AttemptInv' /\ LateInv'
  BY <1>1 DEF AttemptInv, LateInv
<1>5. CurrentInv' /\ StoppedInv'
  BY <1>1 DEF IInv, CurrentInv, StoppedInv
<1> QED
  BY <1>3, <1>4, <1>5 DEF IInv

LEMMA TakeFatalStep ==
  ASSUME IInv, TakeFatal
  PROVE  IInv'
<1>1. /\ main = "serve" /\ main' = "reconnect"
      /\ attempt' = [pc |-> "backoff", url |-> 1, late |-> FALSE]
      /\ cancelled' = cancelled \cup {made} /\ stopped' = stopped \cup {made}
      /\ waiter' = waiter \cup {made}
      /\ UNCHANGED <<connector, made, conn, monitorCtx, monitor, reconCancelled, sigterm,
                     blocked, deadURLs>>
  BY DEF TakeFatal, None, IInv, CurrentInv
<1>2. made \in Connectors
  BY <1>1, Numbers DEF IInv, TypeOK, CurrentInv
<1>3. attempt' \in [pc : {"none", "backoff", "fetch", "fetching", "connect"},
                    url : 1 .. URLs + 1, late : BOOLEAN]
  BY <1>1, Numbers
<1>4. TypeOK'
  BY <1>1, <1>2, <1>3 DEF IInv, TypeOK
<1>5. AttemptInv' /\ LateInv'
  BY <1>1 DEF AttemptInv, LateInv
<1>6. CurrentInv' /\ StoppedInv'
  BY <1>1, <1>2 DEF IInv, CurrentInv, StoppedInv, Connectors
<1> QED
  BY <1>4, <1>5, <1>6 DEF IInv
------------------------------------------------------------------------------
(***************************************************************************)
(* The goroutines that share the channel, and the world: none of them      *)
(* touches main's variables, and contexts are only ever cancelled.         *)
(***************************************************************************)
LEMMA AloneStep ==
  ASSUME IInv, UNCHANGED <<main, attempt, connector, made, stopped, monitorCtx>>,
         reconCancelled \subseteq reconCancelled', TypeOK',
         \A k \in Connectors : conn[k] = "none" => conn'[k] = "none",
         \A k \in Connectors : monitor[k].pc = "none" => monitor'[k].pc = "none"
  PROVE  IInv'
<1>1. AttemptInv' /\ StoppedInv'
  BY DEF IInv, AttemptInv, StoppedInv
<1>2. CurrentInv'
  BY DEF IInv, CurrentInv
<1>3. LateInv'
  BY DEF IInv, LateInv, Cancelled
<1> QED
  BY <1>1, <1>2, <1>3 DEF IInv

LEMMA GoroutineStep ==
  ASSUME IInv, NEW k \in Connectors, Goroutine(k)
  PROVE  IInv'
<1>1. /\ UNCHANGED <<main, attempt, connector, made, conn, stopped, monitorCtx, blocked,
                     deadURLs>>
  BY DEF Goroutine, WaiterTakesSignal, MonitorTick, MonitorWaits, MonitorTakesSignal,
         MonitorCancelled, search, current, monitors, signals
<1>2. /\ reconCancelled' \in {reconCancelled, reconCancelled \cup {k}}
      /\ waiter' \subseteq waiter /\ sigterm' \in {sigterm, FALSE}
  BY DEF Goroutine, WaiterTakesSignal, MonitorTick, MonitorWaits, MonitorTakesSignal,
         MonitorCancelled, monitors, signals
<1>3. /\ monitor' \in [Connectors -> [pc : {"none", "busy", "wait", "ended"},
                                      ctx : 0 .. MaxConnectors]]
      /\ \A j \in Connectors : monitor[j].pc = "none" => monitor'[j].pc = "none"
  <2>1. monitor \in [Connectors -> [pc : {"none", "busy", "wait", "ended"},
                                    ctx : 0 .. MaxConnectors]]
        /\ monitorCtx \in 0 .. MaxConnectors
    BY DEF IInv, TypeOK
  <2>2. CASE WaiterTakesSignal(k)
    BY <2>1, <2>2 DEF WaiterTakesSignal, monitors
  <2>3. CASE MonitorTick(k)
    BY <2>1, <2>3 DEF MonitorTick
  <2>4. CASE MonitorWaits(k)
    BY <2>1, <2>4 DEF MonitorWaits
  <2>5. CASE MonitorTakesSignal(k)
    BY <2>1, <2>5 DEF MonitorTakesSignal
  <2>6. CASE MonitorCancelled(k)
    BY <2>1, <2>6 DEF MonitorCancelled
  <2> QED
    BY <2>2, <2>3, <2>4, <2>5, <2>6 DEF Goroutine
<1>4. cancelled' \subseteq Connectors
  <2>1. CASE MonitorTakesSignal(k)
    <3>1. monitor[k].pc # "none" /\ k \in 1 .. MaxConnectors
      BY <2>1 DEF MonitorTakesSignal, Connectors
    <3>2. made > 0
      BY <3>1 DEF IInv, TypeOK, CurrentInv
    <3>3. monitorCtx \in Connectors
      BY <3>2, Numbers DEF IInv, TypeOK, CurrentInv
    <3> QED
      BY <2>1, <3>3 DEF MonitorTakesSignal, IInv, TypeOK
  <2>2. CASE cancelled' = cancelled
    BY <2>2 DEF IInv, TypeOK
  <2> QED
    BY <2>1, <2>2 DEF Goroutine, WaiterTakesSignal, MonitorTick, MonitorWaits,
                      MonitorCancelled, monitors
<1>5. TypeOK'
  BY <1>1, <1>2, <1>3, <1>4 DEF IInv, TypeOK
<1> QED
  BY <1>1, <1>2, <1>3, <1>5, AloneStep

LEMMA WorldStep ==
  ASSUME IInv, \/ Signal \/ \E u \in 1 .. URLs : ListDies(u)
               \/ \E k \in Connectors : Exhausted(k) \/ DiesSilently(k)
  PROVE  IInv'
<1>1. UNCHANGED <<main, attempt, connector, made, stopped, monitorCtx, cancelled, monitor,
                  waiter, reconCancelled>>
  BY DEF Signal, ListDies, Exhausted, DiesSilently, search, current, monitors, signals
<1>2. /\ sigterm' \in BOOLEAN /\ deadURLs' \subseteq 1 .. URLs
  BY DEF Signal, ListDies, Exhausted, DiesSilently, search, current, monitors, signals,
         IInv, TypeOK
<1>3. blocked' \in BOOLEAN
  BY SupervisorAssumption
  DEF Signal, ListDies, Exhausted, DiesSilently, IInv, TypeOK
<1>4. /\ conn' \in [Connectors -> {"none", "up", "exhausted", "silent"}]
      /\ \A k \in Connectors : conn[k] = "none" => conn'[k] = "none"
  BY DEF Signal, ListDies, Exhausted, DiesSilently, current, IInv, TypeOK
<1>5. TypeOK'
  BY <1>1, <1>2, <1>3, <1>4 DEF IInv, TypeOK
<1> QED
  BY <1>1, <1>4, <1>5, AloneStep
------------------------------------------------------------------------------
LEMMA InitInv == Init => IInv
<1> SUFFICES ASSUME Init PROVE IInv
  OBVIOUS
<1>1. attempt = [pc |-> "fetch", url |-> 1, late |-> FALSE]
  BY DEF Init, None
<1>2. attempt \in [pc : {"none", "backoff", "fetch", "fetching", "connect"},
                    url : 1 .. URLs + 1, late : BOOLEAN]
  BY <1>1, Numbers
<1>3. TypeOK
  BY <1>2, Numbers DEF Init, TypeOK
<1>4. CurrentInv /\ StoppedInv
  BY DEF Init, CurrentInv, StoppedInv, Connectors
<1> QED
  BY <1>1, <1>3, <1>4 DEF Init, IInv, AttemptInv, LateInv

LEMMA SearchInv ==
  ASSUME IInv, Search
  PROVE  IInv'
<1>1. CASE BackoffEnds \/ FetchFails \/ FetchLinks \/ (FetchBegins /\ ~Cancelled)
  BY <1>1, AttemptStep
<1>2. CASE \/ BackoffCancelled \/ GivesUp \/ NoLinks \/ FetchUseless \/ ConnectFails
           \/ (FetchBegins /\ Cancelled)
  <2>1. /\ attempt.pc # "none"
        /\ AttemptFails \/ End
        /\ UNCHANGED <<current, monitors, signals, blocked, deadURLs>>
    BY <1>2 DEF BackoffCancelled, GivesUp, NoLinks, FetchUseless, ConnectFails, FetchBegins,
                Answers
  <2> QED
    BY <2>1, FailsStep
<1>3. CASE ConnectOk
  BY <1>3, ConnectOkStep
<1> QED
  BY <1>1, <1>2, <1>3 DEF Search

LEMMA NextInv == IInv /\ [Next]_vars => IInv'
<1> SUFFICES ASSUME IInv, [Next]_vars PROVE IInv'
  OBVIOUS
<1>1. CASE Search
  BY <1>1, SearchInv
<1>2. CASE TakeSignal \/ TakeFatal
  BY <1>2, TakeSignalStep, TakeFatalStep
<1>3. ASSUME NEW k \in Connectors, Goroutine(k)
      PROVE  IInv'
  BY <1>3, GoroutineStep
<1>4. CASE \/ Signal \/ \E u \in 1 .. URLs : ListDies(u)
           \/ \E k \in Connectors : Exhausted(k) \/ DiesSilently(k)
  BY <1>4, WorldStep
<1>5. CASE UNCHANGED vars
  <2>1. UNCHANGED <<main, attempt, connector, made, conn, stopped, monitorCtx, cancelled,
                    monitor, waiter, reconCancelled, sigterm, blocked, deadURLs>>
    BY <1>5 DEF vars, search, current, monitors, signals
  <2>2. TypeOK'
    BY <2>1 DEF IInv, TypeOK
  <2> QED
    BY <2>1, <2>2, AloneStep
<1> QED
  BY <1>1, <1>2, <1>3, <1>4, <1>5 DEF Next

LEMMA Invariance == Spec => []IInv
<1> QED
  BY InitInv, NextInv, PTL DEF Spec
------------------------------------------------------------------------------
\* Every variable keeps its type: in particular main never reads or cancels a connector or a
\* monitor context it does not have.
THEOREM TypeCorrect == Spec => []TypeOK
<1>1. IInv => TypeOK
  BY DEF IInv
<1> QED
  BY <1>1, Invariance, PTL

\* After any number of reconnections the connector that may report a fatal error is the one
\* whose channel main selects on: the error is never sent where nobody listens
\* (the closure createConnector and the loop, main.go).
THEOREM FatalReachesMain == Spec => []FatalIsHeard
<1>1. IInv => FatalIsHeard
  <2> SUFFICES ASSUME IInv, main # "ended", NEW k \in Connectors, conn[k] = "exhausted",
                      k \notin stopped
               PROVE  main = "serve" /\ connector = k
    BY DEF FatalIsHeard
  <2>1. made \in 0 .. MaxConnectors /\ k \in 1 .. MaxConnectors
    BY DEF IInv, TypeOK, Connectors
  <2>2. k = made
    BY <2>1 DEF IInv, CurrentInv, StoppedInv
  <2>3. main = "serve"
    BY <2>1, <2>2 DEF IInv, TypeOK, CurrentInv, StoppedInv
  <2> QED
    BY <2>2, <2>3 DEF IInv, CurrentInv
<1> QED
  BY <1>1, Invariance, PTL

\* No connection comes from an attempt that began after its reconnection was cancelled,
\* however long the attempt takes (the context check of createConnector, main.go).
THEOREM CancelledConnectsNot == Spec => CancelledMeansNoConnection
<1>1. IInv /\ [Next]_vars => [ConnectOk => ~attempt.late]_vars
  <2> SUFFICES ASSUME IInv, ConnectOk
               PROVE  ~attempt.late
    OBVIOUS
  <2> QED
    BY DEF ConnectOk, IInv, LateInv
<1> QED
  BY <1>1, Invariance, PTL DEF Spec, CancelledMeansNoConnection
------------------------------------------------------------------------------
\* Monitor goroutines that have taken a signal or were told to end, and reconnections whose
\* goroutine has taken one.
Ended == {k \in Connectors : monitor[k].pc = "ended"}
Answered == stopped \ waiter

\* A signal that is taken ends main, or uses up for good a goroutine that can take none again:
\* no monitor and no reconnection's goroutine ever comes back.  With as many goroutines as
\* there were connectors, only so many signals are lost; what makes PatientOperatorStops
\* possible (the goroutines around createConnector, and the loop of main).
SignalUsesUpGoroutine ==
  [][ /\ Ended \subseteq Ended' /\ Answered \subseteq Answered'
      /\ sigterm /\ ~sigterm' => \/ main' = "ended"
                                 \/ Ended # Ended' \/ Answered # Answered' ]_vars

\* Only a stopped connector has a reconnection.
WaiterInv == waiter \subseteq stopped

LEMMA WaiterStep ==
  ASSUME WaiterInv, [Next]_vars
  PROVE  WaiterInv'
BY DEF WaiterInv, Next, Search, BackoffEnds, BackoffCancelled, GivesUp, FetchBegins, NoLinks,
       FetchFails, FetchUseless, FetchLinks, ConnectFails, ConnectOk, TakeSignal, TakeFatal,
       Goroutine, WaiterTakesSignal, MonitorTick, MonitorWaits, MonitorTakesSignal,
       MonitorCancelled, Signal, Exhausted, DiesSilently, ListDies,
       current, monitors, signals, vars

\* A step that leaves the signal alone.
LEMMA QuietStep ==
  ASSUME UNCHANGED <<monitor, stopped, waiter>>, ~sigterm \/ sigterm'
  PROVE  /\ Ended \subseteq Ended' /\ Answered \subseteq Answered'
         /\ ~(sigterm /\ ~sigterm')
BY DEF Ended, Answered

LEMMA GoroutineUsed ==
  ASSUME IInv, WaiterInv, NEW k \in Connectors, Goroutine(k)
  PROVE  /\ Ended \subseteq Ended' /\ Answered \subseteq Answered'
         /\ sigterm /\ ~sigterm' => Ended # Ended' \/ Answered # Answered'
<1>1. monitor \in [Connectors -> [pc : {"none", "busy", "wait", "ended"},
                                  ctx : 0 .. MaxConnectors]]
  BY DEF IInv, TypeOK
<1>2. CASE WaiterTakesSignal(k)
  <2>1. UNCHANGED <<monitor, stopped>> /\ k \in waiter /\ waiter' = waiter \ {k}
    BY <1>2 DEF WaiterTakesSignal, current, monitors
  <2>2. k \in Answered' /\ k \notin Answered
    BY <2>1 DEF WaiterInv, Answered
  <2> QED
    BY <2>1, <2>2 DEF Ended, Answered
<1>3. CASE MonitorTick(k) \/ MonitorWaits(k)
  <2>1. UNCHANGED <<stopped, waiter, sigterm>> /\ monitor[k].pc # "ended"
    BY <1>3 DEF MonitorTick, MonitorWaits, current, signals
  <2>2. \A j \in Connectors \ {k} : monitor'[j] = monitor[j]
    BY <1>1, <1>3 DEF MonitorTick, MonitorWaits
  <2> QED
    BY <2>1, <2>2 DEF Ended, Answered
<1>4. CASE MonitorTakesSignal(k) \/ MonitorCancelled(k)
  <2>1. UNCHANGED <<stopped, waiter>> /\ monitor[k].pc # "ended"
    BY <1>4 DEF MonitorTakesSignal, MonitorCancelled, current, signals
  <2>2. monitor'[k].pc = "ended" /\ \A j \in Connectors \ {k} : monitor'[j] = monitor[j]
    BY <1>1, <1>4 DEF MonitorTakesSignal, MonitorCancelled
  <2>3. k \in Ended' /\ k \notin Ended
    BY <2>1, <2>2 DEF Ended
  <2> QED
    BY <2>1, <2>2, <2>3 DEF Ended, Answered
<1> QED
  BY <1>2, <1>3, <1>4 DEF Goroutine

\* Nobody takes two signals, however the monitors, the reconnections and main race for them:
\* signals are lost only to goroutines that are used up by them.
THEOREM SignalsUseUpGoroutines == Spec => SignalUsesUpGoroutine
<1> DEFINE Uses ==
      /\ Ended \subseteq Ended' /\ Answered \subseteq Answered'
      /\ sigterm /\ ~sigterm' => \/ main' = "ended"
                                 \/ Ended # Ended' \/ Answered # Answered'
<1>1. Init => WaiterInv
  BY DEF Init, WaiterInv
<1>2. WaiterInv /\ [Next]_vars => WaiterInv'
  BY WaiterStep
<1>3. IInv /\ WaiterInv /\ [Next]_vars => [Uses]_vars
  <2> SUFFICES ASSUME IInv, WaiterInv, Next PROVE Uses
    OBVIOUS
  <2>1. CASE Search /\ ~ConnectOk
    <3>1. UNCHANGED <<monitor, stopped, waiter, sigterm>>
      BY <2>1 DEF Search, BackoffEnds, BackoffCancelled, GivesUp, FetchBegins, NoLinks,
                  FetchFails, FetchUseless, FetchLinks, ConnectFails, current, monitors, signals
    <3> QED
      BY <3>1, QuietStep
  <2>2. CASE ConnectOk
    <3>1. /\ UNCHANGED <<stopped, waiter, sigterm>> /\ made + 1 \in Connectors
          /\ monitor' = [monitor EXCEPT ![made + 1] = [pc |-> "busy", ctx |-> 0]]
      BY <2>2, SupervisorAssumption DEF ConnectOk, signals, IInv, TypeOK, Connectors
    <3>2. monitor[made + 1].pc = "none"
      BY <3>1 DEF IInv, TypeOK, CurrentInv, Connectors
    <3>3. \A k \in Connectors : monitor[k].pc = "ended" => monitor'[k] = monitor[k]
      BY <3>1, <3>2 DEF IInv, TypeOK
    <3> QED
      BY <3>1, <3>3 DEF Ended, Answered
  <2>3. CASE TakeSignal
    <3>1. UNCHANGED <<monitor, stopped, waiter>> /\ main' = "ended"
      BY <2>3 DEF TakeSignal, End, current, monitors
    <3> QED
      BY <3>1 DEF Ended, Answered
  <2>4. CASE TakeFatal
    <3>1. /\ UNCHANGED <<monitor, sigterm>>
          /\ stopped' = stopped \cup {connector} /\ waiter' = waiter \cup {connector}
          /\ connector \notin stopped
      BY <2>4 DEF TakeFatal
    <3> QED
      BY <3>1 DEF Ended, Answered
  <2>5. CASE \/ Signal \/ \E u \in 1 .. URLs : ListDies(u)
             \/ \E k \in Connectors : Exhausted(k) \/ DiesSilently(k)
    <3>1. CASE Signal
      BY <3>1, QuietStep DEF Signal, current, monitors
    <3>2. CASE \E u \in 1 .. URLs : ListDies(u)
      BY <3>2, QuietStep DEF ListDies, current, monitors, signals
    <3>3. CASE \E k \in Connectors : Exhausted(k) \/ DiesSilently(k)
      <4>1. UNCHANGED <<monitor, stopped, waiter, sigterm>>
        BY <3>3 DEF Exhausted, DiesSilently, monitors, signals
      <4> QED
        BY <4>1, QuietStep
    <3> QED
      BY <2>5, <3>1, <3>2, <3>3
  <2>6. ASSUME NEW k \in Connectors, Goroutine(k)
        PROVE  Uses
    BY <2>6, GoroutineUsed
  <2> QED
    BY <2>1, <2>2, <2>3, <2>4, <2>5, <2>6 DEF Next
<1> QED
  BY <1>1, <1>2, <1>3, Invariance, PTL DEF Spec, SignalUsesUpGoroutine
==============================================================================
