------------------------------- MODULE Failover -------------------------------
(***************************************************************************)
(* VPNConnector and its HealthChecker (src/pkg/client/vpn_connector.go and *)
(* health_checker.go): the first connection with fallback, one health      *)
(* checker per connected server, the failover that runs in the checker's   *)
(* goroutine, and Stop.  The Client is seen through Connect and            *)
(* Disconnect: its mutex, isConnected and the server xray talks to (module *)
(* TunnelClient has the rest).  Every Connect runs in a goroutine of its   *)
(* own, which a timeout abandons but does not stop.                        *)
(*                                                                         *)
(* Servers are numbered from 1 in the order of the list, so that           *)
(* currentServerIndex is 0 before the first connection (-1 in the code).   *)
(***************************************************************************)
EXTENDS Integers

CONSTANTS
  N,           \* length of the server list
  MaxFailures  \* maxRetries of the health checker

ASSUME FailoverAssumption == N \in Nat \ {0} /\ MaxFailures \in Nat \ {0}

Servers == 1 .. N

VARIABLES
  \* the Client
  mutex,        \* the goroutine in Connect that holds c.mu, 0 if none
  isConnected,  \* c.isConnected
  xServer,      \* the server of the running xray instance, 0 if none
  connect,      \* the goroutine that calls Connect for each server
  \* the world and the configuration
  dead,         \* servers that will never answer again
  e2e,          \* an E2E check URL is configured
  \* the connector
  fallback,     \* ConnectWithFallback: where it is and the server it tries
  currentServerIndex, isFailingOver,
  ctx,          \* c.ctx and c.cancelFunc: 0 from the constructor, then the
                \* server for which performFailover made a new one
  cancelled,    \* the contexts cancelled so far
  healthChecker,\* c.healthChecker: the server it was made for, 0 for nil
  checker,      \* the health checker made for each server, and its goroutine
  fatalErrCh,   \* ErrAllServersExhausted is in the channel
  stopped,      \* Stop has been called
  abandoned     \* history: Connect goroutines nobody waits for any more

client    == <<mutex, isConnected, xServer>>
world     == <<dead, e2e>>
connector == <<currentServerIndex, isFailingOver, ctx, cancelled, healthChecker,
               fatalErrCh>>
vars == <<client, connect, world, fallback, connector, checker, stopped, abandoned>>
------------------------------------------------------------------------------
NoChecker == [pc |-> "none", ctx |-> 0, stopCh |-> FALSE, isHealthy |-> FALSE,
              failures |-> 0, once |-> FALSE]

\* Faulty: isHealthy is left at its zero value.
NewHealthCheckerUnhealthy ==
  [pc |-> "running", ctx |-> ctx, stopCh |-> FALSE, isHealthy |-> FALSE,
   failures |-> 0, once |-> FALSE]

\* NewHealthChecker and Start: the goroutine watches the connector's context.
NewHealthChecker ==
  [pc |-> "running", ctx |-> ctx, stopCh |-> FALSE, isHealthy |-> TRUE,
   failures |-> 0, once |-> FALSE]

Init ==
  /\ mutex = 0 /\ isConnected = FALSE /\ xServer = 0
  /\ connect = [i \in Servers |-> "none"]
  /\ dead = {} /\ e2e \in BOOLEAN
  /\ fallback = [pc |-> "try", server |-> 1]
  /\ currentServerIndex = 0 /\ isFailingOver = FALSE
  /\ ctx = 0 /\ cancelled = {}
  /\ healthChecker = 0
  /\ checker = [i \in Servers |-> NoChecker]
  /\ fatalErrCh = FALSE
  /\ stopped = FALSE
  /\ abandoned = {}
------------------------------------------------------------------------------
(***************************************************************************)
(* Client.Connect for server i, in its goroutine.  A connected client is   *)
(* disconnected first, with c.mu released around the call.                 *)
(***************************************************************************)
ConnectGoto(i, from, to) == connect[i] = from /\ connect' = [connect EXCEPT ![i] = to]

ConnectLock(i) ==
  /\ mutex = 0
  /\ \/ isConnected  /\ ConnectGoto(i, "start", "drop") /\ UNCHANGED mutex
     \/ ~isConnected /\ ConnectGoto(i, "start", "body") /\ mutex' = i
  /\ UNCHANGED <<isConnected, xServer, world, fallback, connector, checker, stopped,
                 abandoned>>

ConnectDrop(i) ==
  /\ mutex = 0
  /\ ConnectGoto(i, "drop", "relock")
  /\ isConnected' = FALSE
  /\ xServer' = IF isConnected THEN 0 ELSE xServer
  /\ UNCHANGED <<mutex, world, fallback, connector, checker, stopped, abandoned>>

ConnectRelock(i) ==
  /\ mutex = 0
  /\ ConnectGoto(i, "relock", "body")
  /\ mutex' = i
  /\ UNCHANGED <<isConnected, xServer, world, fallback, connector, checker, stopped,
                 abandoned>>

ConnectEnds(i) ==
  /\ \/ ConnectGoto(i, "body", "ok") /\ isConnected' = TRUE /\ xServer' = i
     \/ ConnectGoto(i, "body", "err") /\ UNCHANGED <<isConnected, xServer>>
  /\ mutex' = 0
  /\ UNCHANGED <<world, fallback, connector, checker, stopped, abandoned>>

ConnectStep(i) ==
  ConnectLock(i) \/ ConnectDrop(i) \/ ConnectRelock(i) \/ ConnectEnds(i)

Disconnect ==
  /\ mutex = 0
  /\ isConnected' = FALSE
  /\ xServer' = IF isConnected THEN 0 ELSE xServer
  /\ UNCHANGED mutex

ServerDies(i) ==
  /\ i \notin dead
  /\ dead' = dead \cup {i}
  /\ UNCHANGED <<client, connect, e2e, fallback, connector, checker, stopped, abandoned>>
------------------------------------------------------------------------------
(***************************************************************************)
(* ConnectWithFallback.                                                    *)
(***************************************************************************)
StartHealthMonitoring(i) ==
  /\ healthChecker' = i
  /\ checker' = [k \in Servers |->
       IF k = i THEN NewHealthChecker
       ELSE IF k = healthChecker THEN [checker[k] EXCEPT !.stopCh = TRUE]
       ELSE checker[k]]

FallbackTry ==
  /\ fallback.pc = "try"
  /\ LET i == fallback.server IN
     \/ /\ i > N \/ ctx \in cancelled
        /\ fallback' = [fallback EXCEPT !.pc = "failed"]
        /\ UNCHANGED connect
     \/ /\ i <= N /\ ctx \notin cancelled
        /\ connect' = [connect EXCEPT ![i] = "start"]
        /\ fallback' = [fallback EXCEPT !.pc = "wait"]
  /\ UNCHANGED <<client, world, connector, checker, stopped, abandoned>>

FallbackNext == fallback' = [pc |-> "try", server |-> fallback.server + 1]

\* Faulty: the index of the connected server is not recorded.
FallbackConnectedNoIndex ==
  /\ fallback.pc = "wait" /\ connect[fallback.server] = "ok"
  /\ fallback' = [fallback EXCEPT !.pc = "done"]
  /\ UNCHANGED <<currentServerIndex, ctx>>
  /\ StartHealthMonitoring(fallback.server)
  /\ UNCHANGED <<client, connect, world, isFailingOver, cancelled, fatalErrCh, stopped,
                 abandoned>>

FallbackConnected ==
  /\ fallback.pc = "wait" /\ connect[fallback.server] = "ok"
  /\ fallback' = [fallback EXCEPT !.pc = "done"]
  /\ currentServerIndex' = fallback.server
  /\ UNCHANGED ctx
  /\ StartHealthMonitoring(fallback.server)
  /\ UNCHANGED <<client, connect, world, isFailingOver, cancelled, fatalErrCh, stopped,
                 abandoned>>

FallbackFailed ==
  /\ fallback.pc = "wait" /\ connect[fallback.server] = "err"
  /\ FallbackNext
  /\ UNCHANGED <<client, connect, world, connector, checker, stopped, abandoned>>

\* 30 seconds have passed; the goroutine goes on.
FallbackTimeout ==
  /\ fallback.pc = "wait"
  /\ FallbackNext
  /\ abandoned' = abandoned \cup {fallback.server}
  /\ UNCHANGED <<client, connect, world, connector, checker, stopped>>

FallbackStep ==
  FallbackTry \/ FallbackConnected \/ FallbackFailed \/ FallbackTimeout
------------------------------------------------------------------------------
(***************************************************************************)
(* HealthChecker: the loop of the checker made for server k.  Every tick   *)
(* looks at the context and stopChan once more; the check itself can last  *)
(* several seconds and is not interrupted.                                 *)
(***************************************************************************)
Told(k) == checker[k].ctx \in cancelled \/ checker[k].stopCh

\* The local SOCKS proxy answers while xray runs; the E2E check needs the server too.
CheckCanPass == xServer # 0 /\ (e2e => xServer \notin dead)

CheckerExit(k) ==
  /\ checker[k].pc = "running" /\ Told(k)
  /\ checker' = [checker EXCEPT ![k].pc = "exited"]
  /\ UNCHANGED <<client, connect, world, fallback, connector, stopped, abandoned>>

CheckBegins(k) ==
  /\ checker[k].pc = "running" /\ ~Told(k)
  /\ checker' = [checker EXCEPT ![k].pc = "checking"]
  /\ UNCHANGED <<client, connect, world, fallback, connector, stopped, abandoned>>

MarkHealthy(k) ==
  /\ checker[k].pc = "checking" /\ CheckCanPass
  /\ checker' = [checker EXCEPT ![k].pc = "running", ![k].isHealthy = TRUE,
                                ![k].failures = 0]
  /\ UNCHANGED <<client, connect, world, fallback, connector, stopped, abandoned>>

\* consecutiveFailures saturates at MaxFailures: the code only asks whether it is below.
HandleUnhealthy(k) ==
  LET failures == IF checker[k].failures < MaxFailures
                  THEN checker[k].failures + 1 ELSE MaxFailures
      over     == failures = MaxFailures
  IN
  /\ checker[k].pc = "checking"
  /\ checker' = [checker EXCEPT
       ![k].failures  = failures,
       ![k].isHealthy = @ /\ ~over,
       ![k].pc        = IF over /\ checker[k].isHealthy THEN "callback" ELSE "running"]
  /\ UNCHANGED <<client, connect, world, fallback, connector, stopped, abandoned>>

CheckerStep(k) ==
  CheckerExit(k) \/ CheckBegins(k) \/ MarkHealthy(k) \/ HandleUnhealthy(k)
------------------------------------------------------------------------------
(***************************************************************************)
(* performFailover, in the goroutine of checker k.                         *)
(***************************************************************************)
\* failoverOnce, the isFailingOver guard, and the cancellation of the old context.
FailoverEnter(k) ==
  /\ checker[k].pc = "callback"
  /\ checker' = [checker EXCEPT ![k].once = TRUE,
       ![k].pc = IF checker[k].once \/ isFailingOver THEN "running" ELSE "pick"]
  /\ IF checker[k].once \/ isFailingOver
     THEN UNCHANGED <<isFailingOver, cancelled>>
     ELSE isFailingOver' = TRUE /\ cancelled' = cancelled \cup {ctx}
  /\ UNCHANGED <<client, connect, world, fallback, currentServerIndex, ctx,
                 healthChecker, fatalErrCh, stopped, abandoned>>

\* The end of performFailover: the deferred reset of isFailingOver, then back in the
\* loop.  Nothing blocks in between, and a new checker needs MaxFailures ticks of 10s
\* before its callback, so the reset is part of the step that decides to return.
FailoverReturn == isFailingOver' = FALSE

\* No server after the current one: return without a word.
FailoverNoNext(k) ==
  /\ checker[k].pc = "pick" /\ N <= currentServerIndex
  /\ checker' = [checker EXCEPT ![k].pc = "running"]
  /\ FailoverReturn
  /\ UNCHANGED <<client, connect, world, fallback, currentServerIndex, ctx, cancelled,
                 healthChecker, fatalErrCh, stopped, abandoned>>

\* Faulty: the index may move one past the end of the list.
FailoverStopCheckerPastEnd(k) ==
  /\ checker[k].pc = "pick" /\ N >= currentServerIndex
  /\ checker' = [i \in Servers |->
       [checker[i] EXCEPT !.stopCh = @ \/ i = healthChecker,
                          !.pc = IF i = k THEN "disconnect" ELSE @]]
  /\ healthChecker' = 0
  /\ UNCHANGED <<client, connect, world, fallback, currentServerIndex, isFailingOver,
                 ctx, cancelled, fatalErrCh, stopped, abandoned>>

FailoverStopChecker(k) ==
  /\ checker[k].pc = "pick" /\ N > currentServerIndex
  /\ checker' = [i \in Servers |->
       [checker[i] EXCEPT !.stopCh = @ \/ i = healthChecker,
                          !.pc = IF i = k THEN "disconnect" ELSE @]]
  /\ healthChecker' = 0
  /\ UNCHANGED <<client, connect, world, fallback, currentServerIndex, isFailingOver,
                 ctx, cancelled, fatalErrCh, stopped, abandoned>>

\* Faulty: the new context is derived from the one that was just cancelled.
FailoverConnectOldContext(k) ==
  LET next == currentServerIndex + 1 IN
  /\ checker[k].pc = "disconnect"
  /\ Disconnect
  /\ ctx' = next
  /\ cancelled' = cancelled \cup {next}
  /\ currentServerIndex' = next
  /\ connect' = [connect EXCEPT ![next] = "start"]
  /\ checker' = [checker EXCEPT ![k].pc = "wait"]
  /\ UNCHANGED <<world, fallback, isFailingOver, healthChecker, fatalErrCh, stopped,
                 abandoned>>

\* Faulty: the server after the next one is taken.
FailoverConnectSkips(k) ==
  LET next == IF currentServerIndex + 2 <= N THEN currentServerIndex + 2
                                             ELSE currentServerIndex + 1 IN
  /\ checker[k].pc = "disconnect"
  /\ Disconnect
  /\ ctx' = next
  /\ currentServerIndex' = next
  /\ connect' = [connect EXCEPT ![next] = "start"]
  /\ checker' = [checker EXCEPT ![k].pc = "wait"]
  /\ UNCHANGED <<world, fallback, isFailingOver, cancelled, healthChecker, fatalErrCh,
                 stopped, abandoned>>

FailoverConnect(k) ==
  LET next == currentServerIndex + 1 IN
  /\ checker[k].pc = "disconnect"
  /\ Disconnect
  /\ ctx' = next
  /\ currentServerIndex' = next
  /\ connect' = [connect EXCEPT ![next] = "start"]
  /\ checker' = [checker EXCEPT ![k].pc = "wait"]
  /\ UNCHANGED <<world, fallback, isFailingOver, cancelled, healthChecker, fatalErrCh,
                 stopped, abandoned>>

FailoverConnected(k) ==
  /\ checker[k].pc = "wait" /\ connect[ctx] = "ok"
  /\ healthChecker' = ctx
  /\ checker' = [checker EXCEPT ![k].pc = "running", ![ctx] = NewHealthChecker]
  /\ FailoverReturn
  /\ UNCHANGED <<client, connect, world, fallback, currentServerIndex, ctx, cancelled,
                 fatalErrCh, stopped, abandoned>>

\* Faulty: the last server is taken for exhausted before it is tried.
RemainingServersOffByOne == currentServerIndex < N - 1

RemainingServers == currentServerIndex < N

\* Connect failed, or Stop has cancelled the new context: next server or fatal error.
FailoverFailed(k) ==
  /\ checker[k].pc = "wait"
  /\ \/ connect[ctx] = "err" /\ UNCHANGED abandoned
     \/ ctx \in cancelled /\ abandoned' = abandoned \cup {ctx}
  /\ \/ /\ RemainingServers
        /\ checker' = [checker EXCEPT ![k].pc = "pick"]
        /\ UNCHANGED <<isFailingOver, fatalErrCh>>
     \/ /\ ~RemainingServers
        /\ checker' = [checker EXCEPT ![k].pc = "running"]
        /\ fatalErrCh' = TRUE
        /\ FailoverReturn
  /\ UNCHANGED <<client, connect, world, fallback, currentServerIndex, ctx, cancelled,
                 healthChecker, stopped>>

FailoverStep(k) ==
  \/ FailoverEnter(k) \/ FailoverNoNext(k) \/ FailoverStopChecker(k)
  \/ FailoverConnect(k) \/ FailoverConnected(k) \/ FailoverFailed(k)

\* Stop, called by main once ConnectWithFallback has returned: stop the checker and
\* cancel the context that are current now.  The reconnector field is never set.
Stop ==
  /\ fallback.pc \in {"done", "failed"} /\ ~stopped
  /\ stopped' = TRUE
  /\ checker' = [k \in Servers |-> [checker[k] EXCEPT !.stopCh = @ \/ k = healthChecker]]
  /\ cancelled' = cancelled \cup {ctx}
  /\ UNCHANGED <<client, connect, world, fallback, currentServerIndex, isFailingOver,
                 ctx, healthChecker, fatalErrCh, abandoned>>
------------------------------------------------------------------------------
Next ==
  \/ FallbackStep
  \/ \E i \in Servers : ConnectStep(i) \/ CheckerStep(i) \/ FailoverStep(i)
                        \/ ServerDies(i)
  \/ Stop

\* Goroutines are scheduled, tickers fire, checks and Connect come to an end.  No
\* fairness for the 30s timeout, for a server that dies or for Stop.
Fairness ==
  /\ WF_vars(FallbackTry \/ FallbackConnected \/ FallbackFailed)
  /\ \A i \in Servers : /\ WF_vars(ConnectStep(i))
                        /\ WF_vars(CheckerStep(i))
                        /\ WF_vars(FailoverStep(i))

Spec == Init /\ [][Next]_vars /\ Fairness
------------------------------------------------------------------------------
(***************************************************************************)
(* Properties                                                              *)
(***************************************************************************)
\* Every variable holds a value of its type.
TypeOK ==
  /\ mutex \in 0 .. N /\ isConnected \in BOOLEAN /\ xServer \in 0 .. N
  /\ connect \in [Servers -> {"none", "start", "drop", "relock", "body", "ok", "err"}]
  /\ dead \subseteq Servers /\ e2e \in BOOLEAN
  /\ fallback \in [pc : {"try", "wait", "done", "failed"}, server : 1 .. N + 1]
  /\ currentServerIndex \in 0 .. N /\ isFailingOver \in BOOLEAN
  /\ ctx \in 0 .. N /\ cancelled \subseteq 0 .. N
  /\ healthChecker \in 0 .. N
  /\ checker \in [Servers -> [pc : {"none", "running", "checking", "exited", "callback",
                                    "pick", "disconnect", "wait"},
                              ctx : 0 .. N, stopCh : BOOLEAN, isHealthy : BOOLEAN,
                              failures : 0 .. MaxFailures, once : BOOLEAN]]
  /\ fatalErrCh \in BOOLEAN
  /\ stopped \in BOOLEAN
  /\ abandoned \subseteq Servers

\* A checker that can still trigger a failover.
Live(k) == /\ checker[k].pc \in {"running", "checking", "callback"}
           /\ ~Told(k) /\ ~checker[k].once

\* Nothing is under way: connected once, no failover, no verdict.
Settled == fallback.pc = "done" /\ ~isFailingOver /\ ~fatalErrCh

\* While a server is left to fail over to, the current one is watched by exactly one
\* checker that can still trigger the failover: stopping the old checker, cancelling its
\* context, making a new context and starting the new checker never leave a gap.
MonitoredUnlessLast ==
  Settled /\ ~stopped /\ currentServerIndex < N
    => /\ Live(currentServerIndex)
       /\ healthChecker = currentServerIndex
       /\ \A k \in Servers : Live(k) => k = currentServerIndex

\* The connector and the Client agree on the server, as long as no Connect goroutine
\* was left behind by a timeout or a cancellation.
AgreeUnlessAbandoned ==
  Settled /\ abandoned = {} => isConnected /\ xServer = currentServerIndex

\* ErrAllServersExhausted is sent only when the last server has been tried, the Client
\* is down unless an abandoned Connect came through, and no checker of this connector
\* can start a failover on the Client its successor will use.
FatalMeansExhausted ==
  fatalErrCh =>
    /\ currentServerIndex = N /\ \A i \in Servers : connect[i] # "none"
    /\ abandoned = {} => ~isConnected
    /\ ~isFailingOver /\ \A k \in Servers : ~Live(k)

\* ConnectWithFallback or a failover waits for the Connect it has started.
Waiting == fallback.pc = "wait" \/ \E k \in Servers : checker[k].pc = "wait"

\* OrderedWalk, with what a caller of the connector sees for its state.
Walk == INSTANCE OrderedWalk WITH
  offered <- {i \in Servers : connect[i] # "none"},
  phase   <- IF fatalErrCh THEN "exhausted"
             ELSE IF fallback.pc = "failed" THEN "failed"
             ELSE IF Waiting THEN "offering"
             ELSE IF fallback.pc = "done" /\ ~isFailingOver THEN "serving"
             ELSE "searching"

\* The connector implements OrderedWalk: ConnectWithFallback and every failover, with
\* their timeouts, abandoned goroutines and Stop at any time, offer the servers in order
\* and once, give up when all were tried, and every search ends.
ImplementsOrderedWalk == Walk!Spec

\* With the E2E check on, a dead server is left while another one remains.
DeadServerIsLeft ==
  \A i \in 1 .. N - 1 :
    e2e /\ Settled /\ currentServerIndex = i /\ i \in dead /\ abandoned = {}
      ~> currentServerIndex # i \/ stopped

\* CHANGELOG.md:12 and the comment of FatalError (vpn_connector.go:57): when the servers
\* of the list are exhausted the connector says so, and the client reconnects.  So a
\* dead last server is reported, or the connector is stopped.
ExhaustionIsReported ==
  e2e /\ Settled /\ currentServerIndex = N /\ N \in dead /\ abandoned = {}
    ~> fatalErrCh \/ stopped
==============================================================================
