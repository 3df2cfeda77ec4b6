---------------------------- MODULE FailoverProofs ----------------------------
(***************************************************************************)
(* Proofs about Failover, for every list of servers and every number of    *)
(* failed checks: types, exhaustion, monitoring, agreement with the        *)
(* Client, the safety part of the refinement of OrderedWalk, the order of  *)
(* the attempts and the owner of c.mu.                                     *)
(***************************************************************************)
EXTENDS Failover, TLAPS

InFailover == {"pick", "disconnect", "wait"}

\* Before the first connection there is nothing to watch and nothing to cancel, and
\* ConnectWithFallback gives up only past the end of the list.
FallbackInv ==
  /\ fallback.pc # "done" =>
       /\ currentServerIndex = 0 /\ ctx = 0 /\ healthChecker = 0
       /\ ~isFailingOver /\ ~fatalErrCh
       /\ \A k \in Servers : checker[k].pc = "none"
  /\ fallback.pc \in {"try", "wait"} => cancelled = {} /\ ~stopped
  /\ fallback.pc = "wait" => fallback.server <= N
  /\ fallback.pc = "failed" => fallback.server = N + 1

\* How far down the list a Connect has been started.
Reached == IF fallback.pc = "done" THEN currentServerIndex
           ELSE IF fallback.pc = "wait" THEN fallback.server
           ELSE fallback.server - 1

OfferedInv ==
  /\ \A i \in Servers : connect[i] # "none" <=> i <= Reached
  /\ fallback.pc = "done" => currentServerIndex \in Servers

\* isFailingOver stands for one checker that is in performFailover.
FailingInv ==
  /\ isFailingOver <=> \E k \in Servers : checker[k].pc \in InFailover
  /\ \A j, k \in Servers :
       checker[j].pc \in InFailover /\ checker[k].pc \in InFailover => j = k
  /\ \A k \in Servers : checker[k].pc = "disconnect" => currentServerIndex < N
  /\ fatalErrCh => currentServerIndex = N /\ ~isFailingOver

\* The contexts that were cancelled are not newer than the current one.
ContextInv ==
  /\ ctx <= currentServerIndex
  /\ \A c \in cancelled : c <= currentServerIndex
  /\ \A k \in Servers : checker[k].pc = "wait" =>
       ctx = currentServerIndex /\ (~stopped => ctx \notin cancelled)

\* Every checker but the one of the current server has had its failover, and a new one
\* is made only for a server that had none.
OnceInv ==
  \A k \in Servers : checker[k].pc # "none" =>
    /\ k <= currentServerIndex
    /\ ~checker[k].once => k = currentServerIndex /\ ~isFailingOver /\ ~fatalErrCh
    /\ \A j \in Servers : checker[j].pc = "wait" => k < currentServerIndex

\* The current server is watched by a checker that can still act.
MonitorInv ==
  Settled /\ ~stopped /\ currentServerIndex < N =>
    /\ Live(currentServerIndex)
    /\ checker[currentServerIndex].ctx = ctx
    /\ healthChecker = currentServerIndex

Pending == {"start", "drop", "relock", "body"}

\* The server whose Connect somebody waits for, 0 if nobody does.
Awaited == IF fallback.pc = "wait" THEN fallback.server
           ELSE IF \E k \in Servers : checker[k].pc = "wait" THEN currentServerIndex
           ELSE 0

\* As long as no Connect is abandoned, one that runs is waited for, and what it has done
\* to the Client is what the connector believes.
AgreeInv ==
  abandoned = {} =>
    /\ \A i \in Servers : connect[i] \in Pending => i = Awaited
    /\ Settled => isConnected /\ xServer = currentServerIndex
    /\ Awaited # 0 => IF connect[Awaited] = "ok" THEN isConnected /\ xServer = Awaited
                      ELSE ~isConnected
    /\ fallback.pc \in {"try", "failed"} \/ fatalErrCh => ~isConnected
    /\ currentServerIndex = N /\ (\E k \in Servers : checker[k].pc = "pick")
         => isConnected /\ xServer = currentServerIndex

IInv == /\ TypeOK /\ FallbackInv /\ OfferedInv /\ FailingInv /\ ContextInv /\ OnceInv
        /\ MonitorInv /\ AgreeInv
------------------------------------------------------------------------------
\* The next-state relation as the proofs take it apart.
LEMMA NextCases ==
  ASSUME [Next]_vars
  PROVE  \/ \E i \in Servers : ConnectStep(i) \/ CheckerStep(i) \/ ServerDies(i)
         \/ FallbackTry \/ FallbackConnected \/ FallbackFailed \/ FallbackTimeout
         \/ \E k \in Servers : \/ FailoverEnter(k) \/ FailoverNoNext(k)
                                \/ FailoverStopChecker(k) \/ FailoverConnect(k)
                                \/ FailoverConnected(k) \/ FailoverFailed(k)
         \/ Stop
         \/ UNCHANGED vars
BY DEF Next, FallbackStep, FailoverStep

\* The types of a checker and of ConnectWithFallback.
Pcs == {"none", "running", "checking", "exited", "callback", "pick", "disconnect", "wait"}
Checkers == [pc : Pcs, ctx : 0 .. N, stopCh : BOOLEAN, isHealthy : BOOLEAN,
             failures : 0 .. MaxFailures, once : BOOLEAN]
Fallbacks == [pc : {"try", "wait", "done", "failed"}, server : 1 .. N + 1]

\* A checker is made with these types.
LEMMA CheckersMade ==
  /\ NoChecker \in Checkers
  /\ ctx \in 0 .. N => NewHealthChecker \in Checkers
BY FailoverAssumption DEF NoChecker, NewHealthChecker, Checkers, Pcs

\* Closing stopChan leaves a checker, wherever its goroutine is sent.
LEMMA StoppedChecker ==
  \A r \in Checkers, b \in BOOLEAN :
    /\ [r EXCEPT !.stopCh = r.stopCh \/ b] \in Checkers
    /\ [r EXCEPT !.stopCh = r.stopCh \/ b, !.pc = "disconnect"] \in Checkers
    /\ [r EXCEPT !.stopCh = r.stopCh \/ b, !.pc = r.pc] \in Checkers
BY DEF Checkers, Pcs

\* A step of Connect ends in a Connect that has run; nothing else of it changes but the
\* Client.
LEMMA ConnectShape ==
  ASSUME TypeOK, NEW i \in Servers, ConnectStep(i)
  PROVE  /\ UNCHANGED <<world, fallback, connector, checker, stopped, abandoned>>
         /\ connect[i] \in Pending
         /\ connect' \in [Servers -> {"none", "start", "drop", "relock", "body", "ok", "err"}]
         /\ connect'[i] \in {"drop", "relock", "body", "ok", "err"}
         /\ \A j \in Servers \ {i} : connect'[j] = connect[j]
         /\ mutex' \in 0 .. N /\ isConnected' \in BOOLEAN /\ xServer' \in 0 .. N
<1> USE FailoverAssumption DEF ConnectGoto, Pending, Servers, TypeOK
<1>1. CASE ConnectLock(i)
  <2>1. CASE isConnected
    BY <1>1, <2>1 DEF ConnectLock
  <2>2. CASE ~isConnected
    <3>1. /\ ConnectGoto(i, "start", "body") /\ mutex' = i
          /\ UNCHANGED <<isConnected, xServer, world, fallback, connector, checker, stopped,
                         abandoned>>
      BY <1>1, <2>2 DEF ConnectLock
    <3>2. mutex' \in 0 .. N /\ isConnected' \in BOOLEAN /\ xServer' \in 0 .. N
      BY <3>1
    <3>3. QED
      BY <3>1, <3>2
  <2>3. QED
    BY <2>1, <2>2
<1>2. CASE ConnectDrop(i)
  BY <1>2 DEF ConnectDrop
<1>3. CASE ConnectRelock(i)
  BY <1>3 DEF ConnectRelock
<1>4. CASE ConnectEnds(i)
  <2>1. CASE ConnectGoto(i, "body", "ok") /\ isConnected' = TRUE /\ xServer' = i
    BY <1>4, <2>1 DEF ConnectEnds
  <2>2. CASE ConnectGoto(i, "body", "err") /\ UNCHANGED <<isConnected, xServer>>
    BY <1>4, <2>2 DEF ConnectEnds
  <2>3. QED
    BY <1>4, <2>1, <2>2 DEF ConnectEnds
<1>5. QED
  BY <1>1, <1>2, <1>3, <1>4 DEF ConnectStep

\* The loop of a checker neither begins nor ends a failover, and keeps what it was made
\* with.
LEMMA CheckerShape ==
  ASSUME TypeOK, NEW k \in Servers, CheckerStep(k)
  PROVE  /\ UNCHANGED <<client, connect, world, fallback, connector, stopped, abandoned>>
         /\ checker' \in [Servers -> Checkers]
         /\ checker[k].pc \in {"running", "checking"}
         /\ checker'[k].pc \in {"running", "checking", "exited", "callback"}
         /\ checker'[k].pc = "exited" => Told(k)
         /\ \A j \in Servers \ {k} : checker'[j] = checker[j]
         /\ checker'[k].ctx = checker[k].ctx
         /\ checker'[k].stopCh = checker[k].stopCh
         /\ checker'[k].once = checker[k].once
<1> USE FailoverAssumption DEF Checkers, Pcs
<1>0. checker \in [Servers -> Checkers]
  BY DEF TypeOK
<1>1. CASE CheckerExit(k)
  BY <1>0, <1>1 DEF CheckerExit
<1>2. CASE CheckBegins(k)
  BY <1>0, <1>2 DEF CheckBegins
<1>3. CASE MarkHealthy(k)
  <2>0. 0 \in 0 .. MaxFailures
    OBVIOUS
  <2>1. checker' \in [Servers -> Checkers]
    <3> DEFINE new == [checker[k] EXCEPT !.pc = "running", !.isHealthy = TRUE, !.failures = 0]
    <3>1. new \in Checkers
      BY <1>0, <2>0
    <3>2. checker' = [checker EXCEPT ![k] = new]
      BY <1>0, <1>3 DEF MarkHealthy
    <3>3. QED
      BY <1>0, <3>1, <3>2
  <2>2. /\ checker[k].pc = "checking"
        /\ UNCHANGED <<client, connect, world, fallback, connector, stopped, abandoned>>
        /\ \A j \in Servers \ {k} : checker'[j] = checker[j]
    BY <1>0, <1>3 DEF MarkHealthy
  <2>3. /\ checker'[k].pc = "running" /\ checker'[k].ctx = checker[k].ctx
        /\ checker'[k].stopCh = checker[k].stopCh /\ checker'[k].once = checker[k].once
    BY <1>0, <1>3 DEF MarkHealthy
  <2>4. QED
    BY <1>0, <2>1, <2>2, <2>3
<1>4. CASE HandleUnhealthy(k)
  <2> DEFINE f == IF checker[k].failures < MaxFailures THEN checker[k].failures + 1
                                                       ELSE MaxFailures
             h == checker[k].isHealthy /\ f # MaxFailures
             p == IF f = MaxFailures /\ checker[k].isHealthy THEN "callback" ELSE "running"
             new == [checker[k] EXCEPT !.failures = f, !.isHealthy = h, !.pc = p]
  <2>1. /\ checker[k].pc = "checking"
        /\ UNCHANGED <<client, connect, world, fallback, connector, stopped, abandoned>>
        /\ checker' = [checker EXCEPT ![k] = new]
    BY <1>0, <1>4 DEF HandleUnhealthy
  <2>2. f \in 0 .. MaxFailures /\ h \in BOOLEAN /\ p \in {"running", "callback"}
    BY <1>0
  <2> HIDE DEF f, h, p
  <2>3. /\ new \in Checkers /\ new.pc = p /\ new.ctx = checker[k].ctx
        /\ new.stopCh = checker[k].stopCh /\ new.once = checker[k].once
    BY <1>0, <2>2
  <2> HIDE DEF new
  <2>4. QED
    BY <1>0, <2>1, <2>2, <2>3
<1>5. QED
  BY <1>1, <1>2, <1>3, <1>4 DEF CheckerStep
\* What the steps of the failover do to the checkers, one by one.
LEMMA EnterShape ==
  ASSUME TypeOK, NEW k \in Servers, FailoverEnter(k)
  PROVE  /\ UNCHANGED <<client, connect, world, fallback, currentServerIndex, ctx, healthChecker,
                        fatalErrCh, stopped, abandoned>>
         /\ checker[k].pc = "callback"
         /\ \A j \in Servers \ {k} : checker'[j] = checker[j]
         /\ checker'[k].once /\ checker'[k].ctx = checker[k].ctx
         /\ checker[k].once \/ isFailingOver =>
              checker'[k].pc = "running" /\ UNCHANGED <<isFailingOver, cancelled>>
         /\ ~(checker[k].once \/ isFailingOver) =>
              checker'[k].pc = "pick" /\ isFailingOver' /\ cancelled' = cancelled \cup {ctx}
<1>1. checker \in [Servers -> Checkers]
  BY DEF TypeOK, Checkers, Pcs
<1>2. QED
  BY <1>1 DEF FailoverEnter, Checkers

\* performFailover finds no server after the current one.
LEMMA NoNextShape ==
  ASSUME TypeOK, NEW k \in Servers, FailoverNoNext(k)
  PROVE  /\ UNCHANGED <<client, connect, world, fallback, currentServerIndex, ctx, cancelled,
                        healthChecker, fatalErrCh, stopped, abandoned>>
         /\ checker[k].pc = "pick" /\ currentServerIndex = N
         /\ \A j \in Servers \ {k} : checker'[j] = checker[j]
         /\ checker'[k].pc = "running" /\ checker'[k].once = checker[k].once
         /\ isFailingOver' = FALSE
<1>1. checker \in [Servers -> Checkers]
  BY DEF TypeOK, Checkers, Pcs
<1>2. currentServerIndex \in 0 .. N /\ N \in Nat
  BY FailoverAssumption DEF TypeOK
<1>3. QED
  BY <1>1, <1>2 DEF FailoverNoNext, FailoverReturn, Checkers

\* performFailover stops the old checker.
LEMMA StopCheckerShape ==
  ASSUME TypeOK, NEW k \in Servers, FailoverStopChecker(k)
  PROVE  /\ UNCHANGED <<client, connect, world, fallback, currentServerIndex, isFailingOver,
                        ctx, cancelled, fatalErrCh, stopped, abandoned>>
         /\ checker[k].pc = "pick" /\ currentServerIndex < N
         /\ \A j \in Servers : /\ checker'[j].once = checker[j].once
                              /\ checker'[j].pc = IF j = k THEN "disconnect"
                                                 ELSE checker[j].pc
         /\ healthChecker' = 0
<1>1. checker \in [Servers -> Checkers]
  BY DEF TypeOK, Checkers, Pcs
<1>2. currentServerIndex \in 0 .. N /\ N \in Nat
  BY FailoverAssumption DEF TypeOK
<1>3. QED
  BY <1>1, <1>2 DEF FailoverStopChecker, Checkers

\* performFailover starts to connect to the next server with a new context.
LEMMA FailoverConnectShape ==
  ASSUME TypeOK, FailingInv, NEW k \in Servers, FailoverConnect(k)
  PROVE  /\ UNCHANGED <<world, fallback, isFailingOver, cancelled, healthChecker, fatalErrCh,
                        stopped, abandoned>>
         /\ checker[k].pc = "disconnect"
         /\ currentServerIndex' = currentServerIndex + 1 /\ ctx' = currentServerIndex'
         /\ currentServerIndex' \in Servers
         /\ isConnected' = FALSE
         /\ connect' = [connect EXCEPT ![currentServerIndex'] = "start"]
         /\ \A j \in Servers \ {k} : checker'[j] = checker[j]
         /\ checker'[k].pc = "wait" /\ checker'[k].once = checker[k].once
<1>1. checker \in [Servers -> Checkers]
  BY DEF TypeOK, Checkers, Pcs
<1>2. currentServerIndex + 1 \in Servers
  <2>1. currentServerIndex \in 0 .. N /\ N \in Nat
    BY FailoverAssumption DEF TypeOK
  <2>2. currentServerIndex < N
    BY DEF FailoverConnect, FailingInv
  <2>3. QED
    BY <2>1, <2>2 DEF Servers
<1>3. QED
  BY <1>1, <1>2 DEF FailoverConnect, Disconnect, Checkers

\* performFailover makes the checker of the new server.
LEMMA FailoverConnectedShape ==
  ASSUME TypeOK, OnceInv, ContextInv, FallbackInv, OfferedInv,
         NEW k \in Servers, FailoverConnected(k)
  PROVE  /\ UNCHANGED <<client, connect, world, fallback, currentServerIndex, ctx, cancelled,
                        fatalErrCh, stopped, abandoned>>
         /\ checker[k].pc = "wait" /\ k # ctx /\ ctx = currentServerIndex /\ ctx \in Servers
         /\ connect[ctx] = "ok" /\ healthChecker' = ctx
         /\ \A j \in Servers \ {k, ctx} : checker'[j] = checker[j]
         /\ checker'[k].pc = "running" /\ checker'[k].once = checker[k].once
         /\ checker'[ctx] = NewHealthChecker
         /\ isFailingOver' = FALSE
<1>1. checker \in [Servers -> Checkers]
  BY DEF TypeOK, Checkers, Pcs
<1>2. /\ checker[k].pc = "wait" /\ connect[ctx] = "ok"
      /\ checker' = [checker EXCEPT ![k].pc = "running", ![ctx] = NewHealthChecker]
      /\ UNCHANGED <<client, connect, world, fallback, currentServerIndex, ctx, cancelled,
                     fatalErrCh, stopped, abandoned>>
      /\ isFailingOver' = FALSE /\ healthChecker' = ctx
  BY DEF FailoverConnected, FailoverReturn
<1>3. ctx = currentServerIndex /\ k < currentServerIndex /\ ctx \in Servers
  BY <1>2 DEF OnceInv, ContextInv, FallbackInv, OfferedInv
<1>4. k # ctx
  BY <1>3, FailoverAssumption DEF Servers
<1>5. QED
  BY <1>1, <1>2, <1>3, <1>4 DEF Checkers

\* performFailover goes on to the next server or gives up.
LEMMA FailoverFailedShape ==
  ASSUME TypeOK, NEW k \in Servers, FailoverFailed(k)
  PROVE  /\ UNCHANGED <<client, connect, world, fallback, currentServerIndex, ctx, cancelled,
                        healthChecker, stopped>>
         /\ checker[k].pc = "wait"
         /\ \/ connect[ctx] = "err" /\ UNCHANGED abandoned
            \/ abandoned' = abandoned \cup {ctx}
         /\ \A j \in Servers \ {k} : checker'[j] = checker[j]
         /\ checker'[k].once = checker[k].once
         /\ \/ /\ currentServerIndex < N /\ checker'[k].pc = "pick"
               /\ UNCHANGED <<isFailingOver, fatalErrCh>>
            \/ /\ currentServerIndex = N /\ checker'[k].pc = "running"
               /\ isFailingOver' = FALSE /\ fatalErrCh' = TRUE
<1>1. checker \in [Servers -> Checkers]
  BY DEF TypeOK, Checkers, Pcs
<1>2. currentServerIndex \in 0 .. N
  BY DEF TypeOK
<1>3. QED
  BY <1>1, <1>2, FailoverAssumption
     DEF FailoverFailed, RemainingServers, FailoverReturn, Checkers

\* ConnectWithFallback makes the first checker.
LEMMA FallbackConnectedShape ==
  ASSUME TypeOK, FallbackInv, FallbackConnected
  PROVE  /\ UNCHANGED <<client, connect, world, ctx, isFailingOver, cancelled, fatalErrCh,
                        stopped, abandoned>>
         /\ fallback.pc = "wait" /\ fallback'.pc = "done"
         /\ fallback'.server = fallback.server
         /\ fallback.server \in Servers /\ connect[fallback.server] = "ok"
         /\ currentServerIndex' = fallback.server /\ healthChecker' = fallback.server
         /\ \A j \in Servers \ {fallback.server} : checker'[j] = checker[j]
         /\ checker'[fallback.server] = NewHealthChecker
<1>1. fallback \in Fallbacks
  BY DEF TypeOK, Fallbacks
<1>2. fallback.pc = "wait" /\ fallback'.pc = "done" /\ fallback'.server = fallback.server
  BY <1>1 DEF FallbackConnected, Fallbacks
<1>3. fallback.server \in Servers /\ healthChecker = 0
  BY <1>1, <1>2, FailoverAssumption DEF FallbackInv, Fallbacks, Servers
<1>4. \A j \in Servers : j # healthChecker
  BY <1>3, FailoverAssumption DEF Servers
<1>5. QED
  BY <1>2, <1>3, <1>4 DEF FallbackConnected, StartHealthMonitoring

\* ConnectWithFallback starts a Connect or comes to the end of the list.
LEMMA FallbackTryShape ==
  ASSUME TypeOK, FallbackInv, FallbackTry
  PROVE  /\ UNCHANGED <<client, world, connector, checker, stopped, abandoned>>
         /\ fallback.pc = "try" /\ fallback.server \in 1 .. N + 1
         /\ fallback'.server = fallback.server
         /\ \/ fallback.server = N + 1 /\ fallback'.pc = "failed" /\ UNCHANGED connect
            \/ /\ fallback.server \in Servers /\ fallback'.pc = "wait"
               /\ connect' = [connect EXCEPT ![fallback.server] = "start"]
<1>1. fallback \in Fallbacks
  BY DEF TypeOK, Fallbacks
<1>2. fallback.pc = "try" /\ ctx \notin cancelled
  BY DEF FallbackTry, FallbackInv
<1>3. QED
  BY <1>1, <1>2, FailoverAssumption DEF FallbackTry, Fallbacks, Servers

\* ConnectWithFallback leaves a server for the next one.
LEMMA FallbackNextShape ==
  ASSUME TypeOK, FallbackInv, FallbackFailed \/ FallbackTimeout
  PROVE  /\ UNCHANGED <<client, connect, world, connector, checker, stopped>>
         /\ fallback.pc = "wait" /\ fallback.server \in Servers
         /\ fallback'.pc = "try" /\ fallback'.server = fallback.server + 1
         /\ \/ connect[fallback.server] = "err" /\ UNCHANGED abandoned
            \/ abandoned' = abandoned \cup {fallback.server}
<1>1. fallback \in Fallbacks
  BY DEF TypeOK, Fallbacks
<1>2. QED
  BY <1>1, FailoverAssumption
     DEF FallbackFailed, FallbackTimeout, FallbackNext, FallbackInv, Fallbacks, Servers

\* Stop tells the checker and cancels the context, and moves no goroutine.
LEMMA StopShape ==
  ASSUME TypeOK, Stop
  PROVE  /\ UNCHANGED <<client, connect, world, fallback, currentServerIndex, isFailingOver,
                        ctx, healthChecker, fatalErrCh, abandoned>>
         /\ fallback.pc \in {"done", "failed"} /\ stopped' /\ cancelled' = cancelled \cup {ctx}
         /\ \A j \in Servers : /\ checker'[j].pc = checker[j].pc
                              /\ checker'[j].once = checker[j].once
                              /\ checker'[j].ctx = checker[j].ctx
<1>1. checker \in [Servers -> Checkers]
  BY DEF TypeOK, Checkers, Pcs
<1>2. QED
  BY <1>1 DEF Stop, Checkers
------------------------------------------------------------------------------
\* The initial state.
LEMMA InitTypeOK == Init => TypeOK
<1> SUFFICES ASSUME Init PROVE TypeOK
  OBVIOUS
<1>1. checker \in [Servers -> Checkers]
  BY CheckersMade DEF Init
<1>2. fallback \in Fallbacks
  BY FailoverAssumption DEF Init, Fallbacks
<1>3. /\ connect \in [Servers -> {"none", "start", "drop", "relock", "body", "ok", "err"}]
      /\ 0 \in 0 .. N
  BY FailoverAssumption DEF Init
<1>4. QED
  BY <1>1, <1>2, <1>3 DEF Init, TypeOK, Checkers, Pcs, Fallbacks

\* Every step keeps the types; the index and the context need the other parts.
LEMMA TypeStep ==
  ASSUME TypeOK, FallbackInv, FailingInv, ContextInv, OfferedInv, [Next]_vars
  PROVE  TypeOK'
<1>0. /\ checker \in [Servers -> Checkers] /\ fallback \in Fallbacks
      /\ connect \in [Servers -> {"none", "start", "drop", "relock", "body", "ok", "err"}]
      /\ ctx \in 0 .. N /\ currentServerIndex \in 0 .. N /\ cancelled \subseteq 0 .. N
  BY DEF TypeOK, Checkers, Pcs, Fallbacks
<1> USE FailoverAssumption
<1>1. ASSUME NEW i \in Servers, ConnectStep(i) PROVE TypeOK'
  BY <1>1, ConnectShape DEF TypeOK, world, connector
<1>2. ASSUME NEW i \in Servers, CheckerStep(i) PROVE TypeOK'
  <2>1. checker' \in [Servers -> Checkers]
    BY <1>2, CheckerShape
  <2>2. UNCHANGED <<mutex, isConnected, xServer, connect, dead, e2e, fallback,
                    currentServerIndex, isFailingOver, ctx, cancelled, healthChecker,
                    fatalErrCh, stopped, abandoned>>
    BY <1>2, CheckerShape DEF world, connector, client
  <2>3. QED
    BY <2>1, <2>2 DEF TypeOK, Checkers, Pcs
<1>3. ASSUME NEW i \in Servers, ServerDies(i) PROVE TypeOK'
  BY <1>3 DEF TypeOK, ServerDies, world, connector, client
<1>4. CASE FallbackTry
  BY <1>4 DEF TypeOK, FallbackTry, world, connector, client
<1>5. CASE FallbackConnected
  BY <1>5 DEF TypeOK, FallbackInv, FallbackConnected, StartHealthMonitoring, NewHealthChecker,
              world, client, Servers
<1>6. ASSUME FallbackFailed \/ FallbackTimeout PROVE TypeOK'
  <2>1. fallback.server + 1 \in 1 .. N + 1 /\ fallback.server \in Servers
    BY <1>0, <1>6 DEF FallbackInv, FallbackFailed, FallbackTimeout, Fallbacks, Servers
  <2>2. fallback' \in Fallbacks
    BY <2>1, <1>6 DEF FallbackFailed, FallbackTimeout, FallbackNext, Fallbacks
  <2>3. QED
    BY <1>6, <2>1, <2>2 DEF TypeOK, FallbackFailed, FallbackTimeout, world, connector, client,
                            Fallbacks
<1>8. ASSUME NEW k \in Servers, FailoverEnter(k) PROVE TypeOK'
  <2>1. checker' \in [Servers -> Checkers]
    BY <1>0, <1>8 DEF FailoverEnter, Checkers, Pcs
  <2>2. QED
    BY <1>8, <2>1 DEF TypeOK, FailoverEnter, world, client, Checkers, Pcs
<1>9. ASSUME NEW k \in Servers, FailoverNoNext(k) PROVE TypeOK'
  <2>1. checker' \in [Servers -> Checkers]
    BY <1>0, <1>9 DEF FailoverNoNext, Checkers, Pcs
  <2>2. QED
    BY <1>9, <2>1 DEF TypeOK, FailoverNoNext, FailoverReturn, world, client, Checkers, Pcs
<1>10. ASSUME NEW k \in Servers, FailoverStopChecker(k) PROVE TypeOK'
  <2>1. checker' \in [Servers -> Checkers]
    BY <1>0, <1>10, StoppedChecker DEF FailoverStopChecker
  <2>2. /\ UNCHANGED <<client, connect, world, fallback, currentServerIndex, isFailingOver,
                       ctx, cancelled, fatalErrCh, stopped, abandoned>>
        /\ healthChecker' = 0
    BY <1>10 DEF FailoverStopChecker
  <2>3. QED
    BY <2>1, <2>2 DEF TypeOK, world, client, Checkers, Pcs
<1>11. ASSUME NEW k \in Servers, FailoverConnect(k) PROVE TypeOK'
  <2>1. checker' \in [Servers -> Checkers]
    BY <1>0, <1>11 DEF FailoverConnect, Checkers, Pcs
  <2>2. currentServerIndex + 1 \in Servers
    BY <1>0, <1>11 DEF FailingInv, FailoverConnect, Servers
  <2>3. /\ ctx' \in 0 .. N /\ currentServerIndex' \in 0 .. N
        /\ connect' \in [Servers -> {"none", "start", "drop", "relock", "body", "ok", "err"}]
    BY <1>0, <1>11, <2>2 DEF FailoverConnect, Servers
  <2>4. /\ UNCHANGED <<mutex, world, fallback, isFailingOver, cancelled, healthChecker,
                       fatalErrCh, stopped, abandoned>>
        /\ isConnected' = FALSE /\ xServer' \in 0 .. N
    BY <1>11 DEF FailoverConnect, Disconnect, TypeOK
  <2>5. QED
    BY <2>1, <2>3, <2>4 DEF TypeOK, world, Checkers, Pcs
<1>12. ASSUME NEW k \in Servers, FailoverConnected(k) PROVE TypeOK'
  <2>1. checker' \in [Servers -> Checkers]
    <3>1. \A r \in Checkers : [r EXCEPT !.pc = "running"] \in Checkers
      BY DEF Checkers, Pcs
    <3>2. QED
      BY <1>0, <1>12, <3>1, CheckersMade DEF FailoverConnected
  <2>2. QED
    BY <1>12, <2>1 DEF TypeOK, FailoverConnected, FailoverReturn, world, client, Checkers, Pcs
<1>13. ASSUME NEW k \in Servers, FailoverFailed(k) PROVE TypeOK'
  <2>1. checker' \in [Servers -> Checkers]
    BY <1>0, <1>13 DEF FailoverFailed, Checkers, Pcs
  <2>2. ctx \in Servers
    BY <1>0, <1>13 DEF ContextInv, OfferedInv, FallbackInv, FailoverFailed
  <2>3. QED
    BY <1>13, <2>1, <2>2 DEF TypeOK, FailoverFailed, FailoverReturn, world, client, Checkers,
                             Pcs
<1>14. CASE Stop
  <2>1. checker' \in [Servers -> Checkers]
    BY <1>0, <1>14, StoppedChecker DEF Stop
  <2>2. QED
    BY <1>14, <2>1 DEF TypeOK, Stop, world, client, Checkers, Pcs
<1>15. CASE UNCHANGED vars
  BY <1>15 DEF TypeOK, vars, world, connector, client
<1>16. QED
  BY <1>1, <1>2, <1>3, <1>4, <1>5, <1>6, <1>8, <1>9, <1>10, <1>11, <1>12, <1>13, <1>14, <1>15,
     NextCases------------------------------------------------------------------------------
(***************************************************************************)
(* Every step preserves the parts of the invariant.                        *)
(***************************************************************************)
\* ConnectWithFallback and the failovers do not overlap.
LEMMA FallbackStepInv ==
  ASSUME TypeOK, FallbackInv, FailingInv, OnceInv, ContextInv, OfferedInv, [Next]_vars
  PROVE  FallbackInv'
<1> USE FailoverAssumption DEF Servers
<1>1. ASSUME NEW i \in Servers, ConnectStep(i) PROVE FallbackInv'
  BY <1>1, ConnectShape
     DEF FallbackInv, client, connector
<1>2. ASSUME NEW i \in Servers, CheckerStep(i) PROVE FallbackInv'
  BY <1>2, CheckerShape
     DEF FallbackInv, client, connector
<1>3. ASSUME NEW i \in Servers, ServerDies(i) PROVE FallbackInv'
  BY <1>3
     DEF FallbackInv, ServerDies, client, world, connector
<1>4. CASE FallbackTry
  BY <1>4, FallbackTryShape
     DEF FallbackInv, client, connector
<1>5. CASE FallbackConnected
  BY <1>5, FallbackConnectedShape
     DEF FallbackInv, client, connector
<1>6. ASSUME FallbackFailed \/ FallbackTimeout PROVE FallbackInv'
  BY <1>6, FallbackNextShape
     DEF FallbackInv, client, connector
<1>7. ASSUME NEW k \in Servers, FailoverEnter(k) PROVE FallbackInv'
  BY <1>7, EnterShape
     DEF FallbackInv, client, connector
<1>8. ASSUME NEW k \in Servers, FailoverNoNext(k) PROVE FallbackInv'
  BY <1>8, NoNextShape
     DEF FallbackInv, client, connector
<1>9. ASSUME NEW k \in Servers, FailoverStopChecker(k) PROVE FallbackInv'
  BY <1>9, StopCheckerShape
     DEF FallbackInv, client, connector
<1>10. ASSUME NEW k \in Servers, FailoverConnect(k) PROVE FallbackInv'
  BY <1>10, FailoverConnectShape
     DEF FallbackInv, client, connector
<1>11. ASSUME NEW k \in Servers, FailoverConnected(k) PROVE FallbackInv'
  BY <1>11, FailoverConnectedShape
     DEF FallbackInv, client, connector
<1>12. ASSUME NEW k \in Servers, FailoverFailed(k) PROVE FallbackInv'
  BY <1>12, FailoverFailedShape
     DEF FallbackInv, client, connector
<1>13. CASE Stop
  BY <1>13, StopShape
     DEF FallbackInv, client, connector
<1>14. CASE UNCHANGED vars
  BY <1>14
     DEF FallbackInv, vars, client, world, connector
<1>15. QED
  BY <1>1, <1>2, <1>3, <1>4, <1>5, <1>6, <1>7, <1>8, <1>9, <1>10, <1>11, <1>12, <1>13, <1>14,
     NextCases

\* Servers are connected to in the order of the list.
LEMMA OfferedStep ==
  ASSUME TypeOK, FallbackInv, OfferedInv, FailingInv, ContextInv, OnceInv, [Next]_vars
  PROVE  OfferedInv'
<1>0. connect \in [Servers -> {"none", "start", "drop", "relock", "body", "ok", "err"}]
      /\ currentServerIndex \in 0 .. N
  BY DEF TypeOK
<1> USE <1>0, FailoverAssumption DEF Servers, Reached, FallbackInv, Pending
<1>1. ASSUME NEW i \in Servers, ConnectStep(i) PROVE OfferedInv'
  BY <1>1, ConnectShape
     DEF OfferedInv, client, connector
<1>2. ASSUME NEW i \in Servers, CheckerStep(i) PROVE OfferedInv'
  BY <1>2, CheckerShape
     DEF OfferedInv, client, connector
<1>3. ASSUME NEW i \in Servers, ServerDies(i) PROVE OfferedInv'
  BY <1>3
     DEF OfferedInv, ServerDies, client, world, connector
<1>4. CASE FallbackTry
  BY <1>4, FallbackTryShape
     DEF OfferedInv, client, connector
<1>5. CASE FallbackConnected
  BY <1>5, FallbackConnectedShape
     DEF OfferedInv, client, connector
<1>6. ASSUME FallbackFailed \/ FallbackTimeout PROVE OfferedInv'
  BY <1>6, FallbackNextShape
     DEF OfferedInv, client, connector
<1>7. ASSUME NEW k \in Servers, FailoverEnter(k) PROVE OfferedInv'
  <2>1. UNCHANGED <<connect, fallback, currentServerIndex>>
    BY <1>7 DEF FailoverEnter
  <2>2. QED
    BY <2>1 DEF OfferedInv
<1>8. ASSUME NEW k \in Servers, FailoverNoNext(k) PROVE OfferedInv'
  <2>1. UNCHANGED <<connect, fallback, currentServerIndex>>
    BY <1>8 DEF FailoverNoNext
  <2>2. QED
    BY <2>1 DEF OfferedInv
<1>9. ASSUME NEW k \in Servers, FailoverStopChecker(k) PROVE OfferedInv'
  <2>1. UNCHANGED <<connect, fallback, currentServerIndex>>
    BY <1>9 DEF FailoverStopChecker
  <2>2. QED
    BY <2>1 DEF OfferedInv
<1>10. ASSUME NEW k \in Servers, FailoverConnect(k) PROVE OfferedInv'
  <2>1. fallback.pc = "done" /\ UNCHANGED fallback /\ currentServerIndex' = currentServerIndex + 1
    BY <1>10, FailoverConnectShape
  <2>2. /\ currentServerIndex + 1 \in Servers
        /\ connect' = [connect EXCEPT ![currentServerIndex + 1] = "start"]
    BY <1>10, <2>1, FailoverConnectShape
  <2>3. \A i \in Servers :
          connect'[i] # "none" <=> connect[i] # "none" \/ i = currentServerIndex + 1
    BY <2>2
  <2>4. QED
    BY <2>1, <2>2, <2>3 DEF OfferedInv
<1>11. ASSUME NEW k \in Servers, FailoverConnected(k) PROVE OfferedInv'
  <2>1. UNCHANGED <<connect, fallback, currentServerIndex>>
    BY <1>11 DEF FailoverConnected
  <2>2. QED
    BY <2>1 DEF OfferedInv
<1>12. ASSUME NEW k \in Servers, FailoverFailed(k) PROVE OfferedInv'
  <2>1. UNCHANGED <<connect, fallback, currentServerIndex>>
    BY <1>12 DEF FailoverFailed
  <2>2. QED
    BY <2>1 DEF OfferedInv
<1>13. CASE Stop
  BY <1>13, StopShape
     DEF OfferedInv, client, connector
<1>14. CASE UNCHANGED vars
  BY <1>14
     DEF OfferedInv, vars, client, world, connector
<1>15. QED
  BY <1>1, <1>2, <1>3, <1>4, <1>5, <1>6, <1>7, <1>8, <1>9, <1>10, <1>11, <1>12, <1>13, <1>14,
     NextCases

\* One failover at a time: isFailingOver is taken by the checker that enters performFailover
\* and given back by the same checker.
LEMMA FailingStep ==
  ASSUME TypeOK, FallbackInv, OfferedInv, FailingInv, ContextInv, OnceInv, [Next]_vars
  PROVE  FailingInv'
<1> USE FailoverAssumption DEF Servers, InFailover, NewHealthChecker, FallbackInv
<1>1. ASSUME NEW i \in Servers, ConnectStep(i) PROVE FailingInv'
  BY <1>1, ConnectShape
     DEF FailingInv, client, connector
<1>2. ASSUME NEW i \in Servers, CheckerStep(i) PROVE FailingInv'
  BY <1>2, CheckerShape
     DEF FailingInv, client, connector
<1>3. ASSUME NEW i \in Servers, ServerDies(i) PROVE FailingInv'
  BY <1>3
     DEF FailingInv, ServerDies, client, world, connector
<1>4. CASE FallbackTry
  BY <1>4, FallbackTryShape
     DEF FailingInv, client, connector
<1>5. CASE FallbackConnected
  BY <1>5, FallbackConnectedShape
     DEF FailingInv, client, connector
<1>6. ASSUME FallbackFailed \/ FallbackTimeout PROVE FailingInv'
  BY <1>6, FallbackNextShape
     DEF FailingInv, client, connector
<1>7. ASSUME NEW k \in Servers, FailoverEnter(k) PROVE FailingInv'
  <2>1. CASE checker[k].once \/ isFailingOver
    BY <1>7, <2>1, EnterShape DEF FailingInv
  <2>2. CASE ~(checker[k].once \/ isFailingOver)
    <3>1. ~fatalErrCh
      BY <1>7, <2>2, EnterShape DEF OnceInv
    <3>2. \A j \in Servers : checker[j].pc \notin InFailover
      BY <2>2 DEF FailingInv
    <3>3. /\ checker'[k].pc = "pick" /\ isFailingOver' /\ UNCHANGED fatalErrCh
          /\ \A j \in Servers \ {k} : checker'[j] = checker[j]
      BY <1>7, <2>2, EnterShape
    <3>4. QED
      BY <3>1, <3>2, <3>3 DEF FailingInv
  <2>3. QED
    BY <2>1, <2>2
<1>8. ASSUME NEW k \in Servers, FailoverNoNext(k) PROVE FailingInv'
  BY <1>8, NoNextShape
     DEF FailingInv, client, connector
<1>9. ASSUME NEW k \in Servers, FailoverStopChecker(k) PROVE FailingInv'
  BY <1>9, StopCheckerShape
     DEF FailingInv, client, connector
<1>10. ASSUME NEW k \in Servers, FailoverConnect(k) PROVE FailingInv'
  BY <1>10, FailoverConnectShape
     DEF FailingInv, client, connector
<1>11. ASSUME NEW k \in Servers, FailoverConnected(k) PROVE FailingInv'
  <2>1. \A j \in Servers \ {k} : checker[j].pc \notin InFailover
    BY <1>11, FailoverConnectedShape DEF FailingInv
  <2>2. checker'[k].pc = "running" /\ checker'[ctx].pc = "running" /\ isFailingOver' = FALSE
    <3>1. checker'[ctx] = NewHealthChecker
      BY <1>11, FailoverConnectedShape
    <3>2. checker'[k].pc = "running" /\ isFailingOver' = FALSE
      BY <1>11, FailoverConnectedShape
    <3>3. QED
      BY <3>1, <3>2
  <2>3. \A j \in Servers : checker'[j].pc \notin InFailover
    BY <1>11, <2>1, <2>2, FailoverConnectedShape
  <2>4. ~fatalErrCh'
    BY <1>11, <2>1, FailoverConnectedShape DEF FailingInv
  <2>5. QED
    BY <2>2, <2>3, <2>4 DEF FailingInv
<1>12. ASSUME NEW k \in Servers, FailoverFailed(k) PROVE FailingInv'
  BY <1>12, FailoverFailedShape
     DEF FailingInv, client, connector
<1>13. CASE Stop
  BY <1>13, StopShape
     DEF FailingInv, client, connector
<1>14. CASE UNCHANGED vars
  BY <1>14
     DEF FailingInv, vars, client, world, connector
<1>15. QED
  BY <1>1, <1>2, <1>3, <1>4, <1>5, <1>6, <1>7, <1>8, <1>9, <1>10, <1>11, <1>12, <1>13, <1>14,
     NextCases

\* Contexts are cancelled oldest first, the newest one only by Stop or by the next failover.
LEMMA ContextStep ==
  ASSUME TypeOK, FallbackInv, OfferedInv, FailingInv, ContextInv, OnceInv, [Next]_vars
  PROVE  ContextInv'
<1>0. /\ currentServerIndex \in 0 .. N /\ ctx \in 0 .. N /\ cancelled \subseteq 0 .. N
      /\ N \in Nat /\ stopped \in BOOLEAN
  BY FailoverAssumption DEF TypeOK
<1>1. ASSUME NEW i \in Servers, ConnectStep(i) PROVE ContextInv'
  BY <1>1, ConnectShape
     DEF ContextInv, client, connector
<1>2. ASSUME NEW i \in Servers, CheckerStep(i) PROVE ContextInv'
  BY <1>2, CheckerShape
     DEF ContextInv, client, connector
<1>3. ASSUME NEW i \in Servers, ServerDies(i) PROVE ContextInv'
  BY <1>3
     DEF ContextInv, ServerDies, client, world, connector
<1>4. CASE FallbackTry
  BY <1>4, FallbackTryShape
     DEF ContextInv, client, connector
<1>5. CASE FallbackConnected
  <2>1. /\ ctx' = 0 /\ cancelled' = {} /\ currentServerIndex' \in Servers
        /\ \A j \in Servers : checker'[j].pc # "wait"
    BY <1>5, FallbackConnectedShape DEF FallbackInv, NewHealthChecker
  <2>2. QED
    BY <2>1 DEF ContextInv, Servers
<1>6. ASSUME FallbackFailed \/ FallbackTimeout PROVE ContextInv'
  BY <1>6, FallbackNextShape
     DEF ContextInv, client, connector
<1>7. ASSUME NEW k \in Servers, FailoverEnter(k) PROVE ContextInv'
  <2>1. CASE checker[k].once \/ isFailingOver
    BY <1>7, <2>1, EnterShape DEF ContextInv
  <2>2. CASE ~(checker[k].once \/ isFailingOver)
    <3>1. /\ checker'[k].pc = "pick" /\ UNCHANGED <<ctx, currentServerIndex>>
          /\ \A j \in Servers \ {k} : checker'[j] = checker[j]
          /\ cancelled' = cancelled \cup {ctx}
      BY <1>7, <2>2, EnterShape
    <3>2. \A j \in Servers : checker'[j].pc # "wait"
      BY <2>2, <3>1 DEF FailingInv, InFailover
    <3>3. QED
      BY <3>1, <3>2 DEF ContextInv
  <2>3. QED
    BY <2>1, <2>2
<1>8. ASSUME NEW k \in Servers, FailoverNoNext(k) PROVE ContextInv'
  <2>1. /\ UNCHANGED <<ctx, cancelled, stopped, currentServerIndex>>
        /\ checker'[k].pc # "wait"
        /\ \A j \in Servers \ {k} : checker'[j] = checker[j]
    BY <1>8, NoNextShape
  <2>2. QED
    BY <2>1 DEF ContextInv
<1>9. ASSUME NEW k \in Servers, FailoverStopChecker(k) PROVE ContextInv'
  BY <1>9, StopCheckerShape
     DEF ContextInv, client, connector
<1>10. ASSUME NEW k \in Servers, FailoverConnect(k) PROVE ContextInv'
  <2>1. /\ ctx' = currentServerIndex' /\ currentServerIndex' = currentServerIndex + 1
        /\ UNCHANGED <<cancelled, stopped>>
        /\ checker[k].pc = "disconnect"
        /\ \A j \in Servers \ {k} : checker'[j] = checker[j]
    BY <1>10, FailoverConnectShape
  <2>2. \A c \in cancelled : c <= currentServerIndex /\ c # currentServerIndex + 1
    BY <1>0 DEF ContextInv
  <2>3. QED
    BY <1>0, <2>1, <2>2 DEF ContextInv
<1>11. ASSUME NEW k \in Servers, FailoverConnected(k) PROVE ContextInv'
  <2>1. /\ UNCHANGED <<ctx, cancelled, stopped, currentServerIndex>>
        /\ \A j \in Servers \ {k, ctx} : checker'[j] = checker[j]
        /\ checker'[k].pc = "running" /\ checker'[ctx] = NewHealthChecker
    BY <1>11, FailoverConnectedShape
  <2>2. checker'[ctx].pc = "running"
    BY <2>1 DEF NewHealthChecker
  <2>3. QED
    BY <2>1, <2>2 DEF ContextInv
<1>12. ASSUME NEW k \in Servers, FailoverFailed(k) PROVE ContextInv'
  <2>1. /\ UNCHANGED <<ctx, cancelled, stopped, currentServerIndex>>
        /\ checker'[k].pc # "wait"
        /\ \A j \in Servers \ {k} : checker'[j] = checker[j]
    BY <1>12, FailoverFailedShape
  <2>2. QED
    BY <2>1 DEF ContextInv
<1>13. CASE Stop
  <2>1. /\ UNCHANGED <<ctx, currentServerIndex>> /\ stopped'
        /\ cancelled' = cancelled \cup {ctx}
        /\ \A j \in Servers : checker'[j].pc = checker[j].pc
    BY <1>13, StopShape
  <2>2. QED
    BY <2>1 DEF ContextInv
<1>14. CASE UNCHANGED vars
  BY <1>14
     DEF ContextInv, vars, client, world, connector
<1>15. QED
  BY <1>1, <1>2, <1>3, <1>4, <1>5, <1>6, <1>7, <1>8, <1>9, <1>10, <1>11, <1>12, <1>13, <1>14,
     NextCases

\* failoverOnce: a checker leaves its server at most once.
LEMMA OnceStep ==
  ASSUME TypeOK, FallbackInv, OfferedInv, FailingInv, ContextInv, OnceInv, [Next]_vars
  PROVE  OnceInv'
<1>0. /\ currentServerIndex \in 0 .. N /\ ctx \in 0 .. N /\ cancelled \subseteq 0 .. N
      /\ N \in Nat /\ stopped \in BOOLEAN
  BY FailoverAssumption DEF TypeOK
<1> USE <1>0 DEF Servers, NewHealthChecker, FallbackInv
<1>1. ASSUME NEW i \in Servers, ConnectStep(i) PROVE OnceInv'
  BY <1>1, ConnectShape
     DEF OnceInv, client, connector
<1>2. ASSUME NEW i \in Servers, CheckerStep(i) PROVE OnceInv'
  BY <1>2, CheckerShape
     DEF OnceInv, client, connector
<1>3. ASSUME NEW i \in Servers, ServerDies(i) PROVE OnceInv'
  BY <1>3
     DEF OnceInv, ServerDies, client, world, connector
<1>4. CASE FallbackTry
  BY <1>4, FallbackTryShape
     DEF OnceInv, client, connector
<1>5. CASE FallbackConnected
  BY <1>5, FallbackConnectedShape
     DEF OnceInv, client, connector
<1>6. ASSUME FallbackFailed \/ FallbackTimeout PROVE OnceInv'
  BY <1>6, FallbackNextShape
     DEF OnceInv, client, connector
<1>7. ASSUME NEW k \in Servers, FailoverEnter(k) PROVE OnceInv'
  BY <1>7, EnterShape
     DEF OnceInv, client, connector
<1>8. ASSUME NEW k \in Servers, FailoverNoNext(k) PROVE OnceInv'
  BY <1>8, NoNextShape
     DEF OnceInv, client, connector
<1>9. ASSUME NEW k \in Servers, FailoverStopChecker(k) PROVE OnceInv'
  BY <1>9, StopCheckerShape
     DEF OnceInv, client, connector
<1>10. ASSUME NEW k \in Servers, FailoverConnect(k) PROVE OnceInv'
  <2>1. /\ checker[k].pc = "disconnect" /\ checker'[k].once = checker[k].once
        /\ currentServerIndex' = currentServerIndex + 1
        /\ \A j \in Servers \ {k} : checker'[j] = checker[j]
    BY <1>10, FailoverConnectShape
  <2>2. isFailingOver
    BY <2>1 DEF FailingInv, InFailover
  <2>3. \A j \in Servers : checker[j].pc # "none" => j <= currentServerIndex /\ checker[j].once
    BY <2>2 DEF OnceInv
  <2>4. \A j \in Servers : checker'[j].pc # "none" =>
          j <= currentServerIndex /\ checker'[j].once
    BY <2>1, <2>3
  <2>5. QED
    BY <2>1, <2>4 DEF OnceInv
<1>11. ASSUME NEW k \in Servers, FailoverConnected(k) PROVE OnceInv'
  <2>1. /\ checker[k].pc = "wait" /\ ctx = currentServerIndex /\ ctx \in Servers
        /\ UNCHANGED <<currentServerIndex, fatalErrCh>> /\ ~isFailingOver'
        /\ \A j \in Servers \ {k, ctx} : checker'[j] = checker[j]
        /\ checker'[k].pc = "running" /\ checker'[k].once = checker[k].once
    BY <1>11, FailoverConnectedShape
  <2>2. checker'[ctx] = NewHealthChecker
    BY <1>11, FailoverConnectedShape
  <2>3. isFailingOver /\ ~fatalErrCh
    BY <2>1 DEF FailingInv, InFailover
  <2>4. \A j \in Servers : checker[j].pc # "none" => j <= currentServerIndex /\ checker[j].once
    BY <2>3 DEF OnceInv
  <2>5. \A j \in Servers : checker'[j].pc # "wait"
    <3>1. \A j \in Servers \ {k} : checker[j].pc # "wait"
      BY <2>1 DEF FailingInv, InFailover
    <3>2. QED
      BY <2>1, <2>2, <3>1
  <2>6. \A j \in Servers : checker'[j].pc # "none" => j <= currentServerIndex
    BY <2>1, <2>4
  <2>7. \A j \in Servers : checker'[j].pc # "none" /\ ~checker'[j].once => j = currentServerIndex
    BY <2>1, <2>4
  <2>8. QED
    BY <2>1, <2>3, <2>5, <2>6, <2>7 DEF OnceInv
<1>12. ASSUME NEW k \in Servers, FailoverFailed(k) PROVE OnceInv'
  BY <1>12, FailoverFailedShape
     DEF OnceInv, client, connector, InFailover, FailingInv
<1>13. CASE Stop
  BY <1>13, StopShape
     DEF OnceInv, client, connector
<1>14. CASE UNCHANGED vars
  BY <1>14
     DEF OnceInv, vars, client, world, connector
<1>15. QED
  BY <1>1, <1>2, <1>3, <1>4, <1>5, <1>6, <1>7, <1>8, <1>9, <1>10, <1>11, <1>12, <1>13, <1>14,
     NextCases

\* Stopping the old checker, cancelling its context and starting the new one leave no gap.
LEMMA MonitorStep ==
  ASSUME TypeOK, FallbackInv, OfferedInv, FailingInv, ContextInv, OnceInv, MonitorInv, [Next]_vars
  PROVE  MonitorInv'
<1>0. /\ currentServerIndex \in 0 .. N /\ ctx \in 0 .. N /\ cancelled \subseteq 0 .. N
      /\ N \in Nat /\ stopped \in BOOLEAN
  BY FailoverAssumption DEF TypeOK
<1>1. ASSUME NEW i \in Servers, ConnectStep(i) PROVE MonitorInv'
  BY <1>1, ConnectShape
     DEF MonitorInv, client, connector, Settled, Live, Told
<1>2. ASSUME NEW i \in Servers, CheckerStep(i) PROVE MonitorInv'
  <2> SUFFICES ASSUME Settled', ~stopped', currentServerIndex' < N
               PROVE  /\ Live(currentServerIndex)'
                      /\ checker'[currentServerIndex'].ctx = ctx'
                      /\ healthChecker' = currentServerIndex'
    BY DEF MonitorInv
  <2>1. UNCHANGED <<connector, fallback, stopped>>
    BY <1>2, CheckerShape
  <2>2. /\ Live(currentServerIndex) /\ checker[currentServerIndex].ctx = ctx
        /\ healthChecker = currentServerIndex /\ currentServerIndex \in Servers
    BY <2>1 DEF MonitorInv, OfferedInv, Settled, connector
  <2>3. CASE i = currentServerIndex
    BY <1>2, <2>1, <2>2, <2>3, CheckerShape DEF Live, Told, connector
  <2>4. CASE i # currentServerIndex
    BY <1>2, <2>1, <2>2, <2>4, CheckerShape DEF Live, Told, connector
  <2>5. QED
    BY <2>3, <2>4
<1>3. ASSUME NEW i \in Servers, ServerDies(i) PROVE MonitorInv'
  BY <1>3
     DEF MonitorInv, ServerDies, client, world, connector, Settled, Live, Told
<1>4. CASE FallbackTry
  BY <1>4, FallbackTryShape
     DEF MonitorInv, client, connector, Settled, Live, Told
<1>5. CASE FallbackConnected
  <2>1. /\ currentServerIndex' = fallback.server /\ healthChecker' = fallback.server
        /\ ctx' = ctx /\ cancelled' = {}
    BY <1>5, FallbackConnectedShape DEF FallbackInv
  <2>2. checker'[currentServerIndex'] = NewHealthChecker
    BY <1>5, FallbackConnectedShape
  <2>3. QED
    BY <2>1, <2>2 DEF MonitorInv, Live, Told, NewHealthChecker
<1>6. ASSUME FallbackFailed \/ FallbackTimeout PROVE MonitorInv'
  BY <1>6, FallbackNextShape
     DEF MonitorInv, client, connector, Settled, Live, Told
<1>7. ASSUME NEW k \in Servers, FailoverEnter(k) PROVE MonitorInv'
  <2> SUFFICES ASSUME Settled', ~stopped', currentServerIndex' < N
               PROVE  /\ Live(currentServerIndex)'
                      /\ checker'[currentServerIndex'].ctx = ctx'
                      /\ healthChecker' = currentServerIndex'
    BY DEF MonitorInv
  <2>1. /\ UNCHANGED <<fallback, currentServerIndex, ctx, healthChecker, fatalErrCh, stopped>>
        /\ \A j \in Servers \ {k} : checker'[j] = checker[j]
    BY <1>7, EnterShape
  <2>2. checker[k].once /\ UNCHANGED <<isFailingOver, cancelled>>
    BY <1>7, EnterShape DEF Settled
  <2>3. /\ Live(currentServerIndex) /\ checker[currentServerIndex].ctx = ctx
        /\ healthChecker = currentServerIndex /\ currentServerIndex \in Servers
    BY <2>1, <2>2 DEF MonitorInv, OfferedInv, Settled
  <2>4. currentServerIndex # k
    BY <2>2, <2>3 DEF Live
  <2>5. QED
    BY <2>1, <2>2, <2>3, <2>4 DEF Live, Told
<1>8. ASSUME NEW k \in Servers, FailoverNoNext(k) PROVE MonitorInv'
  <2>1. currentServerIndex' = N
    BY <1>8, NoNextShape
  <2>2. QED
    BY <1>0, <2>1 DEF MonitorInv
<1>9. ASSUME NEW k \in Servers, FailoverStopChecker(k) PROVE MonitorInv'
  <2>1. checker[k].pc \in InFailover /\ UNCHANGED isFailingOver
    BY <1>9, StopCheckerShape DEF InFailover
  <2>2. isFailingOver'
    BY <2>1 DEF FailingInv
  <2>3. QED
    BY <2>2 DEF MonitorInv, Settled
<1>10. ASSUME NEW k \in Servers, FailoverConnect(k) PROVE MonitorInv'
  <2>1. checker[k].pc \in InFailover /\ UNCHANGED isFailingOver
    BY <1>10, FailoverConnectShape DEF InFailover
  <2>2. isFailingOver'
    BY <2>1 DEF FailingInv
  <2>3. QED
    BY <2>2 DEF MonitorInv, Settled
<1>11. ASSUME NEW k \in Servers, FailoverConnected(k) PROVE MonitorInv'
  <2>1. /\ ctx = currentServerIndex /\ healthChecker' = ctx
        /\ UNCHANGED <<currentServerIndex, ctx, cancelled, stopped>> /\ checker[k].pc = "wait"
    BY <1>11, FailoverConnectedShape
  <2>2. checker'[ctx] = NewHealthChecker
    BY <1>11, FailoverConnectedShape
  <2>3. ~stopped => ctx \notin cancelled
    BY <2>1 DEF ContextInv
  <2>4. QED
    BY <2>1, <2>2, <2>3 DEF MonitorInv, Live, Told, NewHealthChecker
<1>12. ASSUME NEW k \in Servers, FailoverFailed(k) PROVE MonitorInv'
  <2>1. isFailingOver /\ (UNCHANGED isFailingOver \/ fatalErrCh')
    BY <1>12, FailoverFailedShape DEF FailingInv, InFailover
  <2>2. QED
    BY <2>1 DEF MonitorInv, Settled
<1>13. CASE Stop
  BY <1>13, StopShape
     DEF MonitorInv, client, connector, Settled, Live, Told
<1>14. CASE UNCHANGED vars
  BY <1>14
     DEF MonitorInv, vars, client, world, connector, Settled, Live, Told
<1>15. QED
  BY <1>1, <1>2, <1>3, <1>4, <1>5, <1>6, <1>7, <1>8, <1>9, <1>10, <1>11, <1>12, <1>13, <1>14,
     NextCases

\* Somebody who waits for a Connect is the only one who is connecting.
LEMMA AwaitedFacts ==
  ASSUME TypeOK, FallbackInv, FailingInv, OfferedInv
  PROVE  /\ Awaited # 0 => /\ ~Settled /\ ~fatalErrCh /\ fallback.pc \in {"wait", "done"}
                           /\ \A k \in Servers : checker[k].pc # "pick"
         /\ \A k \in Servers : checker[k].pc \in {"pick", "disconnect"} => Awaited = 0
         /\ \A k \in Servers : checker[k].pc = "wait" =>
              fallback.pc = "done" /\ Awaited = currentServerIndex /\ Awaited # 0
         /\ fallback.pc = "wait" => Awaited = fallback.server /\ Awaited # 0
         /\ fallback.pc \in {"try", "failed"} => Awaited = 0
<1>1. fallback \in Fallbacks /\ isFailingOver \in BOOLEAN
  BY DEF TypeOK, Fallbacks
<1>2. \A k \in Servers : checker[k].pc # "none" => fallback.pc = "done"
  BY DEF FallbackInv
<1>3. /\ fallback.server # 0
      /\ fallback.pc = "done" => currentServerIndex # 0
  BY <1>1, FailoverAssumption DEF Fallbacks, OfferedInv, Servers
<1>4. \A k \in Servers : checker[k].pc = "wait" => isFailingOver /\ ~fatalErrCh
  BY DEF FailingInv, InFailover
<1>5. \A j, k \in Servers : checker[j].pc \in {"pick", "disconnect"} => checker[k].pc # "wait"
  BY DEF FailingInv, InFailover
<1>6. QED
  BY <1>1, <1>2, <1>3, <1>4, <1>5 DEF Awaited, Settled, FallbackInv, Fallbacks

\* A step that moves nobody into or out of a place where a Connect is waited for.
LEMMA AgreeKept ==
  ASSUME AgreeInv,
         UNCHANGED <<isConnected, xServer, connect, fallback, currentServerIndex,
                     isFailingOver, fatalErrCh, abandoned>>,
         \A j \in Servers : /\ checker'[j].pc = "wait" <=> checker[j].pc = "wait"
                            /\ checker'[j].pc = "pick" <=> checker[j].pc = "pick"
  PROVE  AgreeInv'
<1>1. Awaited' = Awaited /\ Settled' = Settled
  BY DEF Awaited, Settled
<1>2. QED
  BY <1>1 DEF AgreeInv

\* What the Client is connected to is what the connector takes for the current server.
LEMMA AgreeStep ==
  ASSUME TypeOK, FallbackInv, OfferedInv, FailingInv, ContextInv, OnceInv, AgreeInv,
         TypeOK', FallbackInv', OfferedInv', FailingInv', [Next]_vars
  PROVE  AgreeInv'
<1> SUFFICES ASSUME abandoned' = {} PROVE AgreeInv'
  BY DEF AgreeInv
<1>0. /\ currentServerIndex \in 0 .. N /\ N \in Nat \ {0} /\ isFailingOver \in BOOLEAN
      /\ connect \in [Servers -> {"none", "start", "drop", "relock", "body", "ok", "err"}]
  BY FailoverAssumption DEF TypeOK
<1>1. ASSUME NEW i \in Servers, ConnectStep(i) PROVE AgreeInv'
  <2>1. /\ UNCHANGED <<fallback, connector, checker, abandoned>> /\ connect[i] \in Pending
        /\ \A j \in Servers \ {i} : connect'[j] = connect[j]
    BY <1>1, ConnectShape
  <2>2. Awaited = i /\ Awaited # 0
    BY <2>1, <1>0 DEF AgreeInv, Servers
  <2>3. Awaited' = Awaited
    BY <2>1 DEF Awaited, connector
  <2>4. ~isConnected
    BY <2>1, <2>2 DEF AgreeInv, Pending
  <2>5. IF connect'[i] = "ok" THEN isConnected' /\ xServer' = i ELSE ~isConnected'
    <3> USE <1>0, <2>4 DEF ConnectGoto
    <3>1. CASE ConnectLock(i)
      BY <3>1 DEF ConnectLock
    <3>2. CASE ConnectDrop(i)
      BY <3>2 DEF ConnectDrop
    <3>3. CASE ConnectRelock(i)
      BY <3>3 DEF ConnectRelock
    <3>4. CASE ConnectEnds(i)
      BY <3>4 DEF ConnectEnds
    <3>5. QED
      BY <1>1, <3>1, <3>2, <3>3, <3>4 DEF ConnectStep
  <2>6. /\ ~Settled' /\ ~fatalErrCh' /\ fallback'.pc \notin {"try", "failed"}
        /\ \A k \in Servers : checker'[k].pc # "pick"
    BY <2>2, <2>1, AwaitedFacts DEF Settled, connector
  <2>7. QED
    BY <2>1, <2>2, <2>3, <2>5, <2>6 DEF AgreeInv
<1>2. ASSUME NEW i \in Servers, CheckerStep(i) PROVE AgreeInv'
  <2>1. /\ UNCHANGED <<isConnected, xServer, connect, fallback, currentServerIndex,
                       isFailingOver, fatalErrCh, abandoned>>
        /\ \A j \in Servers \ {i} : checker'[j] = checker[j]
        /\ checker[i].pc \notin {"wait", "pick"} /\ checker'[i].pc \notin {"wait", "pick"}
    BY <1>2, CheckerShape DEF client, connector
  <2>2. QED
    BY <2>1, AgreeKept
<1>3. ASSUME NEW i \in Servers, ServerDies(i) PROVE AgreeInv'
  BY <1>3, AgreeKept DEF ServerDies, client, connector
<1>4. CASE FallbackTry
  <2>1. /\ UNCHANGED <<client, connector, checker, abandoned>> /\ fallback.pc = "try"
        /\ fallback'.server = fallback.server /\ fallback'.pc \in {"failed", "wait"}
        /\ fallback'.pc = "failed" => UNCHANGED connect
        /\ fallback'.pc = "wait" => /\ fallback.server \in Servers
                                   /\ connect' = [connect EXCEPT ![fallback.server] = "start"]
    BY <1>4, FallbackTryShape
  <2>2. Awaited = 0 /\ ~isConnected /\ ~fatalErrCh /\ ~Settled'
    BY <2>1, AwaitedFacts DEF AgreeInv, FallbackInv, Settled
  <2>3. /\ \A i \in Servers : connect[i] \notin Pending
        /\ \A k \in Servers : checker'[k].pc = "none"
    BY <2>1, <2>2, <1>0 DEF AgreeInv, FallbackInv, Servers
  <2>4. CASE fallback'.pc = "failed"
    BY <2>1, <2>2, <2>3, <2>4 DEF AgreeInv, Awaited, client, connector
  <2>5. CASE fallback'.pc = "wait"
    <3>1. Awaited' = fallback.server /\ connect'[fallback.server] = "start"
      BY <1>0, <2>1, <2>5 DEF Awaited
    <3>2. \A i \in Servers : connect'[i] \in Pending => i = fallback.server
      BY <1>0, <2>1, <2>3, <2>5
    <3>3. QED
      BY <2>1, <2>2, <2>3, <2>5, <3>1, <3>2 DEF AgreeInv, client, connector
  <2>6. QED
    BY <2>1, <2>4, <2>5
<1>5. CASE FallbackConnected
  <2>1. /\ UNCHANGED <<client, connect, fatalErrCh, abandoned>>
        /\ fallback.pc = "wait" /\ fallback'.pc = "done"
        /\ connect[fallback.server] = "ok" /\ currentServerIndex' = fallback.server
        /\ \A j \in Servers \ {fallback.server} : checker'[j] = checker[j]
    BY <1>5, FallbackConnectedShape
  <2>2. checker'[fallback.server].pc = "running"
    BY <1>5, FallbackConnectedShape DEF NewHealthChecker
  <2>3. Awaited = fallback.server /\ Awaited # 0 /\ ~fatalErrCh
    BY <2>1, AwaitedFacts
  <2>4. isConnected /\ xServer = fallback.server
    BY <2>1, <2>3 DEF AgreeInv
  <2>5. \A k \in Servers : checker'[k].pc \notin {"wait", "pick"}
    BY <2>1, <2>2 DEF FallbackInv
  <2>6. Awaited' = 0
    BY <2>1, <2>5 DEF Awaited
  <2>7. \A i \in Servers : connect[i] \notin Pending
    BY <2>1, <2>3 DEF AgreeInv, Pending
  <2>8. QED
    BY <2>1, <2>3, <2>4, <2>5, <2>6, <2>7 DEF AgreeInv, client
<1>6. ASSUME FallbackFailed \/ FallbackTimeout PROVE AgreeInv'
  <2>1. /\ UNCHANGED <<client, connect, connector, checker, abandoned>>
        /\ fallback.pc = "wait" /\ fallback'.pc = "try" /\ connect[fallback.server] = "err"
    BY <1>6, FallbackNextShape
  <2>2. Awaited = fallback.server /\ Awaited # 0 /\ ~fatalErrCh
    BY <2>1, AwaitedFacts
  <2>3. ~isConnected /\ \A i \in Servers : connect[i] \notin Pending
    BY <2>1, <2>2 DEF AgreeInv, Pending
  <2>4. /\ \A k \in Servers : checker'[k].pc = "none"
        /\ ~Settled'
    BY <2>1 DEF FallbackInv, Settled
  <2>5. Awaited' = 0
    BY <2>1, <2>4 DEF Awaited
  <2>6. QED
    BY <2>1, <2>3, <2>4, <2>5 DEF AgreeInv, client
<1>7. ASSUME NEW k \in Servers, FailoverEnter(k) PROVE AgreeInv'
  <2>1. /\ UNCHANGED <<client, connect, fallback, currentServerIndex, fatalErrCh, abandoned>>
        /\ checker[k].pc = "callback"
        /\ \A j \in Servers \ {k} : checker'[j] = checker[j]
        /\ checker[k].once \/ isFailingOver =>
             checker'[k].pc = "running" /\ UNCHANGED isFailingOver
        /\ ~(checker[k].once \/ isFailingOver) => checker'[k].pc = "pick" /\ isFailingOver'
    BY <1>7, EnterShape
  <2>2. CASE checker[k].once \/ isFailingOver
    BY <2>1, <2>2, AgreeKept DEF client
  <2>3. CASE ~(checker[k].once \/ isFailingOver)
    <3>1. ~fatalErrCh /\ fallback.pc = "done"
      BY <2>1, <2>3 DEF OnceInv, FallbackInv
    <3>2. isConnected /\ xServer = currentServerIndex
      BY <2>1, <2>3, <3>1 DEF AgreeInv, Settled
    <3>3. \A j \in Servers : checker[j].pc # "wait" /\ checker'[j].pc # "wait"
      BY <2>1, <2>3 DEF FailingInv, InFailover
    <3>4. Awaited = 0 /\ Awaited' = 0 /\ ~Settled'
      BY <2>1, <2>3, <3>1, <3>3 DEF Awaited, Settled
    <3>5. QED
      BY <2>1, <3>1, <3>2, <3>4 DEF AgreeInv, client
  <2>4. QED
    BY <2>2, <2>3
<1>8. ASSUME NEW k \in Servers, FailoverNoNext(k) PROVE AgreeInv'
  <2>1. /\ UNCHANGED <<client, connect, fallback, currentServerIndex, fatalErrCh, abandoned>>
        /\ checker[k].pc = "pick" /\ currentServerIndex = N
        /\ \A j \in Servers \ {k} : checker'[j] = checker[j]
        /\ checker'[k].pc = "running"
    BY <1>8, NoNextShape
  <2>2. isConnected /\ xServer = currentServerIndex
    BY <2>1 DEF AgreeInv
  <2>3. \A j \in Servers : checker[j].pc # "wait" /\ checker'[j].pc # "wait"
    BY <2>1 DEF FailingInv, InFailover
  <2>4. ~fatalErrCh /\ fallback.pc = "done"
    BY <2>1 DEF FailingInv, InFailover, FallbackInv
  <2>5. Awaited = 0 /\ Awaited' = 0
    BY <2>1, <2>3, <2>4 DEF Awaited
  <2>6. QED
    BY <2>1, <2>2, <2>4, <2>5 DEF AgreeInv, client
<1>9. ASSUME NEW k \in Servers, FailoverStopChecker(k) PROVE AgreeInv'
  <2>1. /\ UNCHANGED <<client, connect, fallback, currentServerIndex, isFailingOver,
                       fatalErrCh, abandoned>>
        /\ checker[k].pc = "pick" /\ currentServerIndex < N
        /\ \A j \in Servers : checker'[j].pc = IF j = k THEN "disconnect" ELSE checker[j].pc
    BY <1>9, StopCheckerShape
  <2>2. Awaited' = Awaited
    BY <2>1 DEF Awaited
  <2>3. Settled' = Settled /\ currentServerIndex' # N
    BY <1>0, <2>1 DEF Settled
  <2>4. QED
    BY <2>1, <2>2, <2>3 DEF AgreeInv, client
<1>10. ASSUME NEW k \in Servers, FailoverConnect(k) PROVE AgreeInv'
  <2>1. /\ UNCHANGED <<fallback, isFailingOver, fatalErrCh, abandoned>>
        /\ checker[k].pc = "disconnect" /\ checker'[k].pc = "wait"
        /\ currentServerIndex' \in Servers /\ isConnected' = FALSE
        /\ connect' = [connect EXCEPT ![currentServerIndex'] = "start"]
        /\ \A j \in Servers \ {k} : checker'[j] = checker[j]
    BY <1>10, FailoverConnectShape
  <2>2. Awaited = 0 /\ fallback.pc = "done"
    BY <2>1, AwaitedFacts DEF FallbackInv
  <2>3. \A i \in Servers : connect[i] \notin Pending
    BY <1>0, <2>1, <2>2 DEF AgreeInv, Servers
  <2>4. Awaited' = currentServerIndex'
    BY <2>1, <2>2 DEF Awaited
  <2>5. /\ connect'[currentServerIndex'] = "start"
        /\ \A i \in Servers : connect'[i] \in Pending => i = currentServerIndex'
    BY <1>0, <2>1, <2>3
  <2>6. ~Settled' /\ ~fatalErrCh' /\ \A j \in Servers : checker'[j].pc # "pick"
    BY <2>1 DEF FailingInv, InFailover, Settled
  <2>7. QED
    BY <2>1, <2>2, <2>4, <2>5, <2>6 DEF AgreeInv
<1>11. ASSUME NEW k \in Servers, FailoverConnected(k) PROVE AgreeInv'
  <2>1. /\ UNCHANGED <<client, connect, fallback, currentServerIndex, fatalErrCh, abandoned>>
        /\ checker[k].pc = "wait" /\ connect[ctx] = "ok" /\ ctx = currentServerIndex
        /\ \A j \in Servers \ {k, ctx} : checker'[j] = checker[j]
        /\ checker'[k].pc = "running"
    BY <1>11, FailoverConnectedShape
  <2>2. checker'[ctx].pc = "running"
    <3>1. checker'[ctx] = NewHealthChecker
      BY <1>11, FailoverConnectedShape
    <3>2. QED
      BY <3>1 DEF NewHealthChecker
  <2>3. Awaited = currentServerIndex /\ Awaited # 0 /\ fallback.pc = "done" /\ ~fatalErrCh
    BY <2>1, AwaitedFacts
  <2>4. isConnected /\ xServer = currentServerIndex
    BY <2>1, <2>3 DEF AgreeInv
  <2>5. \A j \in Servers : connect[j] \notin Pending
    BY <2>1, <2>3 DEF AgreeInv, Pending
  <2>6. \A j \in Servers : checker'[j].pc \notin {"wait", "pick"}
    BY <2>1, <2>2 DEF FailingInv, InFailover
  <2>7. Awaited' = 0
    BY <2>1, <2>3, <2>6 DEF Awaited
  <2>8. QED
    BY <2>1, <2>3, <2>4, <2>5, <2>6, <2>7 DEF AgreeInv, client
<1>12. ASSUME NEW k \in Servers, FailoverFailed(k) PROVE AgreeInv'
  <2>1. /\ UNCHANGED <<client, connect, fallback, currentServerIndex, ctx, abandoned>>
        /\ checker[k].pc = "wait" /\ connect[ctx] = "err"
        /\ \A j \in Servers \ {k} : checker'[j] = checker[j]
    BY <1>12, FailoverFailedShape
  <2>2. \/ /\ currentServerIndex < N /\ checker'[k].pc = "pick"
           /\ UNCHANGED <<isFailingOver, fatalErrCh>>
        \/ checker'[k].pc = "running" /\ fatalErrCh' = TRUE
    BY <1>12, FailoverFailedShape
  <2>3. /\ Awaited = currentServerIndex /\ Awaited # 0 /\ fallback.pc = "done"
        /\ ctx = currentServerIndex
    BY <2>1, AwaitedFacts DEF ContextInv
  <2>4. ~isConnected /\ \A j \in Servers : connect[j] \notin Pending
    BY <2>1, <2>3 DEF AgreeInv, Pending
  <2>5. /\ isFailingOver
        /\ \A j \in Servers : checker'[j].pc # "wait"
        /\ \A j \in Servers \ {k} : checker'[j].pc # "pick"
    BY <2>1, <2>2 DEF FailingInv, InFailover
  <2>6. Awaited' = 0 /\ ~Settled'
    BY <2>1, <2>2, <2>3, <2>5 DEF Awaited, Settled
  <2>7. ~(currentServerIndex = N /\ \E j \in Servers : checker'[j].pc = "pick")
    <3>1. CASE currentServerIndex < N
      BY <1>0, <3>1
    <3>2. CASE checker'[k].pc = "running"
      BY <2>5, <3>2
    <3>3. QED
      BY <2>2, <3>1, <3>2
  <2>8. QED
    BY <2>1, <2>3, <2>4, <2>6, <2>7 DEF AgreeInv, client
<1>13. CASE Stop
  BY <1>13, StopShape, AgreeKept DEF client
<1>14. CASE UNCHANGED vars
  BY <1>14, AgreeKept DEF vars, client, connector
<1>15. QED
  BY <1>1, <1>2, <1>3, <1>4, <1>5, <1>6, <1>7, <1>8, <1>9, <1>10, <1>11, <1>12, <1>13, <1>14,
     NextCases
------------------------------------------------------------------------------
\* The initial state satisfies all parts of the invariant.
LEMMA InitIInv == Init => IInv
<1> SUFFICES ASSUME Init PROVE IInv
  OBVIOUS
<1>1. /\ fallback.pc = "try" /\ fallback.server = 1
      /\ \A k \in Servers : checker[k].pc = "none" /\ connect[k] = "none"
      /\ currentServerIndex = 0 /\ ctx = 0 /\ healthChecker = 0 /\ cancelled = {}
      /\ ~isFailingOver /\ ~fatalErrCh /\ ~stopped /\ ~isConnected
  BY DEF Init, NoChecker
<1>2. FallbackInv /\ OfferedInv /\ FailingInv /\ ContextInv /\ OnceInv
  BY <1>1, FailoverAssumption
     DEF FallbackInv, OfferedInv, FailingInv, ContextInv, OnceInv, Reached, InFailover, Servers
<1>3. Awaited = 0 /\ ~Settled
  BY <1>1 DEF Awaited, Settled
<1>4. MonitorInv /\ AgreeInv
  BY <1>1, <1>3 DEF MonitorInv, AgreeInv, Pending
<1>5. QED
  BY <1>2, <1>4, InitTypeOK DEF IInv

\* The conjunction of the parts is inductive.
LEMMA IInvStep == IInv /\ [Next]_vars => IInv'
<1> SUFFICES ASSUME IInv, [Next]_vars PROVE IInv'
  OBVIOUS
<1> USE DEF IInv
<1>1. TypeOK' /\ FallbackInv'
  BY TypeStep, FallbackStepInv
<1>2. OfferedInv' /\ FailingInv'
  BY OfferedStep, FailingStep
<1>3. ContextInv' /\ OnceInv' /\ MonitorInv'
  BY ContextStep, OnceStep, MonitorStep
<1>4. AgreeInv'
  BY <1>1, <1>2, AgreeStep
<1>5. QED
  BY <1>1, <1>2, <1>3, <1>4

\* The conjunction of the parts holds in every state.
LEMMA Inductive == Spec => []IInv
BY InitIInv, IInvStep, PTL DEF Spec

\* Every variable keeps its type: in particular the index stays in the list, and the
\* fallback looks at most one past its end.
THEOREM TypeCorrect == Spec => []TypeOK
<1>1. IInv => TypeOK
  BY DEF IInv
<1>2. QED
  BY <1>1, Inductive, PTL

\* Between failovers, while a server is left, the current server is watched by the one
\* checker that can still start a failover, and the connector knows that checker.
THEOREM CurrentIsMonitored == Spec => []MonitoredUnlessLast
<1>1. IInv => MonitoredUnlessLast
  <2> SUFFICES ASSUME IInv, Settled, ~stopped, currentServerIndex < N
               PROVE  /\ Live(currentServerIndex)
                      /\ healthChecker = currentServerIndex
                      /\ \A k \in Servers : Live(k) => k = currentServerIndex
    BY DEF MonitoredUnlessLast
  <2>1. Live(currentServerIndex) /\ healthChecker = currentServerIndex
    BY DEF IInv, MonitorInv
  <2>2. \A k \in Servers : Live(k) => k = currentServerIndex
    BY DEF IInv, OnceInv, Live
  <2>3. QED
    BY <2>1, <2>2
<1>2. QED
  BY <1>1, Inductive, PTL

\* The connector and the Client agree on the server unless a Connect was left behind.
THEOREM ConnectorAgrees == Spec => []AgreeUnlessAbandoned
<1>1. IInv => AgreeUnlessAbandoned
  BY DEF IInv, AgreeInv, AgreeUnlessAbandoned
<1>2. QED
  BY <1>1, Inductive, PTL

\* ErrAllServersExhausted is sent only when all servers were tried, and then no checker
\* of this connector can ever start a failover.
THEOREM ExhaustionIsReal == Spec => []FatalMeansExhausted
<1>1. IInv => FatalMeansExhausted
  <2> SUFFICES ASSUME IInv, fatalErrCh
               PROVE  /\ currentServerIndex = N /\ \A i \in Servers : connect[i] # "none"
                      /\ abandoned = {} => ~isConnected
                      /\ ~isFailingOver /\ \A k \in Servers : ~Live(k)
    BY DEF FatalMeansExhausted
  <2>1. currentServerIndex = N /\ ~isFailingOver /\ fallback.pc = "done"
    BY DEF IInv, FailingInv, FallbackInv
  <2>2. \A i \in Servers : connect[i] # "none"
    BY <2>1, FailoverAssumption DEF IInv, OfferedInv, Reached, Servers
  <2>3. \A k \in Servers : ~Live(k)
    BY DEF IInv, OnceInv, Live
  <2>4. abandoned = {} => ~isConnected
    BY DEF IInv, AgreeInv
  <2>5. QED
    BY <2>1, <2>2, <2>3, <2>4
<1>2. QED
  BY <1>1, Inductive, PTL
------------------------------------------------------------------------------
(***************************************************************************)
(* The refinement of OrderedWalk: what the mapping in Failover shows of a  *)
(* state, and what each step does to it.                                   *)
(***************************************************************************)
Offered == {i \in Servers : connect[i] # "none"}

Phase == IF fatalErrCh THEN "exhausted"
         ELSE IF fallback.pc = "failed" THEN "failed"
         ELSE IF Waiting THEN "offering"
         ELSE IF fallback.pc = "done" /\ ~isFailingOver THEN "serving"
         ELSE "searching"

WalkStep ==
  \/ UNCHANGED <<Offered, Phase>>
  \/ /\ Phase = "searching" /\ Phase' = "offering"
     /\ \E i \in Servers : Offered = 1 .. i - 1 /\ Offered' = 1 .. i
  \/ Phase = "offering" /\ Phase' \in {"serving", "searching"} /\ UNCHANGED Offered
  \/ Phase = "serving" /\ Phase' = "searching" /\ UNCHANGED Offered
  \/ /\ Offered = Servers /\ UNCHANGED Offered
     /\ \/ Phase = "searching" /\ Phase' \in {"serving", "failed"}
        \/ Phase = "offering" /\ Phase' = "exhausted"

\* WalkStep is the next-state relation of OrderedWalk under the mapping.
LEMMA WalkStepIsWalk == WalkStep => [Walk!Next]_(Walk!vars)
<1> SUFFICES ASSUME WalkStep PROVE Walk!Next \/ UNCHANGED Walk!vars
  OBVIOUS
<1> USE DEF Walk!Next, Walk!Servers, Servers
<1>1. CASE UNCHANGED <<Offered, Phase>>
  BY <1>1 DEF Walk!vars, Offered, Phase
<1>2. CASE /\ Phase = "searching" /\ Phase' = "offering"
           /\ \E i \in Servers : Offered = 1 .. i - 1 /\ Offered' = 1 .. i
  BY <1>2 DEF Walk!Offer, Offered, Phase
<1>3. CASE Phase = "offering" /\ Phase' \in {"serving", "searching"} /\ UNCHANGED Offered
  BY <1>3 DEF Walk!Accept, Walk!Decline, Offered, Phase
<1>4. CASE Phase = "serving" /\ Phase' = "searching" /\ UNCHANGED Offered
  BY <1>4 DEF Walk!Leave, Offered, Phase
<1>5. CASE /\ Offered = Servers /\ UNCHANGED Offered
           /\ \/ Phase = "searching" /\ Phase' \in {"serving", "failed"}
              \/ Phase = "offering" /\ Phase' = "exhausted"
  BY <1>5 DEF Walk!EndOfList, Offered, Phase
<1>6. QED
  BY <1>1, <1>2, <1>3, <1>4, <1>5 DEF WalkStep

\* The servers offered are those down to the one reached.
LEMMA OfferedIsPrefix == IInv => Offered = 1 .. Reached
<1> SUFFICES ASSUME IInv PROVE Offered = 1 .. Reached
  OBVIOUS
<1> USE DEF IInv
<1>1. fallback \in Fallbacks /\ currentServerIndex \in 0 .. N /\ N \in Nat
  BY FailoverAssumption DEF TypeOK, Fallbacks
<1>2. Reached \in 0 .. N
  BY <1>1 DEF Reached, FallbackInv, Fallbacks
<1>3. \A i \in Servers : connect[i] # "none" <=> i <= Reached
  BY DEF OfferedInv
<1>4. QED
  BY <1>1, <1>2, <1>3 DEF Offered, Servers

\* What a caller sees while nothing happens, in a failover, and while somebody waits.
LEMMA PhaseFacts ==
  ASSUME TypeOK, FallbackInv, FailingInv
  PROVE  /\ fallback.pc = "try" => Phase = "searching"
         /\ fallback.pc = "wait" => Phase = "offering"
         /\ Settled => Phase = "serving"
         /\ \A k \in Servers : checker[k].pc \in {"pick", "disconnect"} => Phase = "searching"
         /\ \A k \in Servers : checker[k].pc = "wait" => Phase = "offering"
<1>1. isFailingOver \in BOOLEAN /\ fatalErrCh \in BOOLEAN
  BY DEF TypeOK
<1>2. fallback.pc = "try" => Phase = "searching"
  BY DEF FallbackInv, Phase, Waiting
<1>3. fallback.pc = "wait" => Phase = "offering"
  BY DEF FallbackInv, Phase, Waiting
<1>4. Settled => Phase = "serving"
  BY DEF FailingInv, InFailover, Settled, Phase, Waiting
<1>5. ASSUME NEW k \in Servers, checker[k].pc \in {"pick", "disconnect"}
      PROVE  Phase = "searching"
  <2>1. isFailingOver /\ ~fatalErrCh /\ fallback.pc = "done"
    BY <1>5 DEF FailingInv, InFailover, FallbackInv
  <2>2. \A j \in Servers : checker[j].pc # "wait"
    BY <1>5 DEF FailingInv, InFailover
  <2>3. QED
    BY <2>1, <2>2 DEF Phase, Waiting
<1>6. ASSUME NEW k \in Servers, checker[k].pc = "wait"
      PROVE  Phase = "offering"
  BY <1>6 DEF FailingInv, InFailover, FallbackInv, Phase, Waiting
<1>7. QED
  BY <1>2, <1>3, <1>4, <1>5, <1>6

\* A step that moves nobody into or out of a Connect shows nothing to the caller.
LEMMA PhaseKept ==
  ASSUME UNCHANGED <<fallback, isFailingOver, fatalErrCh>>,
         \A j \in Servers : checker'[j].pc = "wait" <=> checker[j].pc = "wait"
  PROVE  Phase' = Phase
BY DEF Phase, Waiting

\* Every step of the connector is a step of OrderedWalk or a stutter.
LEMMA StepIsWalkStep ==
  ASSUME IInv, IInv', [Next]_vars
  PROVE  WalkStep
<1>0. /\ Offered = 1 .. Reached /\ Offered' = 1 .. Reached'
      /\ currentServerIndex \in 0 .. N /\ N \in Nat \ {0} /\ isFailingOver \in BOOLEAN
  <2>1. Offered = 1 .. Reached
    BY OfferedIsPrefix
  <2>2. (Offered = 1 .. Reached)'
    BY OfferedIsPrefix, PTL
  <2>3. QED
    BY <2>1, <2>2, FailoverAssumption DEF IInv, TypeOK
<1> USE DEF IInv
<1>1. ASSUME NEW i \in Servers, ConnectStep(i) PROVE WalkStep
  <2>1. UNCHANGED <<fallback, connector, checker>>
    BY <1>1, ConnectShape
  <2>2. Phase' = Phase /\ Reached' = Reached
    BY <2>1, PhaseKept DEF Reached, connector
  <2>3. QED
    BY <1>0, <2>2 DEF WalkStep
<1>2. ASSUME NEW i \in Servers, CheckerStep(i) PROVE WalkStep
  <2>1. /\ UNCHANGED <<connect, fallback, connector>>
        /\ \A j \in Servers \ {i} : checker'[j] = checker[j]
        /\ checker[i].pc # "wait" /\ checker'[i].pc # "wait"
    BY <1>2, CheckerShape
  <2>2. Phase' = Phase
    BY <2>1, PhaseKept DEF connector
  <2>3. QED
    BY <2>1, <2>2 DEF WalkStep, Offered
<1>3. ASSUME NEW i \in Servers, ServerDies(i) PROVE WalkStep
  BY <1>3, PhaseKept DEF ServerDies, connector, WalkStep, Offered
<1>4. CASE FallbackTry
  <2>1. /\ fallback.pc = "try" /\ Phase = "searching" /\ fallback.server \in 1 .. N + 1
        /\ fallback'.server = fallback.server
    BY <1>4, FallbackTryShape, PhaseFacts
  <2>2. Offered = 1 .. fallback.server - 1
    BY <1>0, <2>1 DEF Reached
  <2>3. CASE fallback.server = N + 1 /\ fallback'.pc = "failed" /\ UNCHANGED connect
    <3>1. Phase' = "failed"
      BY <2>1, <2>3, <1>4, FallbackTryShape DEF FallbackInv, Phase, connector
    <3>2. Offered = Servers /\ Offered' = Offered
      BY <1>0, <2>2, <2>3 DEF Offered, Servers
    <3>3. QED
      BY <2>1, <3>1, <3>2 DEF WalkStep
  <2>4. CASE fallback.server \in Servers /\ fallback'.pc = "wait"
    <3>1. Phase' = "offering"
      BY <2>4, PhaseFacts, <1>4, FallbackTryShape DEF FallbackInv, Phase, Waiting, connector
    <3>2. Offered' = 1 .. fallback.server
      BY <1>0, <2>1, <2>4 DEF Reached
    <3>3. QED
      BY <2>1, <2>2, <2>4, <3>1, <3>2 DEF WalkStep
  <2>5. QED
    BY <1>4, <2>3, <2>4, FallbackTryShape
<1>5. CASE FallbackConnected
  <2>1. /\ UNCHANGED <<connect, isFailingOver, fatalErrCh>>
        /\ fallback.pc = "wait" /\ fallback'.pc = "done"
        /\ \A j \in Servers \ {fallback.server} : checker'[j] = checker[j]
    BY <1>5, FallbackConnectedShape
  <2>2. checker'[fallback.server] = NewHealthChecker
    BY <1>5, FallbackConnectedShape
  <2>3. \A j \in Servers : checker'[j].pc # "wait"
    BY <2>1, <2>2 DEF FallbackInv, NewHealthChecker
  <2>4. Phase = "offering"
    BY <2>1, PhaseFacts
  <2>5. Phase' = "serving"
    BY <2>1, <2>3 DEF FallbackInv, Phase, Waiting
  <2>6. QED
    BY <2>1, <2>4, <2>5 DEF WalkStep, Offered
<1>6. ASSUME FallbackFailed \/ FallbackTimeout PROVE WalkStep
  <2>1. /\ UNCHANGED <<connect, connector, checker>> /\ fallback.pc = "wait"
        /\ fallback'.pc = "try"
    BY <1>6, FallbackNextShape
  <2>2. Phase = "offering" /\ Phase' = "searching"
    BY <2>1, PhaseFacts DEF FallbackInv, Phase, Waiting, connector
  <2>3. QED
    BY <2>1, <2>2 DEF WalkStep, Offered
<1>7. ASSUME NEW k \in Servers, FailoverEnter(k) PROVE WalkStep
  <2>1. /\ UNCHANGED <<connect, fallback, fatalErrCh>> /\ checker[k].pc = "callback"
        /\ \A j \in Servers \ {k} : checker'[j] = checker[j]
    BY <1>7, EnterShape
  <2>2. CASE checker[k].once \/ isFailingOver
    <3>1. checker'[k].pc = "running" /\ UNCHANGED isFailingOver
      BY <1>7, <2>2, EnterShape
    <3>2. Phase' = Phase
      BY <2>1, <3>1, PhaseKept
    <3>3. QED
      BY <2>1, <3>2 DEF WalkStep, Offered
  <2>3. CASE ~(checker[k].once \/ isFailingOver)
    <3>1. checker'[k].pc = "pick" /\ isFailingOver'
      BY <1>7, <2>3, EnterShape
    <3>2. fallback.pc = "done" /\ ~fatalErrCh
      BY <2>1, <2>3 DEF OnceInv, FallbackInv
    <3>3. \A j \in Servers : checker'[j].pc # "wait"
      BY <2>1, <2>3, <3>1 DEF FailingInv, InFailover
    <3>4. Phase = "serving"
      BY <2>3, <3>2, PhaseFacts DEF Settled
    <3>5. Phase' = "searching"
      BY <2>1, <3>1, <3>2, <3>3 DEF Phase, Waiting
    <3>6. QED
      BY <2>1, <3>4, <3>5 DEF WalkStep, Offered
  <2>4. QED
    BY <2>2, <2>3
<1>8. ASSUME NEW k \in Servers, FailoverNoNext(k) PROVE WalkStep
  <2>1. /\ UNCHANGED <<connect, fallback, fatalErrCh>> /\ isFailingOver' = FALSE
        /\ checker[k].pc = "pick" /\ currentServerIndex = N
        /\ \A j \in Servers \ {k} : checker'[j] = checker[j]
        /\ checker'[k].pc = "running"
    BY <1>8, NoNextShape
  <2>2. /\ ~fatalErrCh /\ fallback.pc = "done"
        /\ \A j \in Servers : checker'[j].pc # "wait"
    BY <2>1 DEF FailingInv, InFailover, FallbackInv
  <2>3. Phase = "searching" /\ Phase' = "serving"
    BY <2>1, <2>2, PhaseFacts DEF Phase, Waiting
  <2>4. Offered = Servers /\ Offered' = Offered
    BY <1>0, <2>1, <2>2 DEF Reached, Servers, Offered
  <2>5. QED
    BY <2>3, <2>4 DEF WalkStep
<1>9. ASSUME NEW k \in Servers, FailoverStopChecker(k) PROVE WalkStep
  <2>1. /\ UNCHANGED <<connect, fallback, isFailingOver, fatalErrCh>> /\ checker[k].pc = "pick"
        /\ \A j \in Servers : checker'[j].pc = IF j = k THEN "disconnect" ELSE checker[j].pc
    BY <1>9, StopCheckerShape
  <2>2. Phase' = Phase
    BY <2>1, PhaseKept
  <2>3. QED
    BY <2>1, <2>2 DEF WalkStep, Offered
<1>10. ASSUME NEW k \in Servers, FailoverConnect(k) PROVE WalkStep
  <2>1. /\ UNCHANGED <<fallback, fatalErrCh>> /\ checker[k].pc = "disconnect"
        /\ currentServerIndex' = currentServerIndex + 1 /\ currentServerIndex' \in Servers
        /\ checker'[k].pc = "wait"
    BY <1>10, FailoverConnectShape
  <2>2. ~fatalErrCh /\ fallback.pc = "done"
    BY <2>1 DEF FailingInv, InFailover, FallbackInv
  <2>3. Phase = "searching" /\ Phase' = "offering"
    BY <2>1, <2>2, PhaseFacts DEF Phase, Waiting
  <2>4. Offered = 1 .. currentServerIndex' - 1 /\ Offered' = 1 .. currentServerIndex'
    BY <1>0, <2>1, <2>2 DEF Reached
  <2>5. QED
    BY <2>1, <2>3, <2>4 DEF WalkStep
<1>11. ASSUME NEW k \in Servers, FailoverConnected(k) PROVE WalkStep
  <2>1. /\ UNCHANGED <<connect, fallback, fatalErrCh>> /\ isFailingOver' = FALSE
        /\ checker[k].pc = "wait" /\ checker'[k].pc = "running"
        /\ \A j \in Servers \ {k, ctx} : checker'[j] = checker[j]
    BY <1>11, FailoverConnectedShape
  <2>2. checker'[ctx] = NewHealthChecker
    BY <1>11, FailoverConnectedShape
  <2>3. /\ ~fatalErrCh /\ fallback.pc = "done"
        /\ \A j \in Servers \ {k, ctx} : checker'[j].pc # "wait"
    BY <2>1 DEF FailingInv, InFailover, FallbackInv
  <2>4. \A j \in Servers : checker'[j].pc # "wait"
    BY <2>1, <2>2, <2>3 DEF NewHealthChecker
  <2>5. Phase = "offering" /\ Phase' = "serving"
    BY <2>1, <2>3, <2>4, PhaseFacts DEF Phase, Waiting
  <2>6. QED
    BY <2>1, <2>5 DEF WalkStep, Offered
<1>12. ASSUME NEW k \in Servers, FailoverFailed(k) PROVE WalkStep
  <2>1. /\ UNCHANGED <<connect, fallback, currentServerIndex>> /\ checker[k].pc = "wait"
        /\ \A j \in Servers \ {k} : checker'[j] = checker[j]
    BY <1>12, FailoverFailedShape
  <2>2. /\ ~fatalErrCh /\ fallback.pc = "done" /\ isFailingOver
        /\ \A j \in Servers \ {k} : checker'[j].pc # "wait"
    BY <2>1 DEF FailingInv, InFailover, FallbackInv
  <2>3. Phase = "offering" /\ Offered' = Offered
    BY <2>1, PhaseFacts DEF Offered
  <2>4. CASE checker'[k].pc = "pick" /\ UNCHANGED <<isFailingOver, fatalErrCh>>
    <3>1. Phase' = "searching"
      BY <2>1, <2>2, <2>4 DEF Phase, Waiting
    <3>2. QED
      BY <2>3, <3>1 DEF WalkStep
  <2>5. CASE currentServerIndex = N /\ fatalErrCh' = TRUE
    <3>1. Phase' = "exhausted"
      BY <2>5 DEF Phase
    <3>2. Offered = Servers
      BY <1>0, <2>2, <2>5 DEF Reached, Servers
    <3>3. QED
      BY <2>3, <3>1, <3>2 DEF WalkStep
  <2>6. QED
    BY <1>12, <2>4, <2>5, FailoverFailedShape
<1>13. CASE Stop
  <2>1. /\ UNCHANGED <<connect, fallback, isFailingOver, fatalErrCh>>
        /\ \A j \in Servers : checker'[j].pc = checker[j].pc
    BY <1>13, StopShape
  <2>2. Phase' = Phase
    BY <2>1, PhaseKept
  <2>3. QED
    BY <2>1, <2>2 DEF WalkStep, Offered
<1>14. CASE UNCHANGED vars
  BY <1>14, PhaseKept DEF vars, connector, WalkStep, Offered
<1>15. QED
  BY <1>1, <1>2, <1>3, <1>4, <1>5, <1>6, <1>7, <1>8, <1>9, <1>10, <1>11, <1>12, <1>13, <1>14,
     NextCases

\* The connector implements the safety part of OrderedWalk: whatever its goroutines do,
\* the servers are offered in order and once, and it gives up only at the end.
THEOREM WalksInOrder == Spec => Walk!Safety
<1>1. Init => Walk!Init
  <2> SUFFICES ASSUME Init PROVE Walk!Init
    OBVIOUS
  <2>1. /\ \A i \in Servers : connect[i] = "none" /\ checker[i].pc = "none"
        /\ fallback.pc = "try" /\ ~fatalErrCh
    BY DEF Init, NoChecker
  <2>2. QED
    BY <2>1 DEF Walk!Init, Waiting
<1>2. IInv /\ IInv' /\ [Next]_vars => [Walk!Next]_(Walk!vars)
  BY StepIsWalkStep, WalkStepIsWalk
<1>3. QED
  BY <1>1, <1>2, Inductive, PTL DEF Spec, Walk!Safety
------------------------------------------------------------------------------
(***************************************************************************)
(* What the detailed connector does to each server of the list, and who    *)
(* holds c.mu.                                                             *)
(***************************************************************************)

\* A Connect is started only for a server that was never offered, and only when all those
\* before it were: no failover retries, skips or goes back to a server, even when timeouts
\* and Stop abandon the goroutines of earlier ones.
EachServerOnce ==
  [][\A i \in Servers : connect'[i] = "start" /\ connect[i] # "start" =>
       /\ connect[i] = "none"
       /\ \A j \in Servers : j < i => connect[j] # "none"]_vars

\* At most one goroutine looks for a server: one checker at most is in performFailover, and
\* none while ConnectWithFallback is still at work.
OneSearch ==
  \A j, k \in Servers :
    /\ checker[j].pc \in InFailover => fallback.pc = "done"
    /\ checker[j].pc \in InFailover /\ checker[k].pc \in InFailover => j = k

\* c.mu is held by the Connect that is between its lock and its unlock and by nobody else,
\* however many abandoned Connects are still running.
MutexInv == \A i \in Servers : connect[i] = "body" <=> mutex = i

\* The steps that start a Connect start the one after those already reached.
LEMMA StartsAreNext ==
  ASSUME IInv, [Next]_vars, NEW i \in Servers, connect'[i] = "start", connect[i] # "start"
  PROVE  i = Reached + 1 /\ Reached \in Nat
<1>0. /\ TypeOK /\ FallbackInv /\ FailingInv /\ ContextInv /\ OfferedInv /\ OnceInv
  BY DEF IInv
<1>a. /\ connect \in [Servers -> {"none", "start", "drop", "relock", "body", "ok", "err"}]
      /\ currentServerIndex \in Nat
  BY <1>0 DEF TypeOK
<1> DEFINE Same == connect' = connect
<1>1. ASSUME NEW k \in Servers, ConnectStep(k) PROVE FALSE
  BY <1>0, <1>1, ConnectShape
<1>2. ASSUME NEW k \in Servers, CheckerStep(k) \/ ServerDies(k) PROVE Same
  BY <1>0, <1>2, CheckerShape DEF ServerDies
<1>3. CASE FallbackTry
  <2>1. fallback.pc = "try" /\ fallback.server \in 1 .. N + 1
    BY <1>0, <1>3, FallbackTryShape
  <2>2. i = fallback.server
    BY <1>0, <1>3, <1>a, FallbackTryShape
  <2>3. QED
    BY <2>1, <2>2, FailoverAssumption DEF Reached, Servers
<1>4. CASE FallbackConnected
  BY <1>4 DEF FallbackConnected
<1>5. CASE FallbackFailed \/ FallbackTimeout
  BY <1>5 DEF FallbackFailed, FallbackTimeout
<1>6. ASSUME NEW k \in Servers,
             FailoverEnter(k) \/ FailoverNoNext(k) \/ FailoverStopChecker(k)
             \/ FailoverConnected(k) \/ FailoverFailed(k)
      PROVE  Same
  BY <1>6 DEF FailoverEnter, FailoverNoNext, FailoverStopChecker, FailoverConnected,
              FailoverFailed
<1>7. ASSUME NEW k \in Servers, FailoverConnect(k)
      PROVE  i = Reached + 1 /\ Reached \in Nat
  <2>1. /\ connect' = [connect EXCEPT ![currentServerIndex'] = "start"]
        /\ currentServerIndex' = currentServerIndex + 1 /\ currentServerIndex' \in Servers
        /\ checker[k].pc = "disconnect"
    BY <1>0, <1>7, FailoverConnectShape
  <2>2. i = currentServerIndex + 1
    BY <1>a, <2>1
  <2>3. fallback.pc = "done"
    BY <1>0, <2>1 DEF FallbackInv
  <2>4. QED
    BY <1>a, <2>2, <2>3 DEF Reached
<1>8. CASE Stop \/ UNCHANGED vars
  BY <1>8 DEF Stop, vars
<1>9. QED
  BY <1>1, <1>2, <1>3, <1>4, <1>5, <1>6, <1>7, <1>8, NextCases

\* For every list: each server is offered once, after all those before it.
THEOREM EachServerIsOfferedOnce == Spec => EachServerOnce
<1>1. ASSUME IInv, [Next]_vars
      PROVE  \A i \in Servers : connect'[i] = "start" /\ connect[i] # "start" =>
               /\ connect[i] = "none"
               /\ \A j \in Servers : j < i => connect[j] # "none"
  <2> SUFFICES ASSUME NEW i \in Servers, connect'[i] = "start", connect[i] # "start"
               PROVE  /\ connect[i] = "none"
                      /\ \A j \in Servers : j < i => connect[j] # "none"
    OBVIOUS
  <2>1. i = Reached + 1 /\ Reached \in Nat
    BY <1>1, StartsAreNext
  <2>2. \A j \in Servers : connect[j] # "none" <=> j <= Reached
    BY <1>1 DEF IInv, OfferedInv
  <2>3. \A j \in Servers : j \in Nat
    BY DEF Servers
  <2>4. QED
    BY <2>1, <2>2, <2>3
<1>2. IInv /\ [Next]_vars =>
        [\A i \in Servers : connect'[i] = "start" /\ connect[i] # "start" =>
           /\ connect[i] = "none"
           /\ \A j \in Servers : j < i => connect[j] # "none"]_vars
  BY <1>1
<1>3. QED
  BY <1>2, Inductive, PTL DEF Spec, EachServerOnce

\* The guard of performFailover and failoverOnce keep one search at a time.
THEOREM SearchesDoNotOverlap == Spec => []OneSearch
<1>1. IInv => OneSearch
  BY DEF IInv, FallbackInv, FailingInv, OneSearch, InFailover
<1>2. QED
  BY <1>1, Inductive, PTL

\* Only the steps of Connect touch c.mu; a Disconnect runs while it is free.
LEMMA MutexStep ==
  ASSUME IInv, MutexInv, [Next]_vars
  PROVE  MutexInv'
<1>0. /\ TypeOK /\ FallbackInv /\ FailingInv /\ ContextInv /\ OfferedInv /\ OnceInv
  BY DEF IInv
<1>a. /\ connect \in [Servers -> {"none", "start", "drop", "relock", "body", "ok", "err"}]
      /\ mutex \in 0 .. N /\ 0 \notin Servers
  BY <1>0 DEF TypeOK, Servers
<1> DEFINE Same == mutex' = mutex /\ connect' = connect
<1>1. ASSUME NEW k \in Servers, ConnectStep(k) PROVE MutexInv'
  BY <1>1, <1>a DEF MutexInv, ConnectStep, ConnectLock, ConnectDrop, ConnectRelock,
                    ConnectEnds, ConnectGoto
<1>2. ASSUME NEW k \in Servers, CheckerStep(k) \/ ServerDies(k) PROVE Same
  BY <1>0, <1>2, CheckerShape DEF ServerDies, client
<1>3. ASSUME NEW k \in Servers, connect' = [connect EXCEPT ![k] = "start"], mutex' = mutex,
             connect[k] = "none"
      PROVE  MutexInv'
  BY <1>3, <1>a DEF MutexInv
<1>4. ASSUME NEW k \in Servers, connect'[k] = "start", connect[k] # "start"
      PROVE  connect[k] = "none"
  <2>1. k = Reached + 1 /\ Reached \in Nat
    BY <1>4, StartsAreNext
  <2>2. connect[k] # "none" <=> k <= Reached
    BY <1>0 DEF OfferedInv
  <2>3. QED
    BY <2>1, <2>2
<1>5. CASE FallbackTry
  <2>1. CASE connect' = connect
    BY <1>0, <1>5, <2>1, FallbackTryShape DEF MutexInv, client
  <2>2. CASE fallback.server \in Servers
             /\ connect' = [connect EXCEPT ![fallback.server] = "start"]
    <3>1. mutex' = mutex
      BY <1>5 DEF FallbackTry, client
    <3>2. connect[fallback.server] # "body"
      <4>1. connect'[fallback.server] = "start"
        BY <1>a, <2>2
      <4>2. QED
        BY <1>4, <2>2, <4>1
    <3>3. QED
      BY <1>a, <2>2, <3>1, <3>2 DEF MutexInv
  <2>3. QED
    BY <1>0, <1>5, <2>1, <2>2, FallbackTryShape
<1>6. CASE FallbackConnected \/ FallbackFailed \/ FallbackTimeout
  BY <1>6 DEF FallbackConnected, FallbackFailed, FallbackTimeout, client, MutexInv
<1>7. ASSUME NEW k \in Servers,
             FailoverEnter(k) \/ FailoverNoNext(k) \/ FailoverStopChecker(k)
             \/ FailoverConnected(k) \/ FailoverFailed(k)
      PROVE  Same
  BY <1>7 DEF FailoverEnter, FailoverNoNext, FailoverStopChecker, FailoverConnected,
              FailoverFailed, client
<1>8. ASSUME NEW k \in Servers, FailoverConnect(k) PROVE MutexInv'
  <2> DEFINE n == currentServerIndex'
  <2>1. /\ connect' = [connect EXCEPT ![n] = "start"] /\ n \in Servers
    BY <1>0, <1>8, FailoverConnectShape
  <2>2. mutex' = mutex
    BY <1>8 DEF FailoverConnect, Disconnect
  <2>3. connect[n] # "body"
    <3>1. connect'[n] = "start"
      BY <1>a, <2>1
    <3>2. QED
      BY <1>4, <2>1, <3>1
  <2> HIDE DEF n
  <2>4. QED
    BY <1>a, <2>1, <2>2, <2>3 DEF MutexInv
<1>9. CASE Stop \/ UNCHANGED vars
  BY <1>9 DEF Stop, vars, client, MutexInv
<1>10. Same => MutexInv'
  BY DEF MutexInv
<1>11. QED
  BY <1>1, <1>2, <1>5, <1>6, <1>7, <1>8, <1>9, <1>10, NextCases

\* c.mu is never left locked by a Connect that is over, and never taken twice.
THEOREM MutexHeldByConnect == Spec => []MutexInv
<1>1. Init => MutexInv
  BY DEF Init, MutexInv, Servers
<1>2. IInv /\ MutexInv /\ [Next]_vars => MutexInv'
  BY MutexStep
<1>3. QED
  BY <1>1, <1>2, Inductive, PTL DEF Spec
==============================================================================
