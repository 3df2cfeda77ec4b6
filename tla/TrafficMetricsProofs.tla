-------------------------- MODULE TrafficMetricsProofs --------------------------
(***************************************************************************)
(* Proofs about TrafficMetrics, for every number of connections and of     *)
(* bytes, and with all its goroutines interleaved: who may hold the        *)
(* metrics port, that somebody brings its server up, and that no byte is   *)
(* counted twice.                                                          *)
(***************************************************************************)
EXTENDS TrafficMetrics, TLAPS

\* The calls of startMetricsUpdate: one for NewClientWithOpts and one for each connection.
CallInv ==
  /\ starts = IF pc \in {"stopServer", "makeServer"} THEN connection ELSE connection + 1
  /\ cancelled <= connection
  /\ pc = "stopServer" => isConnected /\ connection > 0
  /\ pc = "makeServer" => (isConnected <=> connection > 0)
  /\ connection = 0 => rx = 0 /\ ~tunOpen

\* An HTTP server is c.metricsServer until it is shut down, and a goroutine serves one that
\* was c.metricsServer.
EndpointInv ==
  /\ pc = "makeServer" => metricsServer = 0
  /\ \A k \in shut : k <= starts
  /\ metricsServer \notin shut
  /\ \A k \in Starts : reads[k] \in {0, metricsServer} \cup shut
  /\ listening \in {0, metricsServer}

\* What the kernel has counted for the connection that is not over.
Live == IF pc \in {"stopping", "down"} THEN 0 ELSE rx

\* As long as bytesRead is used only when it is a sample, the total and the gauge are behind
\* what the kernel has counted, and so is the sum a sample would make.
BytesInv ==
  /\ tunOpen => pc \in {"stopServer", "makeServer", "up", "closing"}
  /\ ~unsampled => /\ cumulativeBytesRead <= ended
                   /\ vpnBytesRead <= ended + Live
                   /\ sampled => cumulativeBytesRead + bytesRead <= ended + Live

IInv == TypeOK /\ CallInv /\ EndpointInv /\ BytesInv

\* TypeOK by the parts of the program.
CallOK ==
  /\ pc \in {"makeServer", "stopServer", "up", "closing", "waiting", "stopping", "down"}
  /\ connection \in 0 .. MaxConnections /\ cancelled \in 0 .. MaxConnections
  /\ isConnected \in BOOLEAN
  /\ starts \in 0 .. connection + 1
CountOK ==
  /\ tunOpen \in BOOLEAN /\ rx \in 0 .. MaxBytes
  /\ monitors \subseteq Connections
  /\ bytesRead \in 0 .. MaxBytes /\ cumulativeBytesRead \in Nat
  /\ vpnBytesRead \in Nat /\ looked \in 0 .. starts
  /\ sampled \in BOOLEAN /\ ended \in Nat /\ unsampled \in BOOLEAN
EndpointOK ==
  /\ metricsServer \in 0 .. starts /\ listening \in 0 .. starts
  /\ shut \subseteq Starts
  /\ serving \in [Starts -> {"none", "starting", "read", "called"}]
  /\ reads \in [Starts -> 0 .. starts]
  /\ panicked \in BOOLEAN

LEMMA TypeParts == TypeOK <=> CallOK /\ CountOK /\ EndpointOK
BY DEF TypeOK, CallOK, CountOK, EndpointOK
------------------------------------------------------------------------------
LEMMA InitInv == Init => IInv
<1> SUFFICES ASSUME Init PROVE IInv
  OBVIOUS
<1>1. 0 \in 0 .. MaxConnections /\ 0 \in 0 .. MaxBytes /\ 0 \in 0 .. 0 /\ 0 \in 0 .. 0 + 1
  BY MetricsAssumption
<1>2. TypeOK
  BY <1>1 DEF Init, TypeOK
<1>3. CallInv /\ EndpointInv /\ BytesInv
  BY DEF Init, CallInv, EndpointInv, BytesInv, Live, Starts
<1> QED
  BY <1>2, <1>3 DEF IInv

\* Calls: each connection has its call of startMetricsUpdate.
LEMMA CallStep ==
  ASSUME IInv, [Next]_vars
  PROVE  CallOK' /\ CallInv' /\ starts <= starts' /\ starts' \in Nat
<1> USE MetricsAssumption
<1>1. CASE Connect
  BY <1>1 DEF Connect, Goto, IInv, TypeOK, CallOK, CallInv
<1>2. CASE StopPrevious \/ StopServer
  BY <1>2 DEF StopPrevious, StopServer, Goto, tun, IInv, TypeOK, CallOK, CallInv
<1>3. CASE MakeServer
  BY <1>3 DEF MakeServer, Goto, tun, IInv, TypeOK, CallOK, CallInv
<1>4. CASE DisconnectMark
  <2>1. /\ pc = "up" /\ pc' = "closing" /\ ~isConnected' /\ isConnected' \in BOOLEAN
        /\ cancelled' = connection /\ UNCHANGED <<connection, starts, tunOpen, rx>>
    BY <1>4 DEF DisconnectMark, Goto, tun
  <2> QED
    BY <2>1 DEF IInv, TypeOK, CallOK, CallInv
<1>5. CASE DisconnectClose
  BY <1>5 DEF DisconnectClose, Goto, IInv, TypeOK, CallOK, CallInv
<1>6. CASE DisconnectError \/ DisconnectCount
  BY <1>6 DEF DisconnectError, DisconnectCount, Goto, tun, IInv, TypeOK, CallOK, CallInv
<1>7. CASE Transfer
  <2>1. connection > 0
    BY <1>7 DEF Transfer, IInv, TypeOK, CallInv
  <2> QED
    BY <1>7, <2>1 DEF Transfer, call, IInv, TypeOK, CallOK, CallInv
<1>8. CASE \/ UpdaterLooks \/ UpdaterSets
           \/ \E c \in Connections : MonitorTick(c) \/ MonitorEnds(c)
           \/ \E k \in Starts : ServerReads(k) \/ Listens(k)
           \/ UNCHANGED vars
  <2>1. UNCHANGED <<pc, connection, isConnected, cancelled, starts, rx, tunOpen>>
    BY <1>8 DEF UpdaterLooks, UpdaterSets, MonitorTick, MonitorEnds, ServerReads, Listens,
                vars, call, tun
  <2> QED
    BY <2>1 DEF IInv, TypeOK, CallOK, CallInv
<1> QED
  BY <1>1, <1>2, <1>3, <1>4, <1>5, <1>6, <1>7, <1>8 DEF Next, Call
------------------------------------------------------------------------------
(***************************************************************************)
(* The endpoint.                                                           *)
(***************************************************************************)
LEMMA ShutdownStep ==
  ASSUME IInv, ShutdownServer, starts' = starts, panicked' = panicked
  PROVE  EndpointOK' /\ EndpointInv'
<1>1. /\ shut' = IF metricsServer = 0 THEN shut ELSE shut \cup {metricsServer}
      /\ listening' = 0 /\ metricsServer' = 0
      /\ serving' = serving /\ reads' = reads
  BY DEF ShutdownServer, IInv, EndpointInv
<1>2. /\ starts \in 0 .. connection + 1 /\ connection \in 0 .. MaxConnections
      /\ metricsServer \in 0 .. starts /\ shut \subseteq Starts
  BY DEF IInv, TypeOK
<1>3. metricsServer # 0 => metricsServer \in Starts /\ metricsServer <= starts
  BY <1>2, MetricsAssumption DEF Starts
<1>4. EndpointOK'
  BY <1>1, <1>2, <1>3 DEF IInv, TypeOK, EndpointOK
<1>5. 0 \notin shut' /\ \A k \in shut' : k <= starts'
  BY <1>1, <1>2, <1>3 DEF IInv, EndpointInv, Starts
<1>6. \A k \in Starts : reads[k] \in {0} \cup shut'
  BY <1>1 DEF IInv, EndpointInv
<1> QED
  BY <1>1, <1>4, <1>5, <1>6 DEF EndpointInv

LEMMA MakeServerStep ==
  ASSUME IInv, MakeServer
  PROVE  EndpointOK' /\ EndpointInv'
<1>1. /\ metricsServer = 0 /\ listening = 0 /\ pc' # "makeServer"
      /\ starts' = starts + 1 /\ metricsServer' = starts + 1
      /\ serving' = [serving EXCEPT ![starts + 1] = "starting"]
      /\ UNCHANGED <<shut, reads, listening, panicked>>
  BY DEF MakeServer, Goto, IInv, EndpointInv
<1>2. starts \in Nat /\ starts + 1 \in 0 .. starts + 1 /\ 0 .. starts \subseteq 0 .. starts + 1
  BY MetricsAssumption DEF IInv, TypeOK
<1>3. EndpointOK'
  BY <1>1, <1>2 DEF IInv, TypeOK, EndpointOK
<1>4. /\ \A k \in shut : k <= starts + 1
      /\ starts + 1 \notin shut
  BY <1>2 DEF IInv, TypeOK, EndpointInv, Starts
<1>5. \A k \in Starts : reads[k] \in {0} \cup shut
  BY <1>1 DEF IInv, EndpointInv
<1> QED
  BY <1>1, <1>3, <1>4, <1>5 DEF EndpointInv

\* A goroutine that runs late finds its server replaced, and then it is shut down.
LEMMA ServeStep ==
  ASSUME IInv, NEW k \in Starts, ServerReads(k) \/ Listens(k)
  PROVE  EndpointOK' /\ EndpointInv'
<1>1. UNCHANGED <<pc, starts, metricsServer, shut>>
  BY DEF ServerReads, Listens, call
<1>2. /\ serving \in [Starts -> {"none", "starting", "read", "called"}]
      /\ reads \in [Starts -> 0 .. starts] /\ metricsServer \in 0 .. starts
      /\ reads[k] \in {0, metricsServer} \cup shut
  BY DEF IInv, TypeOK, EndpointInv
<1>3. CASE ServerReads(k)
  <2>1. /\ serving' = [serving EXCEPT ![k] = "read"]
        /\ reads' = [reads EXCEPT ![k] = metricsServer]
        /\ panicked' = (metricsServer = 0) /\ listening' = listening
    BY <1>3 DEF ServerReads
  <2>2. EndpointOK'
    BY <1>1, <1>2, <2>1 DEF IInv, TypeOK, EndpointOK
  <2>3. \A j \in Starts : reads'[j] \in {0, metricsServer} \cup shut
    BY <1>2, <2>1 DEF IInv, EndpointInv
  <2> QED
    BY <1>1, <2>1, <2>2, <2>3 DEF IInv, EndpointInv
<1>4. CASE Listens(k)
  <2>1. /\ serving' = [serving EXCEPT ![k] = "called"]
        /\ listening' = IF reads[k] \notin shut /\ listening = 0 THEN reads[k] ELSE listening
        /\ reads' = reads /\ panicked' = panicked
    BY <1>4 DEF Listens
  <2>2. EndpointOK'
    BY <1>1, <1>2, <2>1 DEF IInv, TypeOK, EndpointOK
  <2>3. listening' \in {0, metricsServer}
    BY <1>2, <2>1 DEF IInv, EndpointInv
  <2> QED
    BY <1>1, <2>1, <2>2, <2>3 DEF IInv, EndpointInv
<1> QED
  BY <1>3, <1>4

LEMMA EndpointStep ==
  ASSUME IInv, [Next]_vars
  PROVE  EndpointOK' /\ EndpointInv'
<1>1. CASE StopPrevious \/ StopServer
  BY <1>1, ShutdownStep DEF StopPrevious, StopServer
<1>2. CASE MakeServer
  BY <1>2, MakeServerStep
<1>3. ASSUME NEW k \in Starts, ServerReads(k) \/ Listens(k)
      PROVE  EndpointOK' /\ EndpointInv'
  BY <1>3, ServeStep
<1>4. CASE \/ Connect \/ DisconnectMark \/ DisconnectClose \/ DisconnectError
           \/ DisconnectCount \/ Transfer \/ UpdaterLooks \/ UpdaterSets
           \/ \E c \in Connections : MonitorTick(c) \/ MonitorEnds(c)
           \/ UNCHANGED vars
  <2>1. /\ UNCHANGED <<starts, metricsServer, shut, serving, reads, listening, panicked>>
        /\ pc' = "makeServer" => pc = "makeServer"
    BY <1>4 DEF Connect, DisconnectMark, DisconnectClose, DisconnectError, DisconnectCount,
                Transfer, UpdaterLooks, UpdaterSets, MonitorTick, MonitorEnds, Goto, vars,
                call, endpoint
  <2> QED
    BY <2>1 DEF IInv, TypeOK, EndpointOK, EndpointInv
<1> QED
  BY <1>1, <1>2, <1>3, <1>4 DEF Next, Call
------------------------------------------------------------------------------
(***************************************************************************)
(* The counters.                                                           *)
(***************************************************************************)
LEMMA CountStep ==
  ASSUME IInv, [Next]_vars
  PROVE  CountOK' /\ BytesInv'
<1>1. /\ connection \in Nat /\ rx \in Nat /\ bytesRead \in Nat /\ cumulativeBytesRead \in Nat
      /\ vpnBytesRead \in Nat /\ ended \in Nat /\ starts \in Nat /\ looked \in Nat
      /\ 0 \in 0 .. MaxBytes
  BY MetricsAssumption DEF IInv, TypeOK
<1>2. CASE Connect
  <2>1. connection + 1 \in Connections
    BY <1>1, <1>2, MetricsAssumption DEF Connect, Connections, IInv, TypeOK
  <2>2. /\ pc = "down" /\ pc' = "stopServer" /\ tunOpen' = TRUE /\ rx' = 0 /\ sampled' = FALSE
        /\ monitors' = monitors \cup {connection + 1}
        /\ UNCHANGED <<starts, bytesRead, cumulativeBytesRead, vpnBytesRead, looked, ended,
                       unsampled>>
    BY <1>2 DEF Connect, Goto, counts
  <2>3. CountOK'
    BY <1>1, <2>1, <2>2 DEF IInv, TypeOK, CountOK
  <2>4. BytesInv'
    BY <1>1, <2>2 DEF IInv, BytesInv, Live
  <2> QED
    BY <2>3, <2>4
<1>3. CASE StopPrevious \/ MakeServer \/ DisconnectMark \/ StopServer
  <2>1. UNCHANGED <<tunOpen, rx, monitors, bytesRead, cumulativeBytesRead, vpnBytesRead, looked,
                    sampled, ended, unsampled>>
    BY <1>3 DEF StopPrevious, MakeServer, DisconnectMark, StopServer, tun, counts, history
  <2>2. starts' \in Nat /\ starts <= starts'
    BY CallStep
  <2>3. CountOK'
    BY <1>1, <2>1, <2>2 DEF IInv, TypeOK, CountOK
  <2>4. Live' = Live /\ (tunOpen => pc' \in {"stopServer", "makeServer", "up", "closing"})
    BY <1>1, <1>3, <2>1 DEF StopPrevious, MakeServer, DisconnectMark, StopServer, Goto, Live,
                            IInv, TypeOK, CallInv, BytesInv
  <2>5. BytesInv'
    BY <2>1, <2>4 DEF IInv, BytesInv
  <2> QED
    BY <2>3, <2>5
<1>4. CASE DisconnectClose
  <2>1. /\ pc = "closing" /\ pc' = "waiting" /\ tunOpen' = FALSE
        /\ UNCHANGED <<starts, rx, monitors, bytesRead, cumulativeBytesRead, vpnBytesRead,
                       looked, sampled, ended, unsampled>>
    BY <1>4 DEF DisconnectClose, Goto, counts, history
  <2>2. CountOK'
    BY <2>1 DEF IInv, TypeOK, CountOK
  <2>3. BytesInv'
    BY <2>1 DEF IInv, BytesInv, Live
  <2> QED
    BY <2>2, <2>3
<1>5. CASE DisconnectError
  <2>1. /\ pc = "waiting" /\ pc' = "down" /\ ended' = ended + rx
        /\ UNCHANGED <<starts, tunOpen, rx, monitors, bytesRead, cumulativeBytesRead,
                       vpnBytesRead, looked, sampled, unsampled>>
    BY <1>5 DEF DisconnectError, Goto, tun, counts
  <2>2. CountOK'
    BY <1>1, <2>1 DEF IInv, TypeOK, CountOK
  <2>3. BytesInv'
    BY <1>1, <2>1 DEF IInv, BytesInv, Live
  <2> QED
    BY <2>2, <2>3
<1>6. CASE DisconnectCount
  <2>1. /\ pc = "waiting" /\ pc' = "stopping" /\ ended' = ended + rx
        /\ ~sampled' /\ sampled' \in BOOLEAN
        /\ cumulativeBytesRead' = cumulativeBytesRead + bytesRead
        /\ unsampled' <=> unsampled \/ ~sampled
        /\ unsampled' \in BOOLEAN
        /\ UNCHANGED <<starts, tunOpen, rx, monitors, bytesRead, vpnBytesRead, looked>>
    BY <1>6 DEF DisconnectCount, Goto, tun
  <2>2. CountOK'
    BY <1>1, <2>1 DEF IInv, TypeOK, CountOK
  <2>3. BytesInv'
    BY <1>1, <2>1 DEF IInv, BytesInv, Live
  <2> QED
    BY <2>2, <2>3
<1>7. CASE Transfer
  <2>1. /\ tunOpen /\ rx < MaxBytes /\ rx' = rx + 1
        /\ UNCHANGED <<pc, starts, tunOpen, monitors, bytesRead, cumulativeBytesRead,
                       vpnBytesRead, looked, sampled, ended, unsampled>>
    BY <1>7 DEF Transfer, call, counts, history
  <2>2. rx + 1 \in 0 .. MaxBytes
    BY <1>1, <2>1, MetricsAssumption
  <2>3. CountOK'
    BY <2>1, <2>2 DEF IInv, TypeOK, CountOK
  <2>4. BytesInv'
    BY <1>1, <2>1 DEF IInv, BytesInv, Live
  <2> QED
    BY <2>3, <2>4
<1>8. CASE \E c \in Connections : MonitorTick(c)
  <2>1. /\ bytesRead' = (IF tunOpen THEN rx ELSE 0) /\ sampled' = TRUE
        /\ UNCHANGED <<pc, starts, tunOpen, rx, monitors, cumulativeBytesRead, vpnBytesRead,
                       looked, ended, unsampled>>
    BY <1>8 DEF MonitorTick, call, tun
  <2>2. CountOK'
    BY <1>1, <2>1 DEF IInv, TypeOK, CountOK
  <2>3. BytesInv'
    BY <1>1, <2>1 DEF IInv, BytesInv, Live
  <2> QED
    BY <2>2, <2>3
<1>9. CASE UpdaterLooks \/ UpdaterSets
  <2>1. UNCHANGED <<pc, starts, tunOpen, rx, monitors, bytesRead, cumulativeBytesRead, sampled,
                    ended>>
    BY <1>9 DEF UpdaterLooks, UpdaterSets, call, tun, counts, history
  <2>2. CASE UpdaterLooks
    <3>1. looked' = looked + 1 /\ looked < starts /\ UNCHANGED <<vpnBytesRead, unsampled>>
      BY <2>2 DEF UpdaterLooks, counts, history
    <3> QED
      BY <1>1, <2>1, <3>1 DEF IInv, TypeOK, CountOK, BytesInv, Live
  <2>3. CASE UpdaterSets
    <3>1. /\ looked' = looked - 1 /\ looked > 0
          /\ vpnBytesRead' = cumulativeBytesRead + bytesRead
          /\ unsampled' = (unsampled \/ ~sampled)
      BY <2>3 DEF UpdaterSets
    <3>2. CountOK'
      BY <1>1, <2>1, <3>1 DEF IInv, TypeOK, CountOK
    <3>3. BytesInv'
      BY <1>1, <2>1, <3>1 DEF IInv, BytesInv, Live
    <3> QED
      BY <3>2, <3>3
  <2> QED
    BY <1>9, <2>2, <2>3
<1>10. CASE \/ \E c \in Connections : MonitorEnds(c)
            \/ \E k \in Starts : ServerReads(k) \/ Listens(k)
            \/ UNCHANGED vars
  <2>1. /\ monitors' \subseteq monitors
        /\ UNCHANGED <<pc, starts, tunOpen, rx, bytesRead, cumulativeBytesRead, vpnBytesRead,
                       looked, sampled, ended, unsampled>>
    BY <1>10 DEF MonitorEnds, ServerReads, Listens, vars, call, tun, counts, history
  <2> QED
    BY <2>1 DEF IInv, TypeOK, CountOK, BytesInv, Live
<1> QED
  BY <1>2, <1>3, <1>4, <1>5, <1>6, <1>7, <1>8, <1>9, <1>10 DEF Next, Call
------------------------------------------------------------------------------
LEMMA Invariance == Spec => []IInv
<1>1. IInv /\ [Next]_vars => IInv'
  <2> SUFFICES ASSUME IInv, [Next]_vars PROVE IInv'
    OBVIOUS
  <2>1. CallOK' /\ CountOK' /\ EndpointOK'
    BY CallStep, CountStep, EndpointStep
  <2>2. TypeOK'
    BY <2>1 DEF TypeOK, CallOK, CountOK, EndpointOK
  <2> QED
    BY <2>2, CallStep, CountStep, EndpointStep DEF IInv
<1> QED
  BY <1>1, InitInv, PTL DEF Spec
------------------------------------------------------------------------------
\* Every variable keeps its type, in all interleavings of the endpoint's goroutines with those
\* that count.
THEOREM TypeCorrect == Spec => []TypeOK
<1>1. IInv => TypeOK
  BY DEF IInv
<1> QED
  BY <1>1, Invariance, PTL

\* The metrics port is held by the current HTTP server or by nobody, however late the
\* goroutines that serve are scheduled (startMetricsUpdate and stopMetricsUpdate).
THEOREM CurrentListens == Spec => []OnlyCurrentListens
<1>1. IInv => OnlyCurrentListens
  BY DEF IInv, EndpointInv, OnlyCurrentListens
<1> QED
  BY <1>1, Invariance, PTL

\* Neither the total nor the gauge is ahead of what the kernel has counted, over any number of
\* reconnections with and without errors, as long as bytesRead is used only when it holds a
\* sample that is not in the total yet (monitorTraffic, Disconnect, the updaters).
THEOREM BytesCountedOnce == Spec => []NoByteTwice
<1>1. IInv => NoByteTwice
  BY MetricsAssumption DEF IInv, TypeOK, BytesInv, Live, NoByteTwice
<1> QED
  BY <1>1, Invariance, PTL

\* The current HTTP server has the port, or a goroutine that will give it to it: the one
\* started with it has not read c.metricsServer yet, or has read it and not called
\* ListenAndServe yet, and the port is nobody else's then.  What makes EndpointComesBack
\* possible, after a Disconnect with an error as well (startMetricsUpdate).
PortIsClaimed ==
  metricsServer # 0 =>
    \/ listening = metricsServer
    \/ listening = 0 /\ serving[metricsServer] = "starting"
    \/ /\ listening = 0 /\ metricsServer \notin shut
       /\ serving[metricsServer] = "read" /\ reads[metricsServer] = metricsServer

LEMMA ClaimStep ==
  ASSUME IInv, PortIsClaimed, [Next]_vars
  PROVE  PortIsClaimed'
<1>0. /\ metricsServer \notin shut /\ listening \in {0, metricsServer}
      /\ serving \in [Starts -> {"none", "starting", "read", "called"}]
      /\ reads \in [Starts -> 0 .. starts]
  BY DEF IInv, TypeOK, EndpointInv
<1>1. CASE StopPrevious \/ StopServer
  BY <1>1 DEF StopPrevious, StopServer, ShutdownServer, PortIsClaimed
<1>2. CASE MakeServer
  <2>1. /\ metricsServer = 0 /\ metricsServer' = starts + 1 /\ listening' = listening
        /\ serving' = [serving EXCEPT ![starts + 1] = "starting"]
    BY <1>2 DEF MakeServer, Goto, IInv, EndpointInv
  <2>2. starts + 1 \in Starts
    BY <1>2, MetricsAssumption DEF MakeServer, Goto, IInv, TypeOK, CallInv, Starts
  <2> QED
    BY <1>0, <2>1, <2>2 DEF PortIsClaimed
<1>3. ASSUME NEW k \in Starts, ServerReads(k)
      PROVE  PortIsClaimed'
  <2>1. /\ serving' = [serving EXCEPT ![k] = "read"]
        /\ reads' = [reads EXCEPT ![k] = metricsServer]
        /\ UNCHANGED <<metricsServer, shut, listening>> /\ serving[k] = "starting"
    BY <1>3 DEF ServerReads
  <2>2. CASE k = metricsServer
    BY <1>0, <2>1, <2>2 DEF PortIsClaimed
  <2>3. CASE k # metricsServer
    BY <1>0, <2>1, <2>3 DEF PortIsClaimed
  <2> QED
    BY <2>2, <2>3
<1>4. ASSUME NEW k \in Starts, Listens(k)
      PROVE  PortIsClaimed'
  <2>1. /\ serving' = [serving EXCEPT ![k] = "called"]
        /\ listening' = IF reads[k] \notin shut /\ listening = 0 THEN reads[k] ELSE listening
        /\ UNCHANGED <<metricsServer, shut, reads>> /\ serving[k] = "read"
        /\ reads[k] \in {0, metricsServer} \cup shut
    BY <1>4 DEF Listens, IInv, EndpointInv
  <2>2. CASE k = metricsServer
    BY <1>0, <2>1, <2>2 DEF PortIsClaimed
  <2>3. CASE k # metricsServer
    BY <1>0, <2>1, <2>3 DEF PortIsClaimed
  <2> QED
    BY <2>2, <2>3
<1>5. CASE \/ Connect \/ DisconnectMark \/ DisconnectClose \/ DisconnectError
           \/ DisconnectCount \/ Transfer \/ UpdaterLooks \/ UpdaterSets
           \/ \E c \in Connections : MonitorTick(c) \/ MonitorEnds(c)
           \/ UNCHANGED vars
  <2>1. UNCHANGED <<metricsServer, shut, serving, reads, listening>>
    BY <1>5 DEF Connect, DisconnectMark, DisconnectClose, DisconnectError, DisconnectCount,
                Transfer, UpdaterLooks, UpdaterSets, MonitorTick, MonitorEnds, vars, endpoint
  <2> QED
    BY <2>1 DEF PortIsClaimed
<1> QED
  BY <1>1, <1>2, <1>3, <1>4, <1>5 DEF Next, Call

\* No reconnection, and no order in which the serving goroutines run, leaves the metrics port
\* without its server or a goroutine that will still bring that server up.
THEOREM EndpointIsOwned == Spec => []PortIsClaimed
<1>1. Init => PortIsClaimed
  BY DEF Init, PortIsClaimed
<1>2. IInv /\ PortIsClaimed /\ [Next]_vars => PortIsClaimed'
  BY ClaimStep
<1> QED
  BY <1>1, <1>2, Invariance, PTL DEF Spec
==============================================================================
