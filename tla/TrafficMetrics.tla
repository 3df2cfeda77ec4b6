---------------------------- MODULE TrafficMetrics ----------------------------
(***************************************************************************)
(* The traffic counters and the metrics endpoint of src/pkg/client/        *)
(* client.go over the connections of one Client: the goroutine of each     *)
(* connection that samples its TUN device, the goroutines that update the  *)
(* gauge, the HTTP server on the metrics port with the goroutine that      *)
(* serves it, and the total kept over reconnections.  Connect and          *)
(* Disconnect are called by one goroutine (module TunnelClient has the     *)
(* calls that overlap).  Bytes read and bytes written are treated alike,   *)
(* and only one of them is here.                                           *)
(*                                                                         *)
(* Connections are numbered from 1 and so are the calls of                 *)
(* startMetricsUpdate, each with its HTTP server and the goroutine that    *)
(* serves it; 0 is nil, or no connection.                                  *)
(***************************************************************************)
EXTENDS Integers

CONSTANTS
  MaxConnections,  \* bound: successful Connects
  MaxBytes         \* bound: bytes a TUN device counts

ASSUME MetricsAssumption == MaxConnections \in Nat \ {0} /\ MaxBytes \in Nat \ {0}

Connections == 1 .. MaxConnections
Starts == 1 .. MaxConnections + 1

VARIABLES
  pc,           \* where the goroutine that calls Connect and Disconnect is
  connection,   \* successful Connects so far
  isConnected,
  cancelled,    \* the latest connection whose context is cancelled
  starts,       \* calls of startMetricsUpdate so far
  tunOpen, rx,  \* the TUN device is there, and what the kernel counted for it
  monitors,     \* connections whose monitorTraffic goroutine runs
  bytesRead, cumulativeBytesRead,
  vpnBytesRead, \* the gauge
  looked,       \* updaters that have found the client connected and not yet set the gauge
  metricsServer,
  shut,         \* HTTP servers Shutdown was called on
  serving,      \* the goroutine that serves each: "none", "starting", "read" when it has
                \* read c.metricsServer, "called" from its call of ListenAndServe on
  reads,        \* the HTTP server it has read
  listening,    \* the HTTP server that holds the metrics port
  panicked,     \* a nil HTTP server was served
  \* history
  sampled,      \* bytesRead is a sample of this connection, and not in the total yet
  ended,        \* bytes of the connections that are over
  unsampled     \* bytesRead was used when it was not

call     == <<pc, connection, isConnected, cancelled, starts>>
tun      == <<tunOpen, rx>>
counts   == <<bytesRead, cumulativeBytesRead, vpnBytesRead>>
endpoint == <<metricsServer, shut, serving, reads, listening>>
history  == <<sampled, ended, unsampled>>
vars == <<call, tun, monitors, counts, looked, endpoint, panicked, history>>
------------------------------------------------------------------------------
\* NewClientWithOpts calls startMetricsUpdate as its last step.
Init ==
  /\ pc = "makeServer" /\ connection = 0 /\ isConnected = FALSE
  /\ tunOpen = FALSE /\ rx = 0
  /\ cancelled = 0 /\ monitors = {}
  /\ bytesRead = 0 /\ cumulativeBytesRead = 0
  /\ starts = 0 /\ metricsServer = 0 /\ shut = {} /\ listening = 0
  /\ serving = [k \in Starts |-> "none"] /\ reads = [k \in Starts |-> 0]
  /\ vpnBytesRead = 0 /\ looked = 0
  /\ panicked = FALSE
  /\ sampled = FALSE /\ ended = 0 /\ unsampled = FALSE

Goto(from, to) == pc = from /\ pc' = to

\* Shutdown of c.metricsServer closes its listener; the field is nil afterwards.
ShutdownServer ==
  /\ shut' = IF metricsServer = 0 THEN shut ELSE shut \cup {metricsServer}
  /\ listening' = IF listening = metricsServer THEN 0 ELSE listening
  /\ metricsServer' = 0
  /\ UNCHANGED <<serving, reads>>
------------------------------------------------------------------------------
(***************************************************************************)
(* Connect and Disconnect.                                                 *)
(***************************************************************************)
\* A Connect that succeeds: the new TUN device and its monitor.  One that fails leaves
\* before all of this.
Connect ==
  /\ Goto("down", "stopServer")
  /\ connection < MaxConnections
  /\ connection' = connection + 1
  /\ tunOpen' = TRUE /\ rx' = 0 /\ sampled' = FALSE
  /\ monitors' = monitors \cup {connection + 1}
  /\ isConnected' = TRUE
  /\ UNCHANGED <<cancelled, starts, counts, looked, endpoint, panicked, ended, unsampled>>

\* Faulty: the server of the connection before is left alone.
StopPreviousNot ==
  /\ Goto("stopServer", "makeServer")
  /\ UNCHANGED <<connection, isConnected, cancelled, starts, tun, monitors, counts, looked,
                 endpoint, panicked, history>>

\* startMetricsUpdate: the previous server, still there if Disconnect had an error.
StopPrevious ==
  /\ Goto("stopServer", "makeServer")
  /\ ShutdownServer
  /\ UNCHANGED <<connection, isConnected, cancelled, starts, tun, monitors, counts, looked,
                 panicked, history>>

\* ... then the new one and its two goroutines.
MakeServer ==
  /\ Goto("makeServer", IF isConnected THEN "up" ELSE "down")
  /\ starts' = starts + 1
  /\ metricsServer' = starts + 1
  /\ serving' = [serving EXCEPT ![starts + 1] = "starting"]
  /\ UNCHANGED <<connection, isConnected, cancelled, tun, monitors, counts, looked, shut,
                 reads, listening, panicked, history>>

DisconnectMark ==
  /\ Goto("up", "closing")
  /\ isConnected' = FALSE
  /\ cancelled' = connection
  /\ UNCHANGED <<connection, starts, tun, monitors, counts, looked, endpoint, panicked,
                 history>>

DisconnectClose ==
  /\ Goto("closing", "waiting")
  /\ tunOpen' = FALSE
  /\ UNCHANGED <<connection, isConnected, cancelled, starts, rx, monitors, counts, looked,
                 endpoint, panicked, history>>

\* An error of xray, of the device, of the pipe, or the timeout: return at once.
DisconnectError ==
  /\ Goto("waiting", "down")
  /\ ended' = ended + rx
  /\ UNCHANGED <<connection, isConnected, cancelled, starts, tun, monitors, counts, looked,
                 endpoint, panicked, sampled, unsampled>>

\* Faulty: what the gauge shows already is taken for the bytes of this connection.
DisconnectCountsGauge ==
  /\ Goto("waiting", "stopping")
  /\ ended' = ended + rx
  /\ cumulativeBytesRead' = cumulativeBytesRead + vpnBytesRead
  /\ sampled' = FALSE
  /\ unsampled' = (unsampled \/ ~sampled)
  /\ UNCHANGED <<connection, isConnected, cancelled, starts, tun, monitors, bytesRead,
                 vpnBytesRead, looked, endpoint, panicked>>

\* The bytes are added to the total; bytesRead keeps them.
DisconnectCount ==
  /\ Goto("waiting", "stopping")
  /\ ended' = ended + rx
  /\ cumulativeBytesRead' = cumulativeBytesRead + bytesRead
  /\ sampled' = FALSE
  /\ unsampled' = (unsampled \/ ~sampled)
  /\ UNCHANGED <<connection, isConnected, cancelled, starts, tun, monitors, bytesRead,
                 vpnBytesRead, looked, endpoint, panicked>>

\* stopMetricsUpdate.
StopServer ==
  /\ Goto("stopping", "down")
  /\ ShutdownServer
  /\ UNCHANGED <<connection, isConnected, cancelled, starts, tun, monitors, counts, looked,
                 panicked, history>>

Call ==
  \/ Connect \/ StopPrevious \/ MakeServer
  \/ DisconnectMark \/ DisconnectClose \/ DisconnectError \/ DisconnectCount \/ StopServer
------------------------------------------------------------------------------
(***************************************************************************)
(* The goroutines.                                                         *)
(***************************************************************************)
\* Traffic through the TUN device.
Transfer ==
  /\ tunOpen /\ rx < MaxBytes
  /\ rx' = rx + 1
  /\ UNCHANGED <<call, tunOpen, monitors, counts, looked, endpoint, panicked, history>>

\* A tick of monitorTraffic, which the select may still prefer when the context is
\* cancelled too.  It reads the device that c.tunName names now; 0 if there is none.
MonitorTick(c) ==
  /\ c \in monitors
  /\ bytesRead' = IF tunOpen THEN rx ELSE 0
  /\ sampled' = TRUE
  /\ UNCHANGED <<call, tun, monitors, cumulativeBytesRead, vpnBytesRead, looked, endpoint,
                 panicked, ended, unsampled>>

MonitorEnds(c) ==
  /\ c \in monitors /\ c <= cancelled
  /\ monitors' = monitors \ {c}
  /\ UNCHANGED <<call, tun, counts, looked, endpoint, panicked, history>>

\* The serving goroutine reads c.metricsServer when it runs, whatever is there by then.
ServerReads(k) ==
  /\ serving[k] = "starting"
  /\ serving' = [serving EXCEPT ![k] = "read"]
  /\ reads' = [reads EXCEPT ![k] = metricsServer]
  /\ panicked' = (metricsServer = 0)
  /\ UNCHANGED <<call, tun, monitors, counts, looked, metricsServer, shut, listening, history>>

\* Faulty: a server that was shut down listens all the same.
ListensThough(k) ==
  /\ serving[k] = "read"
  /\ serving' = [serving EXCEPT ![k] = "called"]
  /\ listening' = IF listening = 0 THEN reads[k] ELSE listening
  /\ UNCHANGED <<call, tun, monitors, counts, looked, metricsServer, shut, reads, panicked,
                 history>>

\* ListenAndServe, taken as one step: a server that was shut down does not start, and the
\* port must be free.
Listens(k) ==
  /\ serving[k] = "read"
  /\ serving' = [serving EXCEPT ![k] = "called"]
  /\ listening' = IF reads[k] \notin shut /\ listening = 0 THEN reads[k] ELSE listening
  /\ UNCHANGED <<call, tun, monitors, counts, looked, metricsServer, shut, reads, panicked,
                 history>>

\* A tick of an updater, which never ends: it looks at c.isConnected ...
UpdaterLooks ==
  /\ looked < starts /\ isConnected
  /\ looked' = looked + 1
  /\ UNCHANGED <<call, tun, monitors, counts, endpoint, panicked, history>>

\* ... and sets the gauge, whatever has become of the connection.
UpdaterSets ==
  /\ looked > 0
  /\ looked' = looked - 1
  /\ vpnBytesRead' = cumulativeBytesRead + bytesRead
  /\ unsampled' = (unsampled \/ ~sampled)
  /\ UNCHANGED <<call, tun, monitors, bytesRead, cumulativeBytesRead, endpoint, panicked,
                 sampled, ended>>

Next ==
  /\ ~panicked
  /\ \/ Call \/ Transfer \/ UpdaterLooks \/ UpdaterSets
     \/ \E c \in Connections : MonitorTick(c) \/ MonitorEnds(c)
     \/ \E k \in Starts : ServerReads(k) \/ Listens(k)

\* Goroutines that are started are scheduled.
Fairness == \A k \in Starts : WF_vars(~panicked /\ (ServerReads(k) \/ Listens(k)))

Spec == Init /\ [][Next]_vars /\ Fairness
------------------------------------------------------------------------------
(***************************************************************************)
(* Properties.                                                             *)
(***************************************************************************)
\* Every variable keeps its type.
TypeOK ==
  /\ pc \in {"makeServer", "stopServer", "up", "closing", "waiting", "stopping", "down"}
  /\ connection \in 0 .. MaxConnections /\ cancelled \in 0 .. MaxConnections
  /\ isConnected \in BOOLEAN /\ tunOpen \in BOOLEAN /\ rx \in 0 .. MaxBytes
  /\ monitors \subseteq Connections
  /\ bytesRead \in 0 .. MaxBytes /\ cumulativeBytesRead \in Nat
  /\ starts \in 0 .. connection + 1
  /\ metricsServer \in 0 .. starts /\ listening \in 0 .. starts
  /\ shut \subseteq Starts
  /\ serving \in [Starts -> {"none", "starting", "read", "called"}]
  /\ reads \in [Starts -> 0 .. starts]
  /\ vpnBytesRead \in Nat /\ looked \in 0 .. starts
  /\ panicked \in BOOLEAN
  /\ sampled \in BOOLEAN /\ ended \in Nat /\ unsampled \in BOOLEAN

\* The metrics port is held by the current HTTP server or by nobody: a goroutine that starts
\* late, after its server was replaced or removed, revives none, and a Disconnect without
\* error leaves the port free.  startMetricsUpdate and stopMetricsUpdate.
OnlyCurrentListens == listening # 0 => listening = metricsServer /\ listening \notin shut

\* The endpoint comes back after a reconnection, also when the Disconnect before it had an
\* error and left its server running: the port is free by the time the new server wants it.
\* startMetricsUpdate.
EndpointComesBack ==
  \A k \in Starts : metricsServer = k ~> listening = k \/ metricsServer # k \/ panicked

\* Over any number of reconnections no byte is counted twice, neither in the total nor in
\* the gauge, provided bytesRead is only used when it holds a sample of the connection that
\* is not in the total yet: the sample replaces what the connection before has left.
\* monitorTraffic, Disconnect.
NoByteTwice ==
  ~unsampled => /\ cumulativeBytesRead <= ended
                /\ vpnBytesRead <= ended + rx
==============================================================================
