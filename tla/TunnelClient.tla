----------------------------- MODULE TunnelClient -----------------------------
(***************************************************************************)
(* Connect and Disconnect of src/pkg/client/client.go, called by several   *)
(* goroutines on one Client: c.mu, the xray instance, the TUN device, the  *)
(* pipe goroutine and its channel, the exception route to the server, the  *)
(* local SOCKS5 server and the kill switch.  Disconnect releases c.mu      *)
(* before it takes anything down, so a step of it works on whatever the    *)
(* fields of the Client hold by then.                                      *)
(*                                                                         *)
(* Every call of Connect gets a number; the xray instance, TUN device,     *)
(* context, channel and pipe made by it carry that number; 0 is nil, and   *)
(* the channel of the constructor, which no pipe ever sends on.  The       *)
(* firewall and the exception routes belong to the operating system: they  *)
(* outlive the process, which may crash and start again.                   *)
(***************************************************************************)
EXTENDS Integers

CONSTANTS
  Callers,          \* goroutines that call Connect and Disconnect
  Servers,          \* servers a link can name
  NoServer,         \* the value of xSrvIP before the first link is resolved
  EnableKillSwitch, \* cfg.EnableKillSwitch
  FirewallMayFail,  \* iptables commands may fail
  MaxCalls,         \* bound: calls of Connect in a behaviour
  MaxCrashes        \* bound: crashes of the process

ASSUME ClientAssumption ==
  /\ NoServer \notin Servers
  /\ EnableKillSwitch \in BOOLEAN /\ FirewallMayFail \in BOOLEAN
  /\ MaxCalls \in Nat /\ MaxCrashes \in Nat

Calls == 1 .. MaxCalls

VARIABLES
  \* the Client's fields
  mu,              \* c.mu is held by a Connect
  isConnected, xInst, tunnel, stopTunnel, tunnelStopped, xSrvIP, socks5Server,
  killSwitchActive,
  \* what the fields point to
  xrayRunning,     \* xray instances that run
  tunOpen,         \* TUN devices that c.tunnel has held and that are not closed
  strayTuns,       \* TUN devices setupTunnel dropped, until their finalizer runs
  pipes,           \* pipe goroutines inside pipe.Copy
  cancelled,       \* pipe contexts that are cancelled
  chan,            \* each tunnelStopped channel: the pipe that sent, 0 if empty
  \* the operating system
  exceptionRoutes, \* servers routed around the TUN
  killChain,       \* the goxray_killswitch chain: jumps to it, and its DROP rule
  \* the goroutines, and the bounds
  op,              \* where each caller is
  calls, crashes,
  \* history
  overlapped,      \* two calls have been under way at the same time
  timedOut,        \* pipes whose Disconnect gave up waiting
  straggler,       \* some pipe was still running when a later one was started
  failedStarts,    \* xray instances whose Start failed: Connect does not close them
  ruleFailed,      \* an iptables command of the kill switch has failed
  tornDown          \* the VPN went down and has not come back since

fields  == <<isConnected, xInst, tunnel, stopTunnel, tunnelStopped, xSrvIP>>
things  == <<xrayRunning, tunOpen, strayTuns, pipes, cancelled, chan>>
firewall == <<killSwitchActive, killChain, ruleFailed>>
bounds  == <<calls, crashes>>
history == <<overlapped, timedOut, straggler, tornDown, failedStarts>>
vars == <<mu, fields, socks5Server, things, exceptionRoutes, firewall, op, bounds,
          history>>
------------------------------------------------------------------------------
Idle == [pc |-> "idle", server |-> NoServer, call |-> 0, inner |-> FALSE,
         waits |-> 0]

NoChain == [jumps |-> 0, drop |-> FALSE]

\* Output is dropped: some jump leads to a chain that ends in DROP.
Blocking == killChain.jumps > 0 /\ killChain.drop

Init ==
  /\ mu = FALSE
  /\ isConnected = FALSE /\ xInst = 0 /\ tunnel = 0 /\ stopTunnel = 0
  /\ tunnelStopped = 0 /\ xSrvIP = NoServer
  /\ socks5Server = FALSE
  /\ killSwitchActive = FALSE /\ killChain = NoChain
  /\ xrayRunning = {} /\ tunOpen = {} /\ strayTuns = {} /\ pipes = {} /\ cancelled = {}
  /\ chan = [b \in Calls |-> 0]
  /\ exceptionRoutes = {}
  /\ op = [c \in Callers |-> Idle]
  /\ calls = 0 /\ crashes = 0
  /\ overlapped = FALSE /\ timedOut = {} /\ straggler = FALSE /\ ruleFailed = FALSE
  /\ tornDown = FALSE /\ failedStarts = {}

Goto(c, from, to) == op[c].pc = from /\ op' = [op EXCEPT ![c].pc = to]

Return(c) == op' = [op EXCEPT ![c] = Idle]

\* Faulty: the kill switch is left to the end of Disconnect.
ActivateLate == UNCHANGED firewall

\* setupKillSwitchRules: -N or an old chain, -F, the exceptions, DROP, and one more jump
\* to the chain.  A command that fails ends it early, and activateKillSwitch goes on.
ActivateKillSwitch ==
  \/ /\ EnableKillSwitch /\ ~killSwitchActive
     /\ killSwitchActive' = TRUE
     /\ \/ /\ killChain' = [jumps |-> killChain.jumps + 1, drop |-> TRUE]
           /\ UNCHANGED ruleFailed
        \/ /\ FirewallMayFail
           /\ \E d \in BOOLEAN : killChain' = [killChain EXCEPT !.drop = d]
           /\ ruleFailed' = TRUE
  \/ /\ ~EnableKillSwitch \/ killSwitchActive
     /\ UNCHANGED firewall

OneJumpLess == IF killChain.jumps > 0 THEN killChain.jumps - 1 ELSE 0

\* Faulty: the rules go, the flag stays.
DeactivateKeepsFlag ==
  /\ killChain' = IF killSwitchActive THEN NoChain ELSE killChain
  /\ UNCHANGED <<killSwitchActive, ruleFailed>>

\* cleanupKillSwitchRules: -D takes one jump away, -F empties the chain, and each may fail
\* by itself.
DeactivateKillSwitch ==
  \/ /\ EnableKillSwitch /\ killSwitchActive
     /\ killSwitchActive' = FALSE
     /\ \/ /\ killChain' = [jumps |-> OneJumpLess, drop |-> FALSE]
           /\ UNCHANGED ruleFailed
        \/ /\ FirewallMayFail
           /\ killChain' \in [jumps : {killChain.jumps, OneJumpLess},
                             drop  : {killChain.drop, FALSE}]
           /\ ruleFailed' = TRUE
  \/ /\ ~EnableKillSwitch \/ ~killSwitchActive
     /\ UNCHANGED firewall
------------------------------------------------------------------------------
(***************************************************************************)
(* Calls.                                                                  *)
(***************************************************************************)
Enter(c) == overlapped' = (overlapped \/ \E d \in Callers \ {c} : op[d].pc # "idle")

CallConnect(c, s) ==
  /\ op[c].pc = "idle" /\ calls < MaxCalls
  /\ calls' = calls + 1
  /\ op' = [op EXCEPT ![c] = [Idle EXCEPT !.pc = "lock", !.server = s, !.call = calls + 1]]
  /\ Enter(c)
  /\ UNCHANGED <<mu, fields, socks5Server, things, exceptionRoutes, firewall, crashes,
                 timedOut, straggler, tornDown, failedStarts>>

CallDisconnect(c) ==
  /\ op[c].pc = "idle"
  /\ op' = [op EXCEPT ![c] = [Idle EXCEPT !.pc = "disconnect"]]
  /\ Enter(c)
  /\ UNCHANGED <<mu, fields, socks5Server, things, exceptionRoutes, firewall, bounds,
                 timedOut, straggler, tornDown, failedStarts>>
------------------------------------------------------------------------------
(***************************************************************************)
(* Connect.                                                                *)
(***************************************************************************)
\* Faulty: a connected client is connected again as it is.
ConnectLockAgain(c) ==
  /\ ~mu
  /\ Goto(c, "lock", "create")
  /\ mu' = TRUE
  /\ UNCHANGED <<fields, socks5Server, things, exceptionRoutes, firewall, bounds, history>>

\* A connected client is disconnected first, with c.mu released; isConnected is not
\* looked at again when c.mu is back.
ConnectLock(c) ==
  /\ ~mu
  /\ \/ /\ isConnected
        /\ op[c].pc = "lock"
        /\ op' = [op EXCEPT ![c].pc = "disconnect", ![c].inner = TRUE]
        /\ UNCHANGED mu
     \/ /\ ~isConnected
        /\ Goto(c, "lock", "create")
        /\ mu' = TRUE
  /\ UNCHANGED <<fields, socks5Server, things, exceptionRoutes, firewall, bounds, history>>

ConnectRelock(c) ==
  /\ ~mu
  /\ Goto(c, "relock", "create")
  /\ mu' = TRUE
  /\ UNCHANGED <<fields, socks5Server, things, exceptionRoutes, firewall, bounds, history>>

\* Faulty: the resolved address of the server is not stored.
ConnectCreateUnresolved(c) ==
  /\ Goto(c, "create", "setup")
  /\ xInst' = op[c].call
  /\ xrayRunning' = xrayRunning \cup {op[c].call}
  /\ UNCHANGED <<mu, isConnected, tunnel, stopTunnel, tunnelStopped, xSrvIP, socks5Server,
                 tunOpen, strayTuns, pipes, cancelled, chan, exceptionRoutes, firewall,
                 bounds, history>>

\* createXrayProxy and xInst.Start: no instance, one that does not start, or a running
\* one.  A link that fails leaves nil in c.xInst.  A Start that fails may have started a
\* part of the instance (what, is up to the library), and Connect returns without a Close.
ConnectCreate(c) ==
  /\ op[c].pc = "create"
  /\ \/ /\ xInst' = 0
        /\ mu' = FALSE /\ Return(c)
        /\ UNCHANGED <<xSrvIP, xrayRunning, failedStarts>>
     \/ /\ xInst' = op[c].call /\ xSrvIP' = op[c].server
        /\ xrayRunning' \in {xrayRunning, xrayRunning \cup {op[c].call}}
        /\ failedStarts' = failedStarts \cup {op[c].call}
        /\ mu' = FALSE /\ Return(c)
     \/ /\ xInst' = op[c].call /\ xSrvIP' = op[c].server
        /\ xrayRunning' = xrayRunning \cup {op[c].call}
        /\ op' = [op EXCEPT ![c].pc = "setup"]
        /\ UNCHANGED <<mu, failedStarts>>
  /\ UNCHANGED <<isConnected, tunnel, stopTunnel, tunnelStopped, socks5Server, tunOpen,
                 strayTuns, pipes, cancelled, chan, exceptionRoutes, firewall, bounds,
                 overlapped, timedOut, straggler, tornDown>>

\* Faulty: the running instance is forgotten when the TUN cannot be made.
SetupFailsKeepsXray(c) ==
  /\ op[c].pc = "setup"
  /\ exceptionRoutes' = exceptionRoutes \ {xSrvIP}
  /\ mu' = FALSE /\ Return(c)
  /\ UNCHANGED <<fields, socks5Server, things, firewall, bounds, history>>

\* What was built so far is taken down when the route cannot be added, when setupTunnel
\* fails (c.tunnel holds no device then, and one it made is dropped without a Close), or
\* when the SOCKS proxy does not come up (c.tunnel holds a closed device then).  No device
\* is 0, also for the nil *tun.Interface that makes c.tunnel differ from nil.
SetupFails(c) ==
  /\ op[c].pc = "setup"
  /\ \/ UNCHANGED <<tunnel, strayTuns>>
     \/ /\ tunnel' = 0
        /\ strayTuns' \in {strayTuns, strayTuns \cup {op[c].call}}
     \/ /\ tunnel' = op[c].call
        /\ UNCHANGED strayTuns
  /\ exceptionRoutes' = exceptionRoutes \ {xSrvIP}
  /\ xrayRunning' = xrayRunning \ {xInst}
  /\ mu' = FALSE /\ Return(c)
  /\ UNCHANGED <<isConnected, xInst, stopTunnel, tunnelStopped, xSrvIP, socks5Server,
                 tunOpen, pipes, cancelled, chan, firewall, bounds, history>>

\* The exception route, then the TUN device.
ConnectSetup(c) ==
  /\ Goto(c, "setup", "pipe")
  /\ exceptionRoutes' = exceptionRoutes \cup {xSrvIP}
  /\ tunnel' = op[c].call
  /\ tunOpen' = tunOpen \cup {op[c].call}
  /\ UNCHANGED <<mu, isConnected, xInst, stopTunnel, tunnelStopped, xSrvIP, socks5Server,
                 xrayRunning, strayTuns, pipes, cancelled, chan, firewall, bounds, history>>

\* Faulty: the channel of the first connection is used for ever.
SameChannel(c) == IF tunnelStopped = 0 THEN op[c].call ELSE tunnelStopped

NewChannel(c) == op[c].call

\* The pipe goroutine with its context and channel; then the client is connected, the
\* kill switch goes and the SOCKS5 server starts, or does not.
ConnectDone(c) ==
  /\ op[c].pc = "pipe"
  /\ tunnelStopped' = NewChannel(c) /\ stopTunnel' = op[c].call
  /\ pipes' = pipes \cup {op[c].call}
  /\ straggler' = (straggler \/ pipes # {})
  /\ isConnected' = TRUE
  /\ DeactivateKillSwitch
  /\ socks5Server' \in BOOLEAN
  /\ tornDown' = FALSE
  /\ mu' = FALSE /\ Return(c)
  /\ UNCHANGED <<xInst, tunnel, xSrvIP, xrayRunning, tunOpen, strayTuns, cancelled, chan,
                 exceptionRoutes, bounds, overlapped, timedOut, failedStarts>>

ConnectStep(c) ==
  \/ ConnectLock(c) \/ ConnectRelock(c) \/ ConnectCreate(c) \/ SetupFails(c)
  \/ ConnectSetup(c) \/ ConnectDone(c)
------------------------------------------------------------------------------
(***************************************************************************)
(* Disconnect, called directly or from Connect.                            *)
(***************************************************************************)
Leave(c) == IF op[c].inner
            THEN op' = [op EXCEPT ![c].pc = "relock", ![c].inner = FALSE]
            ELSE Return(c)

\* The SOCKS5 server and the kill switch, before c.mu.
DisconnectBegin(c) ==
  /\ Goto(c, "disconnect", "mark")
  /\ socks5Server' = FALSE
  /\ ActivateKillSwitch
  /\ UNCHANGED <<mu, fields, things, exceptionRoutes, bounds, history>>

DisconnectMark(c) ==
  /\ op[c].pc = "mark" /\ ~mu
  /\ \/ /\ ~isConnected
        /\ Leave(c)
        /\ UNCHANGED <<isConnected, cancelled, tornDown>>
     \/ /\ isConnected
        /\ op' = [op EXCEPT ![c].pc = "closeXray"]
        /\ isConnected' = FALSE
        /\ cancelled' = cancelled \cup {stopTunnel}
        /\ tornDown' = TRUE
  /\ UNCHANGED <<mu, xInst, tunnel, stopTunnel, tunnelStopped, xSrvIP, socks5Server,
                 xrayRunning, tunOpen, strayTuns, pipes, chan, exceptionRoutes, firewall,
                 bounds, overlapped, timedOut, straggler, failedStarts>>

\* From here on c.mu is free, and a step works on what the field holds by then.
\* The connections to the server are killed first, which may take seconds.
DisconnectCloseXray(c) ==
  /\ Goto(c, "closeXray", "closeTunnel")
  /\ xrayRunning' = xrayRunning \ {xInst}
  /\ UNCHANGED <<mu, fields, socks5Server, tunOpen, strayTuns, pipes, cancelled,
                 chan, exceptionRoutes, firewall, bounds, history>>

DisconnectCloseTunnel(c) ==
  /\ Goto(c, "closeTunnel", "closeRoute")
  /\ tunOpen' = tunOpen \ {tunnel}
  /\ UNCHANGED <<mu, fields, socks5Server, xrayRunning, strayTuns, pipes, cancelled,
                 chan, exceptionRoutes, firewall, bounds, history>>

\* The route to the server, and the channel the select reads.
DisconnectCloseRoute(c) ==
  /\ op[c].pc = "closeRoute"
  /\ op' = [op EXCEPT ![c].pc = "wait", ![c].waits = tunnelStopped]
  /\ exceptionRoutes' = exceptionRoutes \ {xSrvIP}
  /\ UNCHANGED <<mu, fields, socks5Server, things, firewall, bounds, history>>

DisconnectReceive(c) ==
  /\ op[c].pc = "wait" /\ chan[op[c].waits] # 0
  /\ chan' = [chan EXCEPT ![op[c].waits] = 0]
  /\ Leave(c)
  /\ UNCHANGED <<mu, fields, socks5Server, xrayRunning, tunOpen, strayTuns, pipes, cancelled,
                 exceptionRoutes, firewall, bounds, history>>

\* Faulty: Disconnect waits for the pipe for ever.
NoTimeout(c) == FALSE /\ UNCHANGED vars

\* disconnectTimeout: the pipe goroutine may still be running.
DisconnectTimeout(c) ==
  /\ op[c].pc = "wait"
  /\ timedOut' = timedOut \cup {op[c].waits}
  /\ Leave(c)
  /\ UNCHANGED <<mu, fields, socks5Server, things, exceptionRoutes, firewall, bounds,
                 overlapped, straggler, tornDown, failedStarts>>

DisconnectStep(c) ==
  \/ DisconnectBegin(c) \/ DisconnectMark(c) \/ DisconnectCloseXray(c)
  \/ DisconnectCloseTunnel(c) \/ DisconnectCloseRoute(c) \/ DisconnectReceive(c)
  \/ DisconnectTimeout(c)
------------------------------------------------------------------------------
\* pipe.Copy returns, told to or with an error of its own, and sends on the channel
\* that c.tunnelStopped holds now; a full channel makes it wait.
PipeEnds(b) ==
  /\ b \in pipes
  /\ tunnelStopped # 0 /\ chan[tunnelStopped] = 0
  /\ pipes' = pipes \ {b}
  /\ chan' = [chan EXCEPT ![tunnelStopped] = b]
  /\ UNCHANGED <<mu, fields, socks5Server, xrayRunning, tunOpen, strayTuns, cancelled,
                 exceptionRoutes, firewall, op, bounds, history>>

\* The finalizer of a dropped device closes it.
Finalize(b) ==
  /\ b \in strayTuns
  /\ strayTuns' = strayTuns \ {b}
  /\ UNCHANGED <<mu, fields, socks5Server, xrayRunning, tunOpen, pipes, cancelled, chan,
                 exceptionRoutes, firewall, op, bounds, history>>

\* The process dies and starts again: its memory, instances, TUN devices and
\* goroutines are gone, the exception routes and the firewall are not.
Crash ==
  /\ crashes < MaxCrashes
  /\ crashes' = crashes + 1
  /\ mu' = FALSE
  /\ isConnected' = FALSE /\ xInst' = 0 /\ tunnel' = 0 /\ stopTunnel' = 0
  /\ tunnelStopped' = 0 /\ xSrvIP' = NoServer
  /\ socks5Server' = FALSE
  /\ killSwitchActive' = FALSE
  /\ xrayRunning' = {} /\ tunOpen' = {} /\ strayTuns' = {} /\ pipes' = {} /\ cancelled' = {}
  /\ chan' = [b \in Calls |-> 0]
  /\ op' = [c \in Callers |-> Idle]
  /\ overlapped' = FALSE /\ timedOut' = {} /\ straggler' = FALSE
  /\ tornDown' = FALSE /\ failedStarts' = {}
  /\ UNCHANGED <<exceptionRoutes, killChain, ruleFailed, calls>>

Next ==
  \/ \E c \in Callers : \/ \E s \in Servers : CallConnect(c, s)
                        \/ CallDisconnect(c)
                        \/ ConnectStep(c)
                        \/ DisconnectStep(c)
  \/ \E b \in Calls : PipeEnds(b) \/ Finalize(b)
  \/ Crash

\* A goroutine inside a call is scheduled, c.mu is handed on fairly, and the timer of
\* Disconnect fires; pipe.Copy may hang for ever.
Fairness ==
  \A c \in Callers : /\ SF_vars(ConnectStep(c))
                     /\ SF_vars(DisconnectStep(c))

Spec == Init /\ [][Next]_vars /\ Fairness
------------------------------------------------------------------------------
(***************************************************************************)
(* Properties.                                                             *)
(***************************************************************************)
Places == {"idle", "lock", "relock", "create", "setup", "pipe", "disconnect", "mark",
           "closeXray", "closeTunnel", "closeRoute", "wait"}

Ops == [pc : Places, server : Servers \cup {NoServer}, call : 0 .. MaxCalls,
        inner : BOOLEAN, waits : 0 .. MaxCalls]

\* Every variable keeps its type.
TypeOK ==
  /\ mu \in BOOLEAN /\ isConnected \in BOOLEAN /\ socks5Server \in BOOLEAN
  /\ xInst \in 0 .. MaxCalls /\ tunnel \in 0 .. MaxCalls
  /\ stopTunnel \in 0 .. MaxCalls /\ tunnelStopped \in 0 .. MaxCalls
  /\ xSrvIP \in Servers \cup {NoServer}
  /\ killSwitchActive \in BOOLEAN
  /\ killChain \in [jumps : Nat, drop : BOOLEAN]
  /\ xrayRunning \subseteq Calls /\ tunOpen \subseteq Calls /\ strayTuns \subseteq Calls
  /\ pipes \subseteq Calls /\ cancelled \subseteq Calls /\ timedOut \subseteq Calls
  /\ chan \in [Calls -> 0 .. MaxCalls]
  /\ exceptionRoutes \subseteq Servers
  /\ op \in [Callers -> Ops]
  /\ calls \in 0 .. MaxCalls /\ crashes \in 0 .. MaxCrashes
  /\ overlapped \in BOOLEAN /\ straggler \in BOOLEAN /\ ruleFailed \in BOOLEAN
  /\ tornDown \in BOOLEAN /\ failedStarts \subseteq Calls

Quiet == \A c \in Callers : op[c].pc = "idle"

\* When calls do not overlap and none is under way, a client that is not connected holds
\* nothing, whichever Connect failed and whatever was connected before, but for three
\* things the code leaves behind: xray instances whose Start failed (failedStarts), TUN
\* devices setupTunnel dropped (strayTuns), and pipes whose Disconnect gave up waiting or
\* that outlived the start of a later one.  No other xray instance, no other TUN device, no
\* exception route, no SOCKS5 server, no other pipe.  Connect's error paths and Disconnect.
IdleHoldsNothing ==
  Quiet /\ ~isConnected /\ ~overlapped /\ crashes = 0 =>
    /\ xrayRunning \subseteq failedStarts /\ tunOpen = {}
    /\ exceptionRoutes = {}
    /\ ~socks5Server
    /\ straggler \/ pipes \subseteq timedOut

\* When calls do not overlap and none is under way, a connected client has one xray
\* instance, one TUN device and the route to its server, all those of one call of
\* Connect, and its traffic is not blocked: reconnecting leaves nothing of the earlier
\* connection.  Beside it there may be instances whose Start failed in an earlier Connect,
\* and devices that setupTunnel dropped.  Connect of a connected client.
ConnectedMeansUp ==
  Quiet /\ isConnected /\ ~overlapped =>
    /\ xrayRunning \ failedStarts = {xInst} /\ tunOpen = {tunnel}
    /\ xInst = tunnel /\ stopTunnel = tunnel /\ tunnelStopped = tunnel
    /\ xSrvIP \in exceptionRoutes
    /\ crashes = 0 /\ ~ruleFailed => ~Blocking

\* When calls do not overlap, traffic is blocked from the moment Disconnect takes the VPN
\* down until a Connect has put one up again, through every failed Connect in between.
\* The order of Disconnect and of the end of Connect.
KillSwitchGap == EnableKillSwitch /\ ~ruleFailed /\ ~overlapped /\ tornDown => Blocking

\* While the process lives, c.killSwitchActive says what the firewall does, whatever calls
\* overlap: no jump is left behind and none is made twice.  activateKillSwitch and
\* deactivateKillSwitch.
FlagMatchesRules ==
  crashes = 0 /\ ~ruleFailed =>
    /\ killSwitchActive = Blocking
    /\ killChain.jumps <= 1

\* A Disconnect that was answered by its channel returns after the pipes it cancelled have
\* ended, provided none outlived the start of a later one: what an earlier pipe sent late
\* is not taken for the answer.  The channel Connect makes for each connection.
DisconnectWaits ==
  [][ \A c \in Callers :
        DisconnectReceive(c) /\ ~overlapped /\ ~straggler => pipes \cap cancelled = {} ]_vars

\* Every call of Connect or Disconnect ends, even if pipe.Copy never returns and calls
\* overlap.  disconnectTimeout, and the unlock before the inner Disconnect.
OperationsEnd == \A c \in Callers : op[c].pc # "idle" ~> op[c].pc = "idle"

\* What client.go says at the end of Connect, "Deactivate kill switch now that VPN is
\* connected", for a process that was started again as well.
UnblockedWhenConnected == Quiet /\ isConnected /\ ~ruleFailed => ~Blocking
==============================================================================
