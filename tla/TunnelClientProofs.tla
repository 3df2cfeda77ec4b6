-------------------------- MODULE TunnelClientProofs --------------------------
(***************************************************************************)
(* Proofs about TunnelClient for every set of goroutines and servers and   *)
(* every bound.                                                            *)
(*                                                                         *)
(* The inductive invariant is IInv: types; what a call of Connect carries  *)
(* with it (CallInv); at most one call at a time unless overlapped is set  *)
(* (AloneInv); what the kill switch flag says of the chain (FlagInv); and  *)
(* that the flag is set from the first step of Disconnect until the end of *)
(* the next Connect (GapInv); the number of a call is its own (FreshInv)   *)
(* and a pipe sends once on the channel made with it (PipeInv); and, while *)
(* calls do not overlap, what the Client holds at each place of the one    *)
(* call that is under way (SeqInv).  At the end, with invariants of their  *)
(* own, two results for calls that overlap: the owner of c.mu, and the     *)
(* context of a connection.                                                *)
(***************************************************************************)
EXTENDS TunnelClient, TLAPS

\* A call of Connect, also inside its inner Disconnect, has a number and a server, and
\* past createXrayProxy the address of a server is known.
CallInv ==
  \A c \in Callers :
    /\ op[c].pc \in {"lock", "relock", "create", "setup", "pipe"} \/ op[c].inner
         => op[c].call # 0 /\ op[c].server # NoServer
    /\ op[c].pc \in {"setup", "pipe"} => xSrvIP # NoServer

\* A connected client, and a Disconnect that found one, have a channel and a context.
ChannelInv ==
  /\ isConnected => tunnelStopped # 0 /\ stopTunnel # 0
  /\ \A c \in Callers :
       /\ op[c].pc \in {"closeXray", "closeTunnel", "closeRoute"} => tunnelStopped # 0
       /\ op[c].pc = "wait" => op[c].waits # 0

AloneInv ==
  ~overlapped => \A c, d \in Callers : op[c].pc # "idle" /\ op[d].pc # "idle" => c = d

FlagInv ==
  ~ruleFailed =>
    /\ killSwitchActive => Blocking
    /\ crashes = 0 => killChain = IF killSwitchActive THEN [jumps |-> 1, drop |-> TRUE]
                                                      ELSE NoChain

GapInv ==
  EnableKillSwitch /\ ~overlapped =>
    /\ tornDown => killSwitchActive
    /\ \A c \in Callers : op[c].pc = "mark" => killSwitchActive

\* Fresh numbers: a call of Connect under way has a number of its own that no channel and
\* no pipe has used yet, and whose instance has not failed to start.
FreshInv ==
  /\ tunnelStopped <= calls
  /\ \A n \in Calls : n > calls => chan[n] = 0
  /\ \A n \in failedStarts : n <= calls
  /\ \A c \in Callers : op[c].call # 0 =>
       /\ op[c].call <= calls /\ op[c].call # tunnelStopped /\ chan[op[c].call] = 0
       /\ op[c].call \notin failedStarts
       /\ \A d \in Callers : op[d].call = op[c].call => d = c

\* Unless a pipe outlived the start of a later one, the only pipe is the one of the current
\* channel, and it has not sent yet.
PipeInv ==
  straggler \/ (pipes \subseteq {tunnelStopped} /\ \A n \in pipes : chan[n] = 0)

\* The kill switch is used only when it is configured.
SwitchInv == killSwitchActive => EnableKillSwitch

\* What runs, but for instances whose Start failed, and what the operating system routes as
\* far as no crash left something.
Held(xs, ts, rs) ==
  xrayRunning \ failedStarts = xs /\ tunOpen = ts /\ (crashes = 0 => exceptionRoutes = rs)

Off == ~isConnected /\ ~socks5Server

PipesEnded == straggler \/ pipes \subseteq timedOut

Down == Off /\ PipesEnded /\ Held({}, {}, {})

Up == /\ isConnected /\ Held({xInst}, {tunnel}, {xSrvIP}) /\ xSrvIP \in exceptionRoutes
      /\ xInst = tunnel /\ stopTunnel = tunnel /\ tunnelStopped = tunnel

\* What the Client holds while a call that is alone is in place o.pc.
Stage(o) ==
  /\ o.pc \in {"idle", "lock", "disconnect"} => Down \/ (Up /\ ~killSwitchActive)
  /\ o.pc = "mark" => Down \/ (Up /\ ~socks5Server)
  /\ o.pc \in {"relock", "create"} => Down
  /\ o.pc = "setup" => Off /\ PipesEnded /\ Held({xInst}, {}, {}) /\ xInst = o.call
  /\ o.pc = "pipe" =>
       /\ Off /\ PipesEnded /\ Held({xInst}, {tunnel}, {xSrvIP})
       /\ xSrvIP \in exceptionRoutes /\ xInst = tunnel /\ tunnel = o.call
  /\ o.pc = "closeXray" => Off /\ Held({xInst}, {tunnel}, {xSrvIP})
  /\ o.pc = "closeTunnel" => Off /\ Held({}, {tunnel}, {xSrvIP})
  /\ o.pc = "closeRoute" => Off /\ Held({}, {}, {xSrvIP})
  /\ o.pc = "wait" => Off /\ Held({}, {}, {}) /\ o.waits = tunnelStopped

Stages == /\ Quiet => Down \/ (Up /\ ~killSwitchActive)
          /\ \A c \in Callers : op[c].pc # "idle" => Stage(op[c])

SeqInv == ~overlapped => Stages

IInv == /\ TypeOK /\ CallInv /\ ChannelInv /\ AloneInv /\ FlagInv /\ GapInv
        /\ FreshInv /\ PipeInv /\ SwitchInv /\ SeqInv

\* The actions a step of Next may be, one by one.
LEMMA NextCases ==
  ASSUME Next
  PROVE  \/ \E c \in Callers :
              \/ \E s \in Servers : CallConnect(c, s)
              \/ CallDisconnect(c) \/ ConnectLock(c) \/ ConnectRelock(c)
              \/ ConnectCreate(c) \/ SetupFails(c) \/ ConnectSetup(c) \/ ConnectDone(c)
              \/ DisconnectBegin(c) \/ DisconnectMark(c) \/ DisconnectCloseXray(c)
              \/ DisconnectCloseTunnel(c) \/ DisconnectCloseRoute(c)
              \/ DisconnectReceive(c) \/ DisconnectTimeout(c)
         \/ \E b \in Calls : PipeEnds(b) \/ Finalize(b)
         \/ Crash
BY DEF Next, ConnectStep, DisconnectStep

\* The initial states satisfy the invariant.
LEMMA InitIInv == Init => IInv
<1> SUFFICES ASSUME Init
             PROVE  IInv
  OBVIOUS
<1>1. TypeOK
  <2>1. op \in [Callers -> Ops]
    BY ClientAssumption DEF Init, Idle, Places, Ops
  <2>2. chan \in [Calls -> 0 .. MaxCalls]
    BY ClientAssumption DEF Init
  <2>3. killChain \in [jumps : Nat, drop : BOOLEAN]
    BY DEF Init, NoChain
  <2>4. /\ calls \in 0 .. MaxCalls /\ crashes \in 0 .. MaxCrashes
        /\ xInst \in 0 .. MaxCalls /\ tunnel \in 0 .. MaxCalls
        /\ stopTunnel \in 0 .. MaxCalls /\ tunnelStopped \in 0 .. MaxCalls
    BY ClientAssumption DEF Init
  <2> QED
    BY <2>1, <2>2, <2>3, <2>4 DEF Init, TypeOK
<1>2. CallInv /\ ChannelInv /\ AloneInv /\ GapInv
  BY DEF Init, CallInv, ChannelInv, AloneInv, GapInv, Idle
<1>3. FlagInv
  BY DEF Init, FlagInv
<1>4. FreshInv /\ PipeInv /\ SwitchInv
  BY ClientAssumption DEF Init, FreshInv, PipeInv, SwitchInv, Idle
<1>5. SeqInv
  BY DEF Init, SeqInv, Stages, Stage, Idle, Down, Off, PipesEnded, Held
<1> QED
  BY <1>1, <1>2, <1>3, <1>4, <1>5 DEF IInv
------------------------------------------------------------------------------
\* A call begins with an operation record, and the idle one is one.
LEMMA OpsMade ==
  /\ Idle \in Ops
  /\ [Idle EXCEPT !.pc = "disconnect"] \in Ops
  /\ \A s \in Servers, n \in 0 .. MaxCalls :
       [Idle EXCEPT !.pc = "lock", !.server = s, !.call = n] \in Ops
<1>1. Idle \in Ops
  BY ClientAssumption DEF Idle, Ops, Places
<1>2. [Idle EXCEPT !.pc = "disconnect"] \in Ops
  BY <1>1 DEF Ops, Places
<1>3. ASSUME NEW s \in Servers, NEW n \in 0 .. MaxCalls
      PROVE  [Idle EXCEPT !.pc = "lock", !.server = s, !.call = n] \in Ops
  BY <1>1 DEF Ops, Places
<1> QED
  BY <1>1, <1>2, <1>3

\* A call that ends leaves the idle record.
LEMMA OpReturn ==
  ASSUME op \in [Callers -> Ops], NEW c \in Callers, Return(c)
  PROVE  op' \in [Callers -> Ops]
BY OpsMade DEF Return

\* A caller moves on.
LEMMA OpGoto ==
  ASSUME op \in [Callers -> Ops], NEW c \in Callers, NEW pc \in Places,
         op' = [op EXCEPT ![c].pc = pc]
  PROVE  op' \in [Callers -> Ops]
BY DEF Ops

\* A Disconnect ends, or goes back to its Connect.
LEMMA OpLeave ==
  ASSUME op \in [Callers -> Ops], NEW c \in Callers, Leave(c)
  PROVE  op' \in [Callers -> Ops]
<1>1. CASE op[c].inner
  BY <1>1 DEF Leave, Ops, Places
<1>2. CASE ~op[c].inner
  BY <1>2, OpReturn DEF Leave
<1> QED
  BY <1>1, <1>2

\* The operation records keep their type.
LEMMA OpStep ==
  ASSUME TypeOK, Next
  PROVE  op' \in [Callers -> Ops]
<1>0. op \in [Callers -> Ops] /\ calls \in 0 .. MaxCalls /\ tunnelStopped \in 0 .. MaxCalls
  BY DEF TypeOK
<1>1. ASSUME NEW c \in Callers, NEW s \in Servers, CallConnect(c, s)
      PROVE  op' \in [Callers -> Ops]
  <2>1. calls + 1 \in 0 .. MaxCalls
    BY <1>1, <1>0, ClientAssumption DEF CallConnect
  <2> QED
    BY <2>1, <1>1, <1>0, OpsMade DEF CallConnect
<1>2. ASSUME NEW c \in Callers, CallDisconnect(c)
      PROVE  op' \in [Callers -> Ops]
  BY <1>2, <1>0, OpsMade DEF CallDisconnect
<1>3. ASSUME NEW c \in Callers, ConnectLock(c)
      PROVE  op' \in [Callers -> Ops]
  BY <1>3, <1>0, OpGoto DEF ConnectLock, Goto, Places, Ops
<1>4. ASSUME NEW c \in Callers, ConnectRelock(c)
      PROVE  op' \in [Callers -> Ops]
  BY <1>4, <1>0, OpGoto DEF ConnectRelock, Goto, Places
<1>5. ASSUME NEW c \in Callers, ConnectCreate(c)
      PROVE  op' \in [Callers -> Ops]
  BY <1>5, <1>0, OpReturn, OpGoto DEF ConnectCreate, Places
<1>6. ASSUME NEW c \in Callers, SetupFails(c)
      PROVE  op' \in [Callers -> Ops]
  BY <1>6, <1>0, OpReturn DEF SetupFails
<1>7. ASSUME NEW c \in Callers, ConnectSetup(c)
      PROVE  op' \in [Callers -> Ops]
  BY <1>7, <1>0, OpGoto DEF ConnectSetup, Goto, Places
<1>8. ASSUME NEW c \in Callers, ConnectDone(c)
      PROVE  op' \in [Callers -> Ops]
  BY <1>8, <1>0, OpReturn DEF ConnectDone
<1>9. ASSUME NEW c \in Callers, DisconnectBegin(c)
      PROVE  op' \in [Callers -> Ops]
  BY <1>9, <1>0, OpGoto DEF DisconnectBegin, Goto, Places
<1>10. ASSUME NEW c \in Callers, DisconnectMark(c)
       PROVE  op' \in [Callers -> Ops]
  BY <1>10, <1>0, OpLeave, OpGoto DEF DisconnectMark, Places
<1>11. ASSUME NEW c \in Callers, DisconnectCloseXray(c)
       PROVE  op' \in [Callers -> Ops]
  BY <1>11, <1>0, OpGoto DEF DisconnectCloseXray, Goto, Places
<1>12. ASSUME NEW c \in Callers, DisconnectCloseTunnel(c)
       PROVE  op' \in [Callers -> Ops]
  BY <1>12, <1>0, OpGoto DEF DisconnectCloseTunnel, Goto, Places
<1>13. ASSUME NEW c \in Callers, DisconnectCloseRoute(c)
       PROVE  op' \in [Callers -> Ops]
  <2>1. \A r \in Ops, n \in 0 .. MaxCalls : [r EXCEPT !.pc = "wait", !.waits = n] \in Ops
    BY DEF Ops, Places
  <2>2. /\ tunnelStopped \in 0 .. MaxCalls /\ op[c] \in Ops
        /\ op' = [op EXCEPT ![c] = [op[c] EXCEPT !.pc = "wait", !.waits = tunnelStopped]]
    BY <1>13, <1>0 DEF DisconnectCloseRoute, TypeOK
  <2>3. [op[c] EXCEPT !.pc = "wait", !.waits = tunnelStopped] \in Ops
    BY <2>1, <2>2
  <2> QED
    BY <1>0, <2>2, <2>3
<1>14. ASSUME NEW c \in Callers, DisconnectReceive(c)
       PROVE  op' \in [Callers -> Ops]
  BY <1>14, <1>0, OpLeave DEF DisconnectReceive
<1>15. ASSUME NEW c \in Callers, DisconnectTimeout(c)
       PROVE  op' \in [Callers -> Ops]
  BY <1>15, <1>0, OpLeave DEF DisconnectTimeout
<1>16. ASSUME NEW b \in Calls, PipeEnds(b)
       PROVE  op' \in [Callers -> Ops]
  BY <1>16, <1>0 DEF PipeEnds
<1>17. ASSUME NEW b \in Calls, Finalize(b)
       PROVE  op' \in [Callers -> Ops]
  BY <1>17, <1>0 DEF Finalize
<1>18. ASSUME Crash
       PROVE  op' \in [Callers -> Ops]
  BY <1>18, <1>0, OpsMade DEF Crash
<1> QED
  BY <1>1, <1>2, <1>3, <1>4, <1>5, <1>6, <1>7, <1>8, <1>9, <1>10, <1>11, <1>12, <1>13,
     <1>14, <1>15, <1>16, <1>17, <1>18, NextCases

\* killSwitchActive and the chain keep their types through both functions.
LEMMA FirewallType ==
  ASSUME TypeOK, ActivateKillSwitch \/ DeactivateKillSwitch
  PROVE  /\ killSwitchActive' \in BOOLEAN /\ ruleFailed' \in BOOLEAN
         /\ killChain' \in [jumps : Nat, drop : BOOLEAN]
<1>1. /\ killSwitchActive \in BOOLEAN /\ ruleFailed \in BOOLEAN
      /\ killChain \in [jumps : Nat, drop : BOOLEAN]
  BY DEF TypeOK
<1>2. /\ killChain.jumps \in Nat /\ killChain.drop \in BOOLEAN
      /\ \A d \in BOOLEAN : [killChain EXCEPT !.drop = d] \in [jumps : Nat, drop : BOOLEAN]
  BY <1>1
<1>3. CASE ActivateKillSwitch
  <2>1. [jumps |-> killChain.jumps + 1, drop |-> TRUE] \in [jumps : Nat, drop : BOOLEAN]
    BY <1>2
  <2>2. killChain' \in [jumps : Nat, drop : BOOLEAN]
    BY <1>1, <1>2, <1>3, <2>1 DEF ActivateKillSwitch, firewall
  <2> QED
    BY <1>1, <1>3, <2>2 DEF ActivateKillSwitch, firewall
<1>4. CASE DeactivateKillSwitch
  <2>1. OneJumpLess \in Nat
    BY <1>2 DEF OneJumpLess
  <2>2. /\ [jumps |-> OneJumpLess, drop |-> FALSE] \in [jumps : Nat, drop : BOOLEAN]
        /\ [jumps : {killChain.jumps, OneJumpLess}, drop : {killChain.drop, FALSE}]
             \subseteq [jumps : Nat, drop : BOOLEAN]
    BY <1>2, <2>1
  <2>3. killChain' \in [jumps : Nat, drop : BOOLEAN]
    BY <1>1, <1>4, <2>2 DEF DeactivateKillSwitch, firewall
  <2> QED
    BY <1>1, <1>4, <2>3 DEF DeactivateKillSwitch, firewall
<1> QED
  BY <1>3, <1>4

\* Types are preserved: a route is added for xSrvIP and an instance is made under the
\* number of the call, hence CallInv; a context and a channel are there, hence ChannelInv.
LEMMA TypeStep ==
  ASSUME TypeOK, CallInv, ChannelInv, Next
  PROVE  TypeOK'
<1>0. op' \in [Callers -> Ops]
  BY OpStep
<1>a. \A c \in Callers : /\ op[c].call \in 0 .. MaxCalls /\ op[c].waits \in 0 .. MaxCalls
                        /\ op[c].server \in Servers \cup {NoServer}
  BY DEF TypeOK, Ops
<1>b. /\ \A c \in Callers : op[c].pc \in {"create", "setup", "pipe"}
           => op[c].call \in Calls /\ op[c].server \in Servers
      /\ \A c \in Callers : op[c].pc \in {"setup", "pipe"} => xSrvIP \in Servers
  BY <1>a DEF CallInv, Calls, TypeOK
<1>c. /\ isConnected => stopTunnel \in Calls
      /\ tunnelStopped # 0 => tunnelStopped \in Calls
      /\ \A c \in Callers : op[c].pc = "wait" => op[c].waits \in Calls
      /\ \A b \in Calls : b \in 0 .. MaxCalls
  BY <1>a DEF ChannelInv, Calls, TypeOK
<1> USE DEF TypeOK, fields, things, firewall, bounds, history
<1>1. ASSUME NEW c \in Callers, NEW s \in Servers, CallConnect(c, s)
      PROVE  TypeOK'
  <2>1. calls + 1 \in 0 .. MaxCalls
    BY <1>1, ClientAssumption DEF CallConnect
  <2> QED
    BY <2>1, <1>1, <1>0 DEF CallConnect, Enter
<1>2. ASSUME NEW c \in Callers, CallDisconnect(c)
      PROVE  TypeOK'
  BY <1>2, <1>0, <1>a, <1>b, <1>c DEF CallDisconnect, Enter
<1>3. ASSUME NEW c \in Callers, ConnectLock(c)
      PROVE  TypeOK'
  BY <1>3, <1>0, <1>a, <1>b, <1>c DEF ConnectLock
<1>4. ASSUME NEW c \in Callers, ConnectRelock(c)
      PROVE  TypeOK'
  BY <1>4, <1>0, <1>a, <1>b, <1>c DEF ConnectRelock
<1>5. ASSUME NEW c \in Callers, ConnectCreate(c)
      PROVE  TypeOK'
  <2>1. 0 \in 0 .. MaxCalls
    BY ClientAssumption
  <2>2. op[c].call \in Calls /\ op[c].server \in Servers /\ op[c].call \in 0 .. MaxCalls
    BY <1>5, <1>a, <1>b DEF ConnectCreate
  <2>3. xInst' \in 0 .. MaxCalls
    BY <1>5, <2>1, <2>2 DEF ConnectCreate
  <2>4. xSrvIP' \in Servers \cup {NoServer} /\ xrayRunning' \subseteq Calls /\ mu' \in BOOLEAN
    BY <1>5, <2>2 DEF ConnectCreate
  <2>5. failedStarts' \subseteq Calls
    BY <1>5, <2>2 DEF ConnectCreate
  <2>6. UNCHANGED <<isConnected, tunnel, stopTunnel, tunnelStopped, socks5Server, tunOpen,
                    strayTuns, pipes, cancelled, chan, exceptionRoutes, firewall, bounds,
                    overlapped, timedOut, straggler, tornDown>>
    BY <1>5 DEF ConnectCreate
  <2> QED
    BY <1>0, <2>3, <2>4, <2>5, <2>6
<1>6. ASSUME NEW c \in Callers, SetupFails(c)
      PROVE  TypeOK'
  <2>1. 0 \in 0 .. MaxCalls
    BY ClientAssumption
  <2>2. op[c].call \in Calls /\ op[c].call \in 0 .. MaxCalls
    BY <1>6, <1>a, <1>b DEF SetupFails
  <2>3. tunnel' \in 0 .. MaxCalls
    BY <1>6, <2>1, <2>2 DEF SetupFails
  <2>4. strayTuns' \subseteq Calls
    BY <1>6, <2>2 DEF SetupFails
  <2>5. exceptionRoutes' \subseteq Servers /\ xrayRunning' \subseteq Calls /\ mu' \in BOOLEAN
    BY <1>6 DEF SetupFails
  <2>6. UNCHANGED <<isConnected, xInst, stopTunnel, tunnelStopped, xSrvIP, socks5Server,
                    tunOpen, pipes, cancelled, chan, firewall, bounds, history>>
    BY <1>6 DEF SetupFails
  <2> QED
    BY <1>0, <2>3, <2>4, <2>5, <2>6
<1>7. ASSUME NEW c \in Callers, ConnectSetup(c)
      PROVE  TypeOK'
  <2>2. op[c].call \in Calls /\ xSrvIP \in Servers
    BY <1>7, <1>b DEF ConnectSetup, Goto
  <2> QED
    BY <1>7, <1>0, <1>a, <2>2 DEF ConnectSetup
<1>8. ASSUME NEW c \in Callers, ConnectDone(c)
      PROVE  TypeOK'
  <2>1. /\ killSwitchActive' \in BOOLEAN /\ ruleFailed' \in BOOLEAN
        /\ killChain' \in [jumps : Nat, drop : BOOLEAN]
    BY <1>8, FirewallType DEF ConnectDone
  <2>2. op[c].call \in Calls
    BY <1>8, <1>b DEF ConnectDone
  <2> QED
    BY <1>8, <1>0, <1>a, <2>1, <2>2 DEF ConnectDone, NewChannel
<1>9. ASSUME NEW c \in Callers, DisconnectBegin(c)
      PROVE  TypeOK'
  <2>1. /\ killSwitchActive' \in BOOLEAN /\ ruleFailed' \in BOOLEAN
        /\ killChain' \in [jumps : Nat, drop : BOOLEAN]
    BY <1>9, FirewallType DEF DisconnectBegin
  <2> QED
    BY <1>9, <1>0, <2>1 DEF DisconnectBegin
<1>10. ASSUME NEW c \in Callers, DisconnectMark(c)
       PROVE  TypeOK'
  BY <1>10, <1>0, <1>a, <1>b, <1>c DEF DisconnectMark
<1>11. ASSUME NEW c \in Callers, DisconnectCloseXray(c)
       PROVE  TypeOK'
  BY <1>11, <1>0, <1>a, <1>b, <1>c DEF DisconnectCloseXray
<1>12. ASSUME NEW c \in Callers, DisconnectCloseTunnel(c)
       PROVE  TypeOK'
  BY <1>12, <1>0, <1>a, <1>b, <1>c DEF DisconnectCloseTunnel
<1>13. ASSUME NEW c \in Callers, DisconnectCloseRoute(c)
       PROVE  TypeOK'
  BY <1>13, <1>0, <1>a, <1>b, <1>c DEF DisconnectCloseRoute
<1>14. ASSUME NEW c \in Callers, DisconnectReceive(c)
       PROVE  TypeOK'
  <2>0. 0 \in 0 .. MaxCalls
    BY ClientAssumption
  <2>1. chan' \in [Calls -> 0 .. MaxCalls]
    BY <1>14, <1>c, <2>0 DEF DisconnectReceive
  <2> QED
    BY <1>14, <1>0, <2>1 DEF DisconnectReceive
<1>15. ASSUME NEW c \in Callers, DisconnectTimeout(c)
       PROVE  TypeOK'
  BY <1>15, <1>0, <1>a, <1>b, <1>c DEF DisconnectTimeout
<1>16. ASSUME NEW b \in Calls, PipeEnds(b)
       PROVE  TypeOK'
  BY <1>16, <1>0, <1>a, <1>b, <1>c DEF PipeEnds
<1>17. ASSUME NEW b \in Calls, Finalize(b)
       PROVE  TypeOK'
  BY <1>17, <1>0, <1>a, <1>b, <1>c DEF Finalize
<1>18. ASSUME Crash
       PROVE  TypeOK'
  <2>1. crashes' \in 0 .. MaxCrashes
    BY <1>18, ClientAssumption DEF Crash
  <2>2. 0 \in 0 .. MaxCalls
    BY ClientAssumption
  <2> QED
    BY <2>1, <2>2, <1>18, <1>0 DEF Crash
<1> QED
  BY <1>1, <1>2, <1>3, <1>4, <1>5, <1>6, <1>7, <1>8, <1>9, <1>10, <1>11, <1>12, <1>13,
     <1>14, <1>15, <1>16, <1>17, <1>18, NextCases

\* What Leave does to the record of its caller, and to no other.
LEMMA LeaveAt ==
  ASSUME op \in [Callers -> Ops], NEW c \in Callers, Leave(c)
  PROVE  /\ \A d \in Callers : d # c => op'[d] = op[d]
         /\ op'[c].pc \in {"idle", "relock"} /\ ~op'[c].inner
         /\ op'[c].pc = "relock" =>
              op[c].inner /\ op'[c].call = op[c].call /\ op'[c].server = op[c].server
<1>1. CASE op[c].inner
  <2>1. op' = [op EXCEPT ![c].pc = "relock", ![c].inner = FALSE]
    BY <1>1 DEF Leave
  <2> QED
    BY <1>1, <2>1 DEF Ops
<1>2. CASE ~op[c].inner
  <2>1. op' = [op EXCEPT ![c] = Idle]
    BY <1>2 DEF Leave, Return
  <2> QED
    BY <1>2, <2>1 DEF Idle
<1> QED
  BY <1>1, <1>2

\* A call of Connect keeps its number and server, and createXrayProxy stores the address.
LEMMA CallStep ==
  ASSUME TypeOK, CallInv, Next
  PROVE  CallInv'
<1>0. op \in [Callers -> Ops]
  BY DEF TypeOK
<1>1. ASSUME NEW c \in Callers, NEW s \in Servers, CallConnect(c, s)
      PROVE  CallInv'
  BY <1>1, <1>0, ClientAssumption DEF CallConnect, Idle, fields, CallInv, TypeOK, Ops
<1>2. ASSUME NEW c \in Callers, CallDisconnect(c)
      PROVE  CallInv'
  BY <1>2, <1>0, ClientAssumption DEF CallDisconnect, Idle, fields, CallInv, Ops
<1>3. ASSUME NEW c \in Callers, ConnectLock(c)
      PROVE  CallInv'
  <2>1. CASE op' = [op EXCEPT ![c].pc = "disconnect", ![c].inner = TRUE] /\ op[c].pc = "lock"
    BY <1>3, <1>0, <2>1 DEF ConnectLock, CallInv, Ops, fields
  <2>2. CASE Goto(c, "lock", "create")
    BY <1>3, <1>0, <2>2 DEF ConnectLock, CallInv, Ops, Goto, fields
  <2> QED
    BY <1>3, <2>1, <2>2 DEF ConnectLock
<1>4. ASSUME NEW c \in Callers, ConnectRelock(c)
      PROVE  CallInv'
  BY <1>4, <1>0, ClientAssumption DEF ConnectRelock, Goto, fields, CallInv, Ops
<1>5. ASSUME NEW c \in Callers, ConnectCreate(c)
      PROVE  CallInv'
  <2>1. CASE Return(c)
    BY <1>5, <1>0, <2>1 DEF ConnectCreate, CallInv, Return, Idle
  <2>2. CASE /\ op' = [op EXCEPT ![c].pc = "setup"] /\ op[c].pc = "create"
             /\ xSrvIP' = op[c].server
    BY <1>5, <1>0, <2>2 DEF ConnectCreate, CallInv, Ops
  <2> QED
    BY <1>5, <2>1, <2>2 DEF ConnectCreate
<1>6. ASSUME NEW c \in Callers, SetupFails(c)
      PROVE  CallInv'
  BY <1>6, <1>0, ClientAssumption DEF SetupFails, Return, Idle, CallInv
<1>7. ASSUME NEW c \in Callers, ConnectSetup(c)
      PROVE  CallInv'
  BY <1>7, <1>0, ClientAssumption DEF ConnectSetup, Goto, CallInv, Ops
<1>8. ASSUME NEW c \in Callers, ConnectDone(c)
      PROVE  CallInv'
  BY <1>8, <1>0, ClientAssumption DEF ConnectDone, Return, Idle, CallInv
<1>9. ASSUME NEW c \in Callers, DisconnectBegin(c)
      PROVE  CallInv'
  BY <1>9, <1>0, ClientAssumption DEF DisconnectBegin, Goto, fields, CallInv, Ops
<1>10. ASSUME NEW c \in Callers, DisconnectMark(c)
       PROVE  CallInv'
  <2>1. CASE Leave(c) /\ UNCHANGED <<isConnected, cancelled, tornDown>>
    BY <1>10, <1>0, <2>1, LeaveAt DEF DisconnectMark, CallInv
  <2>2. CASE op' = [op EXCEPT ![c].pc = "closeXray"] /\ op[c].pc = "mark" /\ isConnected
    BY <1>10, <1>0, <2>2 DEF DisconnectMark, CallInv, Ops
  <2> QED
    BY <1>10, <2>1, <2>2 DEF DisconnectMark
<1>11. ASSUME NEW c \in Callers, DisconnectCloseXray(c)
       PROVE  CallInv'
  BY <1>11, <1>0, ClientAssumption DEF DisconnectCloseXray, Goto, fields, CallInv, Ops
<1>12. ASSUME NEW c \in Callers, DisconnectCloseTunnel(c)
       PROVE  CallInv'
  BY <1>12, <1>0, ClientAssumption DEF DisconnectCloseTunnel, Goto, fields, CallInv, Ops
<1>13. ASSUME NEW c \in Callers, DisconnectCloseRoute(c)
       PROVE  CallInv'
  BY <1>13, <1>0, ClientAssumption DEF DisconnectCloseRoute, fields, CallInv, Ops
<1>14. ASSUME NEW c \in Callers, DisconnectReceive(c)
       PROVE  CallInv'
  <2>1. Leave(c)
    BY <1>14 DEF DisconnectReceive
  <2> QED
    BY <1>14, <1>0, <2>1, LeaveAt DEF DisconnectReceive, CallInv, fields
<1>15. ASSUME NEW c \in Callers, DisconnectTimeout(c)
       PROVE  CallInv'
  <2>1. Leave(c)
    BY <1>15 DEF DisconnectTimeout
  <2> QED
    BY <1>15, <1>0, <2>1, LeaveAt DEF DisconnectTimeout, CallInv, fields
<1>16. ASSUME NEW b \in Calls, PipeEnds(b)
       PROVE  CallInv'
  BY <1>16, <1>0, ClientAssumption DEF PipeEnds, fields, CallInv, Ops
<1>17. ASSUME NEW b \in Calls, Finalize(b)
       PROVE  CallInv'
  BY <1>17, <1>0, ClientAssumption DEF Finalize, fields, CallInv
<1>18. ASSUME Crash
       PROVE  CallInv'
  BY <1>18, <1>0, ClientAssumption DEF Crash, Idle, CallInv
<1> QED
  BY <1>1, <1>2, <1>3, <1>4, <1>5, <1>6, <1>7, <1>8, <1>9, <1>10, <1>11, <1>12, <1>13,
     <1>14, <1>15, <1>16, <1>17, <1>18, NextCases

\* Only a crash takes the channel and the context away, and it ends every call.
LEMMA ChannelStep ==
  ASSUME TypeOK, CallInv, ChannelInv, Next
  PROVE  ChannelInv'
<1>0. op \in [Callers -> Ops]
  BY DEF TypeOK
<1>1. ASSUME NEW c \in Callers, NEW s \in Servers, CallConnect(c, s)
      PROVE  ChannelInv'
  BY <1>1, <1>0 DEF CallConnect, Idle, fields, ChannelInv, CallInv, Ops
<1>2. ASSUME NEW c \in Callers, CallDisconnect(c)
      PROVE  ChannelInv'
  BY <1>2, <1>0 DEF CallDisconnect, Idle, fields, ChannelInv, CallInv, Ops
<1>3. ASSUME NEW c \in Callers, ConnectLock(c)
      PROVE  ChannelInv'
  <2>1. CASE op' = [op EXCEPT ![c].pc = "disconnect", ![c].inner = TRUE] /\ op[c].pc = "lock"
    BY <1>3, <1>0, <2>1 DEF ConnectLock, ChannelInv, Ops, fields
  <2>2. CASE Goto(c, "lock", "create")
    BY <1>3, <1>0, <2>2 DEF ConnectLock, ChannelInv, Ops, Goto, fields
  <2> QED
    BY <1>3, <2>1, <2>2 DEF ConnectLock
<1>4. ASSUME NEW c \in Callers, ConnectRelock(c)
      PROVE  ChannelInv'
  BY <1>4, <1>0 DEF ConnectRelock, Goto, fields, ChannelInv, CallInv, Ops
<1>5. ASSUME NEW c \in Callers, ConnectCreate(c)
      PROVE  ChannelInv'
  BY <1>5, <1>0 DEF ConnectCreate, Return, Idle, ChannelInv, CallInv, Ops
<1>6. ASSUME NEW c \in Callers, SetupFails(c)
      PROVE  ChannelInv'
  BY <1>6, <1>0 DEF SetupFails, Return, Idle, ChannelInv, CallInv
<1>7. ASSUME NEW c \in Callers, ConnectSetup(c)
      PROVE  ChannelInv'
  BY <1>7, <1>0 DEF ConnectSetup, Goto, ChannelInv, CallInv, Ops
<1>8. ASSUME NEW c \in Callers, ConnectDone(c)
      PROVE  ChannelInv'
  BY <1>8, <1>0 DEF ConnectDone, NewChannel, Return, Idle, ChannelInv, CallInv
<1>9. ASSUME NEW c \in Callers, DisconnectBegin(c)
      PROVE  ChannelInv'
  BY <1>9, <1>0 DEF DisconnectBegin, Goto, fields, ChannelInv, CallInv, Ops
<1>10. ASSUME NEW c \in Callers, DisconnectMark(c)
       PROVE  ChannelInv'
  <2>1. CASE Leave(c) /\ UNCHANGED <<isConnected, cancelled, tornDown>>
    BY <1>10, <1>0, <2>1, LeaveAt DEF DisconnectMark, ChannelInv
  <2>2. CASE op' = [op EXCEPT ![c].pc = "closeXray"] /\ op[c].pc = "mark" /\ isConnected
    BY <1>10, <1>0, <2>2 DEF DisconnectMark, ChannelInv, Ops
  <2> QED
    BY <1>10, <2>1, <2>2 DEF DisconnectMark
<1>11. ASSUME NEW c \in Callers, DisconnectCloseXray(c)
       PROVE  ChannelInv'
  BY <1>11, <1>0 DEF DisconnectCloseXray, Goto, fields, ChannelInv, CallInv, Ops
<1>12. ASSUME NEW c \in Callers, DisconnectCloseTunnel(c)
       PROVE  ChannelInv'
  BY <1>12, <1>0 DEF DisconnectCloseTunnel, Goto, fields, ChannelInv, CallInv, Ops
<1>13. ASSUME NEW c \in Callers, DisconnectCloseRoute(c)
       PROVE  ChannelInv'
  BY <1>13, <1>0 DEF DisconnectCloseRoute, fields, ChannelInv, CallInv, Ops
<1>14. ASSUME NEW c \in Callers, DisconnectReceive(c)
       PROVE  ChannelInv'
  <2>1. Leave(c)
    BY <1>14 DEF DisconnectReceive
  <2> QED
    BY <1>14, <1>0, <2>1, LeaveAt DEF DisconnectReceive, ChannelInv, fields
<1>15. ASSUME NEW c \in Callers, DisconnectTimeout(c)
       PROVE  ChannelInv'
  <2>1. Leave(c)
    BY <1>15 DEF DisconnectTimeout
  <2> QED
    BY <1>15, <1>0, <2>1, LeaveAt DEF DisconnectTimeout, ChannelInv, fields
<1>16. ASSUME NEW b \in Calls, PipeEnds(b)
       PROVE  ChannelInv'
  BY <1>16, <1>0 DEF PipeEnds, fields, ChannelInv, CallInv, Ops
<1>17. ASSUME NEW b \in Calls, Finalize(b)
       PROVE  ChannelInv'
  BY <1>17, <1>0 DEF Finalize, fields, ChannelInv, CallInv
<1>18. ASSUME Crash
       PROVE  ChannelInv'
  BY <1>18, <1>0 DEF Crash, Idle, ChannelInv, CallInv
<1> QED
  BY <1>1, <1>2, <1>3, <1>4, <1>5, <1>6, <1>7, <1>8, <1>9, <1>10, <1>11, <1>12, <1>13,
     <1>14, <1>15, <1>16, <1>17, <1>18, NextCases

\* Only a call can make a second one active, and it sets overlapped then.
LEMMA AloneStep ==
  ASSUME TypeOK, AloneInv, Next
  PROVE  AloneInv'
<1>0. op \in [Callers -> Ops]
  BY DEF TypeOK
<1>1. ASSUME NEW c \in Callers, NEW s \in Servers, CallConnect(c, s)
      PROVE  AloneInv'
  BY <1>1, <1>0 DEF CallConnect, Enter, Idle, AloneInv, Ops
<1>2. ASSUME NEW c \in Callers, CallDisconnect(c)
      PROVE  AloneInv'
  BY <1>2, <1>0 DEF CallDisconnect, Enter, Idle, AloneInv, Ops
<1>3. ASSUME NEW c \in Callers, ConnectLock(c)
      PROVE  AloneInv'
  BY <1>3, <1>0 DEF ConnectLock, Goto, history, AloneInv, Ops
<1>4. ASSUME NEW c \in Callers, ConnectRelock(c)
      PROVE  AloneInv'
  BY <1>4, <1>0 DEF ConnectRelock, Goto, history, AloneInv, Ops
<1>5. ASSUME NEW c \in Callers, ConnectCreate(c)
      PROVE  AloneInv'
  BY <1>5, <1>0 DEF ConnectCreate, Return, history, Idle, AloneInv, Ops
<1>6. ASSUME NEW c \in Callers, SetupFails(c)
      PROVE  AloneInv'
  BY <1>6, <1>0 DEF SetupFails, Return, history, Idle, AloneInv, Ops
<1>7. ASSUME NEW c \in Callers, ConnectSetup(c)
      PROVE  AloneInv'
  BY <1>7, <1>0 DEF ConnectSetup, Goto, history, AloneInv, Ops
<1>8. ASSUME NEW c \in Callers, ConnectDone(c)
      PROVE  AloneInv'
  BY <1>8, <1>0 DEF ConnectDone, Return, Idle, AloneInv, Ops
<1>9. ASSUME NEW c \in Callers, DisconnectBegin(c)
      PROVE  AloneInv'
  BY <1>9, <1>0 DEF DisconnectBegin, Goto, history, AloneInv, Ops
<1>10. ASSUME NEW c \in Callers, DisconnectMark(c)
       PROVE  AloneInv'
  BY <1>10, <1>0 DEF DisconnectMark, Leave, Return, Idle, AloneInv, Ops
<1>11. ASSUME NEW c \in Callers, DisconnectCloseXray(c)
       PROVE  AloneInv'
  BY <1>11, <1>0 DEF DisconnectCloseXray, Goto, history, AloneInv, Ops
<1>12. ASSUME NEW c \in Callers, DisconnectCloseTunnel(c)
       PROVE  AloneInv'
  BY <1>12, <1>0 DEF DisconnectCloseTunnel, Goto, history, AloneInv, Ops
<1>13. ASSUME NEW c \in Callers, DisconnectCloseRoute(c)
       PROVE  AloneInv'
  BY <1>13, <1>0 DEF DisconnectCloseRoute, history, AloneInv, Ops
<1>14. ASSUME NEW c \in Callers, DisconnectReceive(c)
       PROVE  AloneInv'
  BY <1>14, <1>0 DEF DisconnectReceive, Leave, history, Return, Idle, AloneInv, Ops
<1>15. ASSUME NEW c \in Callers, DisconnectTimeout(c)
       PROVE  AloneInv'
  BY <1>15, <1>0 DEF DisconnectTimeout, Leave, Return, Idle, AloneInv, Ops
<1>16. ASSUME NEW b \in Calls, PipeEnds(b)
       PROVE  AloneInv'
  BY <1>16, <1>0 DEF PipeEnds, history, AloneInv, Ops
<1>17. ASSUME NEW b \in Calls, Finalize(b)
       PROVE  AloneInv'
  BY <1>17, <1>0 DEF Finalize, history, AloneInv, Ops
<1>18. ASSUME Crash
       PROVE  AloneInv'
  BY <1>18, <1>0 DEF Crash, Idle, AloneInv, Ops
<1> QED
  BY <1>1, <1>2, <1>3, <1>4, <1>5, <1>6, <1>7, <1>8, <1>9, <1>10, <1>11, <1>12, <1>13,
     <1>14, <1>15, <1>16, <1>17, <1>18, NextCases

\* The kill switch functions and the crash are all that reaches the flag, the chain or the
\* history of both.
LEMMA FlagStep ==
  ASSUME TypeOK, FlagInv, Next
  PROVE  FlagInv'
<1>1. CASE UNCHANGED <<killSwitchActive, killChain, ruleFailed, crashes>>
  BY <1>1 DEF FlagInv, Blocking
<1>2. ASSUME NEW c \in Callers, ConnectDone(c)
      PROVE  FlagInv'
  <2>1. UNCHANGED crashes /\ DeactivateKillSwitch
    BY <1>2 DEF ConnectDone, bounds
  <2>2. CASE UNCHANGED firewall
    BY <2>1, <2>2 DEF FlagInv, Blocking, firewall
  <2>3. CASE ruleFailed' = TRUE
    BY <2>3 DEF FlagInv
  <2>4. CASE /\ killSwitchActive /\ killSwitchActive' = FALSE /\ UNCHANGED ruleFailed
             /\ killChain' = [jumps |-> OneJumpLess, drop |-> FALSE]
    <3>1. ~ruleFailed /\ crashes = 0 => OneJumpLess = 0
      BY <2>4 DEF FlagInv, OneJumpLess
    <3>2. ~ruleFailed' /\ crashes' = 0 => killChain' = NoChain
      BY <2>1, <2>4, <3>1 DEF NoChain
    <3> QED
      BY <2>4, <3>2 DEF FlagInv
  <2> QED
    <3>1. \/ /\ killSwitchActive /\ killSwitchActive' = FALSE
             /\ \/ /\ killChain' = [jumps |-> OneJumpLess, drop |-> FALSE]
                   /\ UNCHANGED ruleFailed
                \/ ruleFailed' = TRUE
          \/ UNCHANGED firewall
      BY <2>1 DEF DeactivateKillSwitch
    <3> QED
      BY <2>2, <2>3, <2>4, <3>1
<1>3. ASSUME NEW c \in Callers, DisconnectBegin(c)
      PROVE  FlagInv'
  BY <1>3 DEF DisconnectBegin, ActivateKillSwitch, FlagInv, Blocking, NoChain, TypeOK,
     firewall, bounds
<1>4. CASE Crash
  BY <1>4 DEF Crash, FlagInv, Blocking, TypeOK
<1> QED
  <2>1. ASSUME NEW c \in Callers,
               \/ \E s \in Servers : CallConnect(c, s)
               \/ CallDisconnect(c) \/ ConnectLock(c) \/ ConnectRelock(c)
               \/ ConnectCreate(c) \/ SetupFails(c) \/ ConnectSetup(c)
        PROVE  FlagInv'
    BY <1>1, <2>1 DEF CallConnect, CallDisconnect, ConnectLock, ConnectRelock, ConnectCreate,
       SetupFails, ConnectSetup, firewall, bounds
  <2>2. ASSUME NEW c \in Callers,
               \/ DisconnectMark(c) \/ DisconnectCloseXray(c) \/ DisconnectCloseTunnel(c)
               \/ DisconnectCloseRoute(c) \/ DisconnectReceive(c) \/ DisconnectTimeout(c)
        PROVE  FlagInv'
    BY <1>1, <2>2 DEF DisconnectMark, DisconnectCloseXray, DisconnectCloseTunnel,
       DisconnectCloseRoute, DisconnectReceive, DisconnectTimeout, firewall, bounds
  <2>3. ASSUME NEW b \in Calls, PipeEnds(b) \/ Finalize(b)
        PROVE  FlagInv'
    BY <1>1, <2>3 DEF PipeEnds, Finalize, firewall, bounds
  <2> QED
    BY <1>2, <1>3, <1>4, <2>1, <2>2, <2>3, NextCases

\* Disconnect sets the flag before it marks the VPN as down, and, alone, nothing takes the
\* flag away until ConnectDone has put the VPN up.
LEMMA GapStep ==
  ASSUME TypeOK, AloneInv, GapInv, Next
  PROVE  GapInv'
<1>0. op \in [Callers -> Ops]
  BY DEF TypeOK
<1>1. ASSUME NEW c \in Callers, NEW s \in Servers, CallConnect(c, s)
      PROVE  GapInv'
  BY <1>1, <1>0 DEF CallConnect, Enter, Idle, firewall, GapInv, AloneInv, Ops
<1>2. ASSUME NEW c \in Callers, CallDisconnect(c)
      PROVE  GapInv'
  BY <1>2, <1>0 DEF CallDisconnect, Enter, Idle, firewall, GapInv, AloneInv, Ops
<1>3. ASSUME NEW c \in Callers, ConnectLock(c)
      PROVE  GapInv'
  <2>1. CASE op' = [op EXCEPT ![c].pc = "disconnect", ![c].inner = TRUE] /\ op[c].pc = "lock"
    BY <1>3, <1>0, <2>1 DEF ConnectLock, GapInv, Ops, firewall, history
  <2>2. CASE Goto(c, "lock", "create")
    BY <1>3, <1>0, <2>2 DEF ConnectLock, GapInv, Ops, Goto, firewall, history
  <2> QED
    BY <1>3, <2>1, <2>2 DEF ConnectLock
<1>4. ASSUME NEW c \in Callers, ConnectRelock(c)
      PROVE  GapInv'
  BY <1>4, <1>0 DEF ConnectRelock, Goto, firewall, history, GapInv, AloneInv, Ops
<1>5. ASSUME NEW c \in Callers, ConnectCreate(c)
      PROVE  GapInv'
  BY <1>5, <1>0 DEF ConnectCreate, Return, firewall, history, Idle, GapInv, AloneInv, Ops
<1>6. ASSUME NEW c \in Callers, SetupFails(c)
      PROVE  GapInv'
  BY <1>6, <1>0 DEF SetupFails, Return, firewall, history, Idle, GapInv, AloneInv
<1>7. ASSUME NEW c \in Callers, ConnectSetup(c)
      PROVE  GapInv'
  BY <1>7, <1>0 DEF ConnectSetup, Goto, firewall, history, GapInv, AloneInv, Ops
<1>8. ASSUME NEW c \in Callers, ConnectDone(c)
      PROVE  GapInv'
  BY <1>8, <1>0 DEF ConnectDone, DeactivateKillSwitch, Return, firewall, Idle, GapInv,
     AloneInv
<1>9. ASSUME NEW c \in Callers, DisconnectBegin(c)
      PROVE  GapInv'
  BY <1>9, <1>0 DEF DisconnectBegin, ActivateKillSwitch, Goto, history, firewall, GapInv,
     AloneInv, Ops
<1>10. ASSUME NEW c \in Callers, DisconnectMark(c)
       PROVE  GapInv'
  <2>1. CASE Leave(c) /\ UNCHANGED <<isConnected, cancelled, tornDown>>
    BY <1>10, <1>0, <2>1, LeaveAt DEF DisconnectMark, GapInv, firewall
  <2>2. CASE op' = [op EXCEPT ![c].pc = "closeXray"] /\ op[c].pc = "mark" /\ isConnected
    BY <1>10, <1>0, <2>2 DEF DisconnectMark, GapInv, Ops, firewall, AloneInv
  <2> QED
    BY <1>10, <2>1, <2>2 DEF DisconnectMark
<1>11. ASSUME NEW c \in Callers, DisconnectCloseXray(c)
       PROVE  GapInv'
  BY <1>11, <1>0 DEF DisconnectCloseXray, Goto, firewall, history, GapInv, AloneInv, Ops
<1>12. ASSUME NEW c \in Callers, DisconnectCloseTunnel(c)
       PROVE  GapInv'
  BY <1>12, <1>0 DEF DisconnectCloseTunnel, Goto, firewall, history, GapInv, AloneInv,
     Ops
<1>13. ASSUME NEW c \in Callers, DisconnectCloseRoute(c)
       PROVE  GapInv'
  BY <1>13, <1>0 DEF DisconnectCloseRoute, firewall, history, GapInv, AloneInv, Ops
<1>14. ASSUME NEW c \in Callers, DisconnectReceive(c)
       PROVE  GapInv'
  <2>1. Leave(c)
    BY <1>14 DEF DisconnectReceive
  <2> QED
    BY <1>14, <1>0, <2>1, LeaveAt DEF DisconnectReceive, GapInv, firewall, history
<1>15. ASSUME NEW c \in Callers, DisconnectTimeout(c)
       PROVE  GapInv'
  <2>1. Leave(c)
    BY <1>15 DEF DisconnectTimeout
  <2> QED
    BY <1>15, <1>0, <2>1, LeaveAt DEF DisconnectTimeout, GapInv, firewall
<1>16. ASSUME NEW b \in Calls, PipeEnds(b)
       PROVE  GapInv'
  BY <1>16, <1>0 DEF PipeEnds, firewall, history, GapInv, AloneInv, Ops
<1>17. ASSUME NEW b \in Calls, Finalize(b)
       PROVE  GapInv'
  BY <1>17, <1>0 DEF Finalize, firewall, history, GapInv, AloneInv
<1>18. ASSUME Crash
       PROVE  GapInv'
  BY <1>18, <1>0 DEF Crash, Idle, GapInv, AloneInv
<1> QED
  BY <1>1, <1>2, <1>3, <1>4, <1>5, <1>6, <1>7, <1>8, <1>9, <1>10, <1>11, <1>12, <1>13,
     <1>14, <1>15, <1>16, <1>17, <1>18, NextCases

\* A caller that goes on keeps its number, or returns with none.
LEMMA CallKept ==
  ASSUME op \in [Callers -> Ops], NEW c \in Callers,
         \/ Leave(c) \/ Return(c)
         \/ \E p \in Places : op' = [op EXCEPT ![c].pc = p]
         \/ \E p \in Places : op' = [op EXCEPT ![c].pc = p, ![c].inner = TRUE]
         \/ \E n \in 0 .. MaxCalls : op' = [op EXCEPT ![c].pc = "wait", ![c].waits = n]
  PROVE  /\ \A d \in Callers \ {c} : op'[d] = op[d]
         /\ op'[c].call \in {0, op[c].call}
<1>1. CASE Return(c)
  BY <1>1 DEF Return, Idle
<1>2. CASE Leave(c)
  BY <1>2 DEF Leave, Return, Idle, Ops
<1>3. CASE \E p \in Places : op' = [op EXCEPT ![c].pc = p]
  BY <1>3 DEF Ops
<1>4. CASE \E p \in Places : op' = [op EXCEPT ![c].pc = p, ![c].inner = TRUE]
  BY <1>4 DEF Ops
<1>5. CASE \E n \in 0 .. MaxCalls : op' = [op EXCEPT ![c].pc = "wait", ![c].waits = n]
  BY <1>5 DEF Ops
<1>6. QED
  BY <1>1, <1>2, <1>3, <1>4, <1>5

\* Numbers of calls are given out once.
LEMMA FreshKept ==
  ASSUME FreshInv, UNCHANGED <<tunnelStopped, calls>>, NEW c \in Callers,
         \A n \in Calls : chan'[n] = chan[n] \/ chan'[n] = 0,
         UNCHANGED failedStarts,
         \A d \in Callers \ {c} : op'[d] = op[d],
         op'[c].call \in {0, op[c].call}, op \in [Callers -> Ops]
  PROVE  FreshInv'
<1>1. \A d \in Callers : op'[d].call = 0 \/ op'[d].call = op[d].call
  OBVIOUS
<1>2. \A d \in Callers : op[d].call \in 0 .. MaxCalls
  BY DEF Ops
<1>3. \A d \in Callers : op'[d].call # 0 => op[d].call \in Calls /\ op'[d].call = op[d].call
  BY <1>1, <1>2, ClientAssumption DEF Calls
<1>4. QED
  BY <1>3 DEF FreshInv

\* Only CallConnect gives out a number, and only ConnectDone uses it up.
LEMMA FreshStep ==
  ASSUME TypeOK, CallInv, FreshInv, Next
  PROVE  FreshInv'
<1>0. /\ op \in [Callers -> Ops] /\ chan \in [Calls -> 0 .. MaxCalls]
      /\ calls \in 0 .. MaxCalls /\ tunnelStopped \in 0 .. MaxCalls /\ MaxCalls \in Nat
      /\ \A c \in Callers : op[c].call \in 0 .. MaxCalls
  BY ClientAssumption DEF TypeOK, Ops
<1>1. ASSUME NEW c \in Callers, NEW s \in Servers, CallConnect(c, s)
      PROVE  FreshInv'
  <2>1. /\ calls' = calls + 1 /\ calls + 1 \in Calls
        /\ UNCHANGED <<tunnelStopped, chan, failedStarts>>
        /\ \A d \in Callers \ {c} : op'[d] = op[d]
        /\ op'[c].call = calls + 1
    BY <1>0, <1>1 DEF CallConnect, Idle, fields, things, Calls
  <2>2. \A d \in Callers \ {c} : op'[d].call # 0 => op'[d].call <= calls
    BY <2>1 DEF FreshInv
  <2>3. tunnelStopped <= calls /\ chan[calls + 1] = 0
    BY <1>0, <2>1 DEF FreshInv
  <2>4. /\ \A n \in Calls : n > calls' => chan'[n] = 0
        /\ \A n \in failedStarts' : n <= calls'
        /\ calls + 1 \notin failedStarts
    <3>1. failedStarts \subseteq Nat
      BY DEF TypeOK, Calls
    <3>2. \A n \in failedStarts : n <= calls
      BY DEF FreshInv
    <3> QED
      BY <1>0, <2>1, <3>1, <3>2 DEF FreshInv, Calls
  <2>5. ASSUME NEW d \in Callers, op'[d].call # 0
        PROVE  /\ op'[d].call <= calls' /\ op'[d].call # tunnelStopped'
               /\ chan'[op'[d].call] = 0 /\ op'[d].call \notin failedStarts'
               /\ \A e \in Callers : op'[e].call = op'[d].call => e = d
    <3>1. CASE d = c
      BY <1>0, <2>1, <2>2, <2>3, <2>4, <3>1
    <3>2. CASE d # c
      BY <1>0, <2>1, <2>2, <2>5, <3>2 DEF FreshInv
    <3>3. QED
      BY <3>1, <3>2
  <2>6. QED
    BY <1>0, <2>1, <2>3, <2>4, <2>5 DEF FreshInv
<1>2. ASSUME NEW c \in Callers, CallDisconnect(c)
      PROVE  FreshInv'
  <2>1. /\ UNCHANGED <<tunnelStopped, calls, chan, failedStarts>> /\ op'[c].call = 0
        /\ \A d \in Callers \ {c} : op'[d] = op[d]
    BY <1>0, <1>2 DEF CallDisconnect, Idle, fields, things, bounds
  <2>2. QED
    BY <1>0, <2>1, FreshKept
<1>3. ASSUME NEW c \in Callers,
             \/ ConnectLock(c) \/ ConnectRelock(c) \/ SetupFails(c)
             \/ ConnectSetup(c) \/ DisconnectBegin(c) \/ DisconnectMark(c)
             \/ DisconnectCloseXray(c) \/ DisconnectCloseTunnel(c)
             \/ DisconnectCloseRoute(c) \/ DisconnectTimeout(c)
      PROVE  FreshInv'
  <2>1. UNCHANGED <<tunnelStopped, calls, chan, failedStarts>>
    BY <1>3 DEF ConnectLock, ConnectRelock, SetupFails, ConnectSetup, DisconnectBegin,
       DisconnectMark, DisconnectCloseXray, DisconnectCloseTunnel, DisconnectCloseRoute,
       DisconnectTimeout, fields, things, bounds, history
  <2>2. /\ \A d \in Callers \ {c} : op'[d] = op[d]
        /\ op'[c].call \in {0, op[c].call}
    <3>1. CASE ConnectLock(c)
      BY <1>0, <3>1, CallKept DEF ConnectLock, Goto, Places
    <3>2. CASE ConnectRelock(c) \/ ConnectSetup(c)
      BY <1>0, <3>2, CallKept DEF ConnectRelock, ConnectSetup, Goto, Places
    <3>3. CASE SetupFails(c)
      BY <1>0, <3>3, CallKept DEF SetupFails
    <3>4. CASE DisconnectBegin(c) \/ DisconnectCloseXray(c) \/ DisconnectCloseTunnel(c)
      BY <1>0, <3>4, CallKept
         DEF DisconnectBegin, DisconnectCloseXray, DisconnectCloseTunnel, Goto, Places
    <3>5. CASE DisconnectMark(c)
      BY <1>0, <3>5, CallKept DEF DisconnectMark, Places
    <3>6. CASE DisconnectCloseRoute(c)
      BY <1>0, <3>6, CallKept DEF DisconnectCloseRoute
    <3>7. CASE DisconnectTimeout(c)
      BY <1>0, <3>7, CallKept DEF DisconnectTimeout
    <3>8. QED
      BY <1>3, <3>1, <3>2, <3>3, <3>4, <3>5, <3>6, <3>7
  <2>3. QED
    BY <1>0, <2>1, <2>2, FreshKept
<1>4. ASSUME NEW c \in Callers, DisconnectReceive(c)
      PROVE  FreshInv'
  <2>1. /\ \A d \in Callers \ {c} : op'[d] = op[d]
        /\ op'[c].call \in {0, op[c].call}
    BY <1>0, <1>4, CallKept DEF DisconnectReceive
  <2>2. /\ UNCHANGED <<tunnelStopped, calls, failedStarts>>
        /\ \A n \in Calls : chan'[n] = chan[n] \/ chan'[n] = 0
    BY <1>0, <1>4 DEF DisconnectReceive, fields, bounds, history
  <2>3. QED
    BY <1>0, <2>1, <2>2, FreshKept
<1>5. ASSUME NEW c \in Callers, ConnectDone(c)
      PROVE  FreshInv'
  <2>1. /\ UNCHANGED <<calls, chan, failedStarts>> /\ tunnelStopped' = op[c].call
        /\ \A d \in Callers \ {c} : op'[d] = op[d]
        /\ op'[c].call = 0
    BY <1>0, <1>5 DEF ConnectDone, NewChannel, Return, Idle, bounds
  <2>2. op[c].call # 0
    BY <1>5 DEF CallInv, ConnectDone
  <2>3. QED
    BY <1>0, <2>1, <2>2 DEF FreshInv
<1>6. ASSUME NEW b \in Calls, PipeEnds(b)
      PROVE  FreshInv'
  <2>1. UNCHANGED <<calls, op, tunnelStopped, failedStarts>> /\ tunnelStopped \in Calls
    BY <1>0, <1>6 DEF PipeEnds, bounds, fields, history, Calls
  <2>2. \A n \in Calls : n # tunnelStopped => chan'[n] = chan[n]
    BY <1>0, <1>6 DEF PipeEnds
  <2>3. \A c \in Callers : op[c].call # 0 => op[c].call \in Calls
    BY <1>0 DEF Calls
  <2>4. QED
    BY <1>0, <2>1, <2>2, <2>3 DEF FreshInv, Calls
<1>7. ASSUME NEW b \in Calls, Finalize(b)
      PROVE  FreshInv'
  BY <1>7 DEF Finalize, FreshInv, fields, bounds, history
<1>8. ASSUME Crash
      PROVE  FreshInv'
  BY <1>0, <1>8 DEF Crash, FreshInv, Idle
<1>9. ASSUME NEW c \in Callers, ConnectCreate(c)
      PROVE  FreshInv'
  <2>1. /\ UNCHANGED <<tunnelStopped, calls, chan>>
        /\ \A d \in Callers \ {c} : op'[d] = op[d]
        /\ op[c].call # 0
    BY <1>0, <1>9, CallKept DEF ConnectCreate, Places, CallInv, bounds
  <2>2. CASE failedStarts' = failedStarts
    <3>1. op'[c].call \in {0, op[c].call}
      BY <1>0, <1>9, CallKept DEF ConnectCreate, Places
    <3> QED
      BY <1>0, <2>1, <2>2, <3>1, FreshKept
  <2>3. CASE failedStarts' = failedStarts \cup {op[c].call} /\ Return(c)
    <3>1. op'[c].call = 0
      BY <1>0, <2>3 DEF Return, Idle
    <3>2. \A d \in Callers \ {c} : op[d].call # op[c].call
      BY <2>1 DEF FreshInv
    <3>3. op[c].call <= calls
      BY <2>1 DEF FreshInv
    <3>4. ASSUME NEW d \in Callers, op'[d].call # 0
          PROVE  /\ op'[d].call <= calls' /\ op'[d].call # tunnelStopped'
                 /\ chan'[op'[d].call] = 0 /\ op'[d].call \notin failedStarts'
                 /\ \A e \in Callers : op'[e].call = op'[d].call => e = d
      <4>1. d # c /\ op'[d] = op[d]
        BY <2>1, <3>1, <3>4
      <4> QED
        BY <2>1, <2>3, <3>1, <3>2, <3>4, <4>1 DEF FreshInv
    <3> QED
      BY <2>1, <2>3, <3>3, <3>4 DEF FreshInv
  <2> QED
    BY <1>9, <2>2, <2>3 DEF ConnectCreate
<1> QED
  BY <1>1, <1>2, <1>3, <1>4, <1>5, <1>6, <1>7, <1>8, <1>9, NextCases

\* A pipe sends only once, and only ConnectDone makes a new one.
LEMMA PipeStep ==
  ASSUME TypeOK, CallInv, FreshInv, PipeInv, Next
  PROVE  PipeInv'
<1>0. /\ op \in [Callers -> Ops] /\ chan \in [Calls -> 0 .. MaxCalls]
      /\ pipes \subseteq Calls /\ straggler \in BOOLEAN
  BY DEF TypeOK
<1>1. CASE UNCHANGED <<straggler, pipes, tunnelStopped, chan>>
  BY <1>1 DEF PipeInv
<1>2. ASSUME NEW c \in Callers, ConnectDone(c)
      PROVE  PipeInv'
  <2>1. /\ UNCHANGED chan /\ tunnelStopped' = op[c].call
        /\ straggler' = (straggler \/ pipes # {})
        /\ pipes' = pipes \cup {op[c].call}
        /\ op[c].call # 0
    BY <1>2 DEF ConnectDone, NewChannel, CallInv
  <2>2. chan[op[c].call] = 0
    BY <2>1 DEF FreshInv
  <2>3. CASE straggler'
    BY <2>3 DEF PipeInv
  <2>4. CASE ~straggler'
    BY <1>0, <2>1, <2>2, <2>4 DEF PipeInv
  <2>5. QED
    BY <2>3, <2>4
<1>3. ASSUME NEW c \in Callers, DisconnectReceive(c)
      PROVE  PipeInv'
  <2>1. /\ UNCHANGED <<straggler, pipes, tunnelStopped>>
        /\ \A n \in Calls : chan'[n] = chan[n] \/ chan'[n] = 0
    BY <1>0, <1>3 DEF DisconnectReceive, history, fields
  <2>2. QED
    BY <1>0, <2>1 DEF PipeInv
<1>4. ASSUME NEW b \in Calls, PipeEnds(b)
      PROVE  PipeInv'
  BY <1>0, <1>4 DEF PipeEnds, PipeInv, fields, history
<1>5. CASE Crash
  BY <1>5 DEF Crash, PipeInv
<1> QED
  <2>1. ASSUME NEW c \in Callers,
               \/ \E s \in Servers : CallConnect(c, s)
               \/ CallDisconnect(c) \/ ConnectLock(c) \/ ConnectRelock(c)
               \/ ConnectCreate(c) \/ SetupFails(c) \/ ConnectSetup(c)
        PROVE  PipeInv'
    BY <1>1, <2>1 DEF CallConnect, CallDisconnect, ConnectLock, ConnectRelock, ConnectCreate,
       SetupFails, ConnectSetup, fields, things, history
  <2>2. ASSUME NEW c \in Callers,
               \/ DisconnectBegin(c) \/ DisconnectMark(c) \/ DisconnectCloseXray(c)
               \/ DisconnectCloseTunnel(c) \/ DisconnectCloseRoute(c)
               \/ DisconnectTimeout(c)
        PROVE  PipeInv'
    BY <1>1, <2>2 DEF DisconnectBegin, DisconnectMark, DisconnectCloseXray,
       DisconnectCloseTunnel, DisconnectCloseRoute, DisconnectTimeout, fields, things, history
  <2>3. ASSUME NEW b \in Calls, Finalize(b)
        PROVE  PipeInv'
    BY <1>1, <2>3 DEF Finalize, fields, history
  <2> QED
    BY <1>2, <1>3, <1>4, <1>5, <2>1, <2>2, <2>3, NextCases

\* A kill switch that is not configured is never set.
LEMMA SwitchStep == SwitchInv /\ Next => SwitchInv'
<1> SUFFICES ASSUME SwitchInv, Next PROVE SwitchInv'
  OBVIOUS
<1>1. ASSUME NEW c \in Callers, DisconnectBegin(c) \/ ConnectDone(c) PROVE SwitchInv'
  BY <1>1 DEF DisconnectBegin, ConnectDone, ActivateKillSwitch, DeactivateKillSwitch,
     SwitchInv, firewall
<1>2. CASE UNCHANGED killSwitchActive
  BY <1>2 DEF SwitchInv
<1>3. CASE Crash
  BY <1>3 DEF Crash, SwitchInv
<1> QED
  BY <1>1, <1>2, <1>3, NextCases
     DEF CallConnect, CallDisconnect, ConnectLock, ConnectRelock, ConnectCreate, SetupFails,
     ConnectSetup, DisconnectMark, DisconnectCloseXray, DisconnectCloseTunnel,
     DisconnectCloseRoute, DisconnectReceive, DisconnectTimeout, PipeEnds, Finalize, firewall

\* A step of the call that is alone need only preserve its own stage.
LEMMA StageStep ==
  ASSUME TypeOK, AloneInv, SeqInv, UNCHANGED overlapped,
         NEW c \in Callers, op[c].pc # "idle",
         \A d \in Callers \ {c} : op'[d] = op[d],
         ~overlapped /\ Stage(op[c]) => Stage(op[c])'
  PROVE  SeqInv'
<1> SUFFICES ASSUME ~overlapped PROVE Stages'
  BY DEF SeqInv
<1>1. Stage(op[c])'
  BY DEF SeqInv, Stages
<1>2. \A d \in Callers \ {c} : op'[d].pc = "idle"
  BY DEF AloneInv
<1>3. CASE op'[c].pc = "idle"
  <2>1. (Down \/ (Up /\ ~killSwitchActive))'
    BY <1>1, <1>3 DEF Stage
  <2>2. \A d \in Callers : op'[d].pc = "idle"
    BY <1>2, <1>3
  <2>3. QED
    BY <2>1, <2>2 DEF Stages, Stage
<1>4. CASE op'[c].pc # "idle"
  <2>1. ~Quiet'
    BY <1>4 DEF Quiet
  <2>2. QED
    BY <1>1, <1>2, <2>1 DEF Stages
<1>5. QED
  BY <1>3, <1>4

\* What the Client holds follows the call that is alone, from stage to stage.
LEMMA SeqStep ==
  ASSUME TypeOK, CallInv, AloneInv, FreshInv, PipeInv, SwitchInv, SeqInv, Next
  PROVE  SeqInv'
<1>0. /\ op \in [Callers -> Ops] /\ crashes \in Nat /\ straggler \in BOOLEAN
      /\ pipes \subseteq Calls /\ tunOpen \subseteq Calls /\ xrayRunning \subseteq Calls
  BY ClientAssumption DEF TypeOK
<1> USE DEF Down, Up, Off, Held, PipesEnded
<1>1. ASSUME NEW c \in Callers,
             CallDisconnect(c) \/ \E s \in Servers : CallConnect(c, s)
      PROVE  SeqInv'
  <2> SUFFICES ASSUME ~overlapped' PROVE Stages'
    BY DEF SeqInv
  <2>1. /\ op[c].pc = "idle" /\ ~overlapped
        /\ \A d \in Callers \ {c} : op[d].pc = "idle" /\ op'[d] = op[d]
        /\ op'[c].pc \in {"lock", "disconnect"}
    BY <1>0, <1>1 DEF CallConnect, CallDisconnect, Enter, Idle
  <2>2. Down \/ (Up /\ ~killSwitchActive)
    BY <2>1 DEF SeqInv, Stages, Quiet, Stage
  <2>3. (Down \/ (Up /\ ~killSwitchActive))'
    <3>1. UNCHANGED <<fields, socks5Server, things, exceptionRoutes, firewall, crashes,
                      timedOut, straggler, failedStarts>>
      BY <1>1 DEF CallConnect, CallDisconnect, bounds
    <3>2. QED
      BY <2>2, <3>1 DEF fields, things, firewall
  <2>4. Stage(op[c])' /\ ~Quiet'
    BY <2>1, <2>3 DEF Stage, Quiet
  <2>5. QED
    BY <2>1, <2>4 DEF Stages
<1>3. ASSUME NEW c \in Callers, ConnectLock(c)
      PROVE  SeqInv'
  <2>1. /\ op[c].pc = "lock" /\ \A d \in Callers \ {c} : op'[d] = op[d]
        /\ UNCHANGED <<fields, socks5Server, things, exceptionRoutes, firewall, bounds,
                       history>>
        /\ IF isConnected THEN op'[c].pc = "disconnect" ELSE op'[c].pc = "create"
    BY <1>0, <1>3 DEF ConnectLock, Goto, Ops
  <2>2. Stage(op[c]) => Stage(op[c])'
    BY <2>1 DEF Stage, fields, things, firewall, bounds, history
  <2>3. QED
    BY <2>1, <2>2, StageStep DEF history
<1>4. ASSUME NEW c \in Callers, ConnectRelock(c)
      PROVE  SeqInv'
  <2>1. /\ op[c].pc = "relock" /\ \A d \in Callers \ {c} : op'[d] = op[d]
        /\ UNCHANGED <<fields, socks5Server, things, exceptionRoutes, bounds, history>>
        /\ op'[c].pc = "create"
    BY <1>0, <1>4 DEF ConnectRelock, Goto, Ops
  <2>2. Stage(op[c]) => Stage(op[c])'
    BY <2>1 DEF Stage, fields, things, bounds, history
  <2>3. QED
    BY <2>1, <2>2, StageStep DEF history
<1>5. ASSUME NEW c \in Callers, ConnectCreate(c)
      PROVE  SeqInv'
  <2>1. /\ op[c].pc = "create" /\ \A d \in Callers \ {c} : op'[d] = op[d]
        /\ UNCHANGED <<isConnected, socks5Server, tunOpen, pipes, exceptionRoutes, bounds,
                       overlapped, timedOut, straggler>>
        /\ \/ /\ op'[c].pc = "idle"
              /\ xrayRunning' \ failedStarts' \subseteq xrayRunning \ failedStarts
           \/ /\ op'[c].pc = "setup" /\ op'[c].call = op[c].call /\ xInst' = op[c].call
              /\ xrayRunning' = xrayRunning \cup {op[c].call} /\ UNCHANGED failedStarts
    <3>1. /\ op[c].pc = "create" /\ \A d \in Callers \ {c} : op'[d] = op[d]
          /\ UNCHANGED <<isConnected, socks5Server, tunOpen, pipes, exceptionRoutes, bounds,
                         overlapped, timedOut, straggler>>
      BY <1>0, <1>5 DEF ConnectCreate, Return, Ops
    <3>2. CASE Return(c) /\ UNCHANGED <<xrayRunning, failedStarts>>
      BY <1>0, <3>1, <3>2 DEF Return, Idle
    <3>3. CASE /\ Return(c) /\ failedStarts' = failedStarts \cup {op[c].call}
               /\ xrayRunning' \in {xrayRunning, xrayRunning \cup {op[c].call}}
      <4>1. op'[c].pc = "idle"
        BY <1>0, <3>3 DEF Return, Idle
      <4>2. xrayRunning' \ failedStarts' \subseteq xrayRunning \ failedStarts
        BY <3>3
      <4> QED
        BY <3>1, <4>1, <4>2
    <3>4. CASE /\ op' = [op EXCEPT ![c].pc = "setup"] /\ xInst' = op[c].call
               /\ xrayRunning' = xrayRunning \cup {op[c].call} /\ UNCHANGED failedStarts
      BY <1>0, <3>1, <3>4 DEF Ops
    <3> QED
      BY <1>5, <3>2, <3>3, <3>4 DEF ConnectCreate
  <2>2. op[c].call \notin failedStarts
    BY <1>5 DEF ConnectCreate, CallInv, FreshInv
  <2>3. Stage(op[c]) => Stage(op[c])'
    BY <2>1, <2>2 DEF Stage, bounds
  <2>4. QED
    BY <2>1, <2>3, StageStep
<1>6. ASSUME NEW c \in Callers, SetupFails(c)
      PROVE  SeqInv'
  <2>1. /\ op[c].pc = "setup" /\ \A d \in Callers \ {c} : op'[d] = op[d]
        /\ UNCHANGED <<isConnected, socks5Server, tunOpen, pipes, bounds, history>>
        /\ op'[c].pc = "idle" /\ xrayRunning' = xrayRunning \ {xInst}
        /\ exceptionRoutes' = exceptionRoutes \ {xSrvIP}
    BY <1>0, <1>6 DEF SetupFails, Return, Idle
  <2>2. Stage(op[c]) => Stage(op[c])'
    BY <2>1 DEF Stage, bounds, history
  <2>3. QED
    BY <2>1, <2>2, StageStep DEF history
<1>7. ASSUME NEW c \in Callers, ConnectSetup(c)
      PROVE  SeqInv'
  <2>1. /\ op[c].pc = "setup" /\ \A d \in Callers \ {c} : op'[d] = op[d]
        /\ UNCHANGED <<isConnected, socks5Server, xInst, xSrvIP, xrayRunning, pipes, bounds,
                       history>>
        /\ op'[c].pc = "pipe" /\ op'[c].call = op[c].call /\ tunnel' = op[c].call
        /\ tunOpen' = tunOpen \cup {op[c].call}
        /\ exceptionRoutes' = exceptionRoutes \cup {xSrvIP}
    BY <1>0, <1>7 DEF ConnectSetup, Goto, Ops
  <2>2. Stage(op[c]) => Stage(op[c])'
    BY <2>1 DEF Stage, bounds, history
  <2>3. QED
    BY <2>1, <2>2, StageStep DEF history
<1>8. ASSUME NEW c \in Callers, ConnectDone(c)
      PROVE  SeqInv'
  <2>1. /\ op[c].pc = "pipe" /\ \A d \in Callers \ {c} : op'[d] = op[d]
        /\ UNCHANGED <<xInst, tunnel, xSrvIP, xrayRunning, tunOpen, exceptionRoutes, bounds,
                       overlapped, failedStarts>>
        /\ isConnected' = TRUE /\ op'[c].pc = "idle"
        /\ stopTunnel' = op[c].call /\ tunnelStopped' = op[c].call
    BY <1>0, <1>8 DEF ConnectDone, Return, Idle, NewChannel
  <2>2. ~killSwitchActive'
    BY <1>8 DEF ConnectDone, DeactivateKillSwitch, SwitchInv, firewall
  <2>3. Stage(op[c]) => Stage(op[c])'
    BY <2>1, <2>2 DEF Stage, bounds
  <2>4. QED
    BY <2>1, <2>3, StageStep
<1>9. ASSUME NEW c \in Callers, DisconnectBegin(c)
      PROVE  SeqInv'
  <2>1. /\ op[c].pc = "disconnect" /\ \A d \in Callers \ {c} : op'[d] = op[d]
        /\ UNCHANGED <<fields, things, exceptionRoutes, bounds, history>>
        /\ op'[c].pc = "mark" /\ socks5Server' = FALSE
    BY <1>0, <1>9 DEF DisconnectBegin, Goto, Ops
  <2>2. Stage(op[c]) => Stage(op[c])'
    BY <2>1 DEF Stage, fields, things, bounds, history
  <2>3. QED
    BY <2>1, <2>2, StageStep DEF history
<1>10. ASSUME NEW c \in Callers, DisconnectMark(c)
       PROVE  SeqInv'
  <2>1. /\ op[c].pc = "mark" /\ \A d \in Callers \ {c} : op'[d] = op[d]
        /\ UNCHANGED <<xInst, tunnel, xSrvIP, socks5Server, xrayRunning, tunOpen, pipes,
                       exceptionRoutes, bounds, overlapped, timedOut, straggler, failedStarts>>
        /\ IF isConnected THEN op'[c].pc = "closeXray" /\ ~isConnected'
                          ELSE op'[c].pc \in {"idle", "relock"} /\ UNCHANGED isConnected
    BY <1>0, <1>10 DEF DisconnectMark, Leave, Return, Idle, Ops
  <2>2. Stage(op[c]) => Stage(op[c])'
    BY <2>1 DEF Stage, bounds
  <2>3. QED
    BY <2>1, <2>2, StageStep
<1>11. ASSUME NEW c \in Callers, DisconnectCloseXray(c)
       PROVE  SeqInv'
  <2>1. /\ op[c].pc = "closeXray" /\ \A d \in Callers \ {c} : op'[d] = op[d]
        /\ UNCHANGED <<fields, socks5Server, tunOpen, exceptionRoutes, bounds, history>>
        /\ op'[c].pc = "closeTunnel" /\ xrayRunning' = xrayRunning \ {xInst}
    BY <1>0, <1>11 DEF DisconnectCloseXray, Goto, Ops
  <2>2. Stage(op[c]) => Stage(op[c])'
    BY <2>1 DEF Stage, fields, bounds, history
  <2>3. QED
    BY <2>1, <2>2, StageStep DEF history
<1>12. ASSUME NEW c \in Callers, DisconnectCloseTunnel(c)
       PROVE  SeqInv'
  <2>1. /\ op[c].pc = "closeTunnel" /\ \A d \in Callers \ {c} : op'[d] = op[d]
        /\ UNCHANGED <<fields, socks5Server, xrayRunning, exceptionRoutes, bounds, history>>
        /\ op'[c].pc = "closeRoute" /\ tunOpen' = tunOpen \ {tunnel}
    BY <1>0, <1>12 DEF DisconnectCloseTunnel, Goto, Ops
  <2>2. Stage(op[c]) => Stage(op[c])'
    BY <2>1 DEF Stage, fields, bounds, history
  <2>3. QED
    BY <2>1, <2>2, StageStep DEF history
<1>13. ASSUME NEW c \in Callers, DisconnectCloseRoute(c)
       PROVE  SeqInv'
  <2>1. /\ op[c].pc = "closeRoute" /\ \A d \in Callers \ {c} : op'[d] = op[d]
        /\ UNCHANGED <<fields, socks5Server, things, bounds, history>>
        /\ op'[c].pc = "wait" /\ op'[c].waits = tunnelStopped
        /\ exceptionRoutes' = exceptionRoutes \ {xSrvIP}
    BY <1>0, <1>13 DEF DisconnectCloseRoute, Ops
  <2>2. Stage(op[c]) => Stage(op[c])'
    BY <2>1 DEF Stage, fields, things, bounds, history
  <2>3. QED
    BY <2>1, <2>2, StageStep DEF history
<1>14. ASSUME NEW c \in Callers, DisconnectReceive(c) \/ DisconnectTimeout(c)
       PROVE  SeqInv'
  <2>1. /\ op[c].pc = "wait" /\ \A d \in Callers \ {c} : op'[d] = op[d]
        /\ UNCHANGED <<fields, socks5Server, xrayRunning, tunOpen, pipes, exceptionRoutes,
                       bounds, overlapped, straggler, failedStarts>>
        /\ op'[c].pc \in {"idle", "relock"}
    BY <1>0, <1>14 DEF DisconnectReceive, DisconnectTimeout, Leave, Return, Idle, Ops,
       things, history
  <2>2. op[c].waits = tunnelStopped => PipesEnded'
    <3>1. CASE DisconnectReceive(c)
      BY <3>1 DEF DisconnectReceive, PipeInv, history
    <3>2. CASE DisconnectTimeout(c)
      BY <3>2 DEF DisconnectTimeout, PipeInv, things
    <3>3. QED
      BY <1>14, <3>1, <3>2
  <2>3. Stage(op[c]) => Stage(op[c])'
    BY <2>1, <2>2 DEF Stage, fields, bounds
  <2>4. QED
    BY <2>1, <2>3, StageStep
<1>15. ASSUME NEW b \in Calls, PipeEnds(b) \/ Finalize(b)
       PROVE  SeqInv'
  <2>1. /\ UNCHANGED <<op, fields, socks5Server, xrayRunning, tunOpen, exceptionRoutes,
                       firewall, bounds, history>>
        /\ pipes' \subseteq pipes
    BY <1>15 DEF PipeEnds, Finalize
  <2>2. \A c \in Callers : Stage(op[c]) => Stage(op[c])'
    BY <2>1 DEF Stage, fields, firewall, bounds, history
  <2>3. Down \/ (Up /\ ~killSwitchActive) => (Down \/ (Up /\ ~killSwitchActive))'
    BY <2>1 DEF fields, firewall, bounds, history
  <2>4. QED
    BY <2>1, <2>2, <2>3 DEF SeqInv, Stages, Quiet, history
<1>16. ASSUME Crash
       PROVE  SeqInv'
  <2>1. /\ \A c \in Callers : op'[c].pc = "idle"
        /\ Down'
    BY <1>0, <1>16 DEF Crash, Idle
  <2>2. QED
    BY <2>1 DEF SeqInv, Stages, Stage
<1> QED
  BY <1>1, <1>3, <1>4, <1>5, <1>6, <1>7, <1>8, <1>9, <1>10, <1>11, <1>12, <1>13, <1>14,
     <1>15, <1>16, NextCases
------------------------------------------------------------------------------
\* Together the conjuncts are inductive.
LEMMA Inductive == IInv /\ [Next]_vars => IInv'
<1> SUFFICES ASSUME IInv, [Next]_vars
             PROVE  IInv'
  OBVIOUS
<1> USE DEF IInv
<1>1. CASE Next
  BY <1>1, TypeStep, CallStep, ChannelStep, AloneStep, FlagStep, GapStep, FreshStep, PipeStep,
     SwitchStep, SeqStep
<1>2. CASE UNCHANGED vars
  <2>1. (TypeOK /\ CallInv /\ ChannelInv /\ AloneInv /\ FlagInv /\ GapInv)'
    BY <1>2 DEF vars, TypeOK, CallInv, ChannelInv, AloneInv, FlagInv, GapInv, Blocking,
       fields, things, firewall, bounds, history
  <2>2. (FreshInv /\ PipeInv /\ SwitchInv)'
    BY <1>2 DEF vars, FreshInv, PipeInv, SwitchInv, fields, things, firewall, bounds, history
  <2>3. \A c \in Callers : Stage(op[c])' <=> Stage(op[c])
    BY <1>2 DEF vars, Stage, Down, Up, Off, PipesEnded, Held, fields, things, firewall,
       bounds, history
  <2>4. (Down \/ (Up /\ ~killSwitchActive))' <=> Down \/ (Up /\ ~killSwitchActive)
    BY <1>2 DEF vars, Down, Up, Off, PipesEnded, Held, fields, things, firewall, bounds,
       history
  <2>5. SeqInv'
    BY <1>2, <2>3, <2>4 DEF vars, SeqInv, Stages, Quiet, history
  <2> QED
    BY <2>1, <2>2, <2>5
<1> QED
  BY <1>1, <1>2

\* Every reachable state satisfies the invariant.
LEMMA Invariance == Spec => []IInv
BY InitIInv, Inductive, PTL DEF Spec

\* Every variable keeps its type: in particular Disconnect never waits on a channel that is
\* not there, and no route is added for an unresolved server.
THEOREM TypeCorrect == Spec => []TypeOK
<1>1. IInv => TypeOK
  BY DEF IInv
<1> QED
  BY <1>1, Invariance, PTL

\* The kill switch flag says what the firewall does, and no jump is left behind or made
\* twice, whatever calls overlap.  activateKillSwitch and deactivateKillSwitch.
THEOREM FlagCorrect == Spec => []FlagMatchesRules
<1>1. IInv => FlagMatchesRules
  BY DEF IInv, FlagInv, FlagMatchesRules, Blocking, NoChain, TypeOK
<1> QED
  BY <1>1, Invariance, PTL

\* Traffic is blocked from the moment Disconnect takes the VPN down until a Connect has put
\* one up again, when calls do not overlap.  The order of Disconnect and the end of Connect.
THEOREM GapClosed == Spec => []KillSwitchGap
<1>1. IInv => KillSwitchGap
  BY DEF IInv, FlagInv, GapInv, KillSwitchGap
<1> QED
  BY <1>1, Invariance, PTL

\* A client that is not connected and that nobody is calling holds nothing but what
\* IdleHoldsNothing names as left behind, when calls do not overlap: the other error paths of
\* Connect, and Disconnect, take down what is there.
THEOREM NothingHeldWhenIdle == Spec => []IdleHoldsNothing
<1>1. IInv => IdleHoldsNothing
  <2> SUFFICES ASSUME IInv, Quiet, ~isConnected, ~overlapped, crashes = 0
               PROVE  /\ xrayRunning \subseteq failedStarts /\ tunOpen = {}
                      /\ exceptionRoutes = {}
                      /\ ~socks5Server
                      /\ straggler \/ pipes \subseteq timedOut
    BY DEF IdleHoldsNothing
  <2>1. Down
    BY DEF IInv, SeqInv, Stages, Up
  <2> QED
    BY <2>1 DEF Down, Off, PipesEnded, Held
<1> QED
  BY <1>1, Invariance, PTL

\* A connected client has one instance, one device and one route, all of the same call of
\* Connect, and its traffic is not blocked, when calls do not overlap and instances whose
\* Start failed before are not counted.
THEOREM UpWhenConnected == Spec => []ConnectedMeansUp
<1>1. IInv => ConnectedMeansUp
  <2> SUFFICES ASSUME IInv, Quiet, isConnected, ~overlapped
               PROVE  /\ xrayRunning \ failedStarts = {xInst} /\ tunOpen = {tunnel}
                      /\ xInst = tunnel /\ stopTunnel = tunnel /\ tunnelStopped = tunnel
                      /\ xSrvIP \in exceptionRoutes
                      /\ crashes = 0 /\ ~ruleFailed => ~Blocking
    BY DEF ConnectedMeansUp
  <2>1. Up /\ ~killSwitchActive
    BY DEF IInv, SeqInv, Stages, Down, Off
  <2>2. crashes = 0 /\ ~ruleFailed => ~Blocking
    BY <2>1 DEF IInv, FlagInv, Blocking, NoChain
  <2> QED
    BY <2>1, <2>2 DEF Up, Held
<1> QED
  BY <1>1, Invariance, PTL

\* A Disconnect that was answered by its channel returns after the pipes it cancelled have
\* ended, when calls do not overlap and no pipe outlived the start of a later one.
THEOREM AnsweredAfterEnd == Spec => DisconnectWaits
<1> DEFINE Answered ==
      \A c \in Callers :
        DisconnectReceive(c) /\ ~overlapped /\ ~straggler => pipes \cap cancelled = {}
<1>1. IInv /\ [Next]_vars => [Answered]_vars
  <2> SUFFICES ASSUME IInv, NEW c \in Callers, DisconnectReceive(c), ~overlapped, ~straggler
               PROVE  pipes \cap cancelled = {}
    OBVIOUS
  <2>1. op[c].pc = "wait" /\ chan[op[c].waits] # 0
    BY DEF DisconnectReceive
  <2>2. op[c].waits = tunnelStopped
    BY <2>1 DEF IInv, SeqInv, Stages, Stage
  <2>3. pipes = {}
    BY <2>1, <2>2 DEF IInv, PipeInv
  <2> QED
    BY <2>3
<1> QED
  BY <1>1, Invariance, PTL DEF Spec, DisconnectWaits
------------------------------------------------------------------------------
(***************************************************************************)
(* What holds however the calls overlap: who has c.mu, and that the        *)
(* context and the channel of a connection are its own.                    *)
(***************************************************************************)

\* A Connect between its lock and its unlock.
HoldsMu(c) == op[c].pc \in {"create", "setup", "pipe"}

\* c.mu is locked exactly while one Connect is at work on the fields, so every error path
\* has unlocked it, and nothing but the end of that Connect is waited for.
MuHasOneOwner ==
  /\ mu <=> \E c \in Callers : HoldsMu(c)
  /\ \A c, d \in Callers : HoldsMu(c) /\ HoldsMu(d) => c = d

\* While the client is connected, c.stopTunnel and c.tunnelStopped were made by the same
\* Connect and that context is not cancelled, also when another Disconnect, which has let
\* go of c.mu, is still taking an earlier connection down.
ConnectedContextLives ==
  isConnected => stopTunnel = tunnelStopped /\ stopTunnel \notin cancelled

\* Contexts are cancelled only after the Connect that made them is over.
CancelInv ==
  /\ stopTunnel = tunnelStopped
  /\ \A n \in cancelled : n <= calls
  /\ \A c \in Callers : op[c].call # 0 => op[c].call \notin cancelled
  /\ isConnected => stopTunnel \notin cancelled

\* A step of a call under way moves its caller only, which keeps its number or drops it.
LEMMA CallerMoves ==
  ASSUME TypeOK, NEW c \in Callers, ConnectStep(c) \/ DisconnectStep(c)
  PROVE  /\ \A d \in Callers \ {c} : op'[d] = op[d]
         /\ op'[c].call \in {0, op[c].call}
<1>0. op \in [Callers -> Ops] /\ tunnelStopped \in 0 .. MaxCalls
  BY DEF TypeOK
<1>1. CASE ConnectLock(c)
  BY <1>0, <1>1, CallKept DEF ConnectLock, Goto, Places
<1>2. CASE ConnectRelock(c) \/ ConnectSetup(c)
  BY <1>0, <1>2, CallKept DEF ConnectRelock, ConnectSetup, Goto, Places
<1>3. CASE ConnectCreate(c)
  BY <1>0, <1>3, CallKept DEF ConnectCreate, Places
<1>4. CASE SetupFails(c) \/ ConnectDone(c)
  BY <1>0, <1>4, CallKept DEF SetupFails, ConnectDone
<1>5. CASE DisconnectBegin(c) \/ DisconnectCloseXray(c) \/ DisconnectCloseTunnel(c)
  BY <1>0, <1>5, CallKept
     DEF DisconnectBegin, DisconnectCloseXray, DisconnectCloseTunnel, Goto, Places
<1>6. CASE DisconnectMark(c)
  BY <1>0, <1>6, CallKept DEF DisconnectMark, Places
<1>7. CASE DisconnectCloseRoute(c)
  BY <1>0, <1>7, CallKept DEF DisconnectCloseRoute
<1>8. CASE DisconnectReceive(c) \/ DisconnectTimeout(c)
  BY <1>0, <1>8, CallKept DEF DisconnectReceive, DisconnectTimeout
<1>9. QED
  BY <1>1, <1>2, <1>3, <1>4, <1>5, <1>6, <1>7, <1>8 DEF ConnectStep, DisconnectStep

\* A step in which one caller moves and mu says afterwards whether somebody has the lock.
LEMMA MuKept ==
  ASSUME MuHasOneOwner, NEW c \in Callers,
         \A d \in Callers \ {c} : op'[d] = op[d],
         \/ /\ mu' = mu
            /\ op'[c].pc \in {"create", "setup", "pipe"} <=> HoldsMu(c)
         \/ ~mu /\ mu' = TRUE /\ op'[c].pc \in {"create", "setup", "pipe"}
         \/ HoldsMu(c) /\ mu' = FALSE /\ op'[c].pc \notin {"create", "setup", "pipe"}
  PROVE  MuHasOneOwner'
<1> DEFINE H(d) == HoldsMu(d)
<1>1. \A d \in Callers \ {c} : (H(d))' <=> H(d)
  BY DEF HoldsMu
<1>2. (H(c))' <=> op'[c].pc \in {"create", "setup", "pipe"}
  BY DEF HoldsMu
<1>3. /\ mu <=> \E d \in Callers : H(d)
      /\ \A d, e \in Callers : H(d) /\ H(e) => d = e
  BY DEF MuHasOneOwner
<1>4. /\ mu' <=> \E d \in Callers : (H(d))'
      /\ \A d, e \in Callers : (H(d))' /\ (H(e))' => d = e
  BY <1>1, <1>2, <1>3
<1>5. QED
  BY <1>4 DEF MuHasOneOwner

LEMMA MuStep ==
  ASSUME TypeOK, MuHasOneOwner, Next
  PROVE  MuHasOneOwner'
<1>0. op \in [Callers -> Ops]
  BY DEF TypeOK
<1> DEFINE Held3 == {"create", "setup", "pipe"}
<1>1. ASSUME NEW c \in Callers,
             CallDisconnect(c) \/ \E s \in Servers : CallConnect(c, s)
      PROVE  MuHasOneOwner'
  <2>1. /\ \A d \in Callers \ {c} : op'[d] = op[d]
        /\ mu' = mu /\ op[c].pc \notin Held3 /\ op'[c].pc \notin Held3
    <3>1. CASE CallDisconnect(c)
      BY <1>0, <3>1 DEF CallDisconnect, Idle
    <3>2. ASSUME NEW s \in Servers, CallConnect(c, s)
          PROVE  /\ \A d \in Callers \ {c} : op'[d] = op[d]
                 /\ mu' = mu /\ op[c].pc = "idle" /\ op'[c].pc = "lock"
      BY <1>0, <3>2 DEF CallConnect, Idle
    <3>3. QED
      BY <1>1, <3>1, <3>2
  <2>2. QED
    BY <2>1, MuKept DEF HoldsMu
<1>2. ASSUME NEW c \in Callers, ConnectLock(c) \/ ConnectRelock(c)
      PROVE  MuHasOneOwner'
  <2>1. \A d \in Callers \ {c} : op'[d] = op[d]
    BY <1>2, CallerMoves DEF ConnectStep
  <2>2. /\ ~mu /\ op[c].pc \notin Held3
        /\ \/ mu' = TRUE /\ op'[c].pc \in Held3
           \/ mu' = mu /\ op'[c].pc \notin Held3
    BY <1>0, <1>2 DEF ConnectLock, ConnectRelock, Goto, Ops
  <2>3. QED
    BY <2>1, <2>2, MuKept DEF HoldsMu
<1>3. ASSUME NEW c \in Callers,
             ConnectCreate(c) \/ SetupFails(c) \/ ConnectSetup(c) \/ ConnectDone(c)
      PROVE  MuHasOneOwner'
  <2>1. \A d \in Callers \ {c} : op'[d] = op[d]
    BY <1>3, CallerMoves DEF ConnectStep
  <2>2. /\ op[c].pc \in Held3
        /\ \/ mu' = FALSE /\ op'[c].pc \notin Held3
           \/ mu' = mu /\ op'[c].pc \in Held3
    BY <1>0, <1>3
       DEF ConnectCreate, SetupFails, ConnectSetup, ConnectDone, Goto, Return, Idle, Ops
  <2>3. QED
    BY <2>1, <2>2, MuKept DEF HoldsMu
<1>4. ASSUME NEW c \in Callers, DisconnectStep(c)
      PROVE  MuHasOneOwner'
  <2>1. \A d \in Callers \ {c} : op'[d] = op[d]
    BY <1>4, CallerMoves
  <2>2. mu' = mu /\ op[c].pc \notin Held3
    BY <1>4 DEF DisconnectStep, DisconnectBegin, DisconnectMark, DisconnectCloseXray,
       DisconnectCloseTunnel, DisconnectCloseRoute, DisconnectReceive, DisconnectTimeout, Goto
  <2>3. op'[c].pc \notin Held3
    <3>1. CASE Leave(c)
      BY <1>0, <3>1, LeaveAt
    <3>2. CASE DisconnectBegin(c) \/ DisconnectCloseXray(c) \/ DisconnectCloseTunnel(c)
      BY <1>0, <3>2 DEF DisconnectBegin, DisconnectCloseXray, DisconnectCloseTunnel, Goto, Ops
    <3>3. CASE DisconnectMark(c) \/ DisconnectCloseRoute(c)
      BY <1>0, <3>1, <3>3 DEF DisconnectMark, DisconnectCloseRoute, Ops
    <3>4. QED
      BY <1>4, <3>1, <3>2, <3>3 DEF DisconnectStep, DisconnectReceive, DisconnectTimeout
  <2>4. QED
    BY <2>1, <2>2, <2>3, MuKept DEF HoldsMu
<1>5. ASSUME NEW b \in Calls, PipeEnds(b) \/ Finalize(b)
      PROVE  MuHasOneOwner'
  <2>1. UNCHANGED <<mu, op>>
    BY <1>5 DEF PipeEnds, Finalize
  <2>2. QED
    BY <2>1 DEF MuHasOneOwner, HoldsMu
<1>6. CASE Crash
  BY <1>6 DEF Crash, MuHasOneOwner, HoldsMu, Idle
<1>7. QED
  BY <1>1, <1>2, <1>3, <1>4, <1>5, <1>6 DEF Next, ConnectStep

\* Connect, on every one of its paths, is the only owner of c.mu that lasts beyond a step.
THEOREM MuIsReleased == Spec => []MuHasOneOwner
<1>1. Init => MuHasOneOwner
  BY DEF Init, MuHasOneOwner, HoldsMu, Idle
<1>2. IInv /\ MuHasOneOwner /\ [Next]_vars => MuHasOneOwner'
  <2>1. CASE UNCHANGED vars
    BY <2>1 DEF vars, MuHasOneOwner, HoldsMu
  <2>2. QED
    BY <2>1, MuStep DEF IInv
<1>3. QED
  BY <1>1, <1>2, Invariance, PTL DEF Spec

\* A step that touches neither the connection nor the contexts, and gives out no number.
LEMMA CancelKept ==
  ASSUME TypeOK, CancelInv, UNCHANGED <<isConnected, stopTunnel, tunnelStopped, cancelled,
                                        calls>>,
         \A c \in Callers : op'[c].call \in {0, op[c].call}
  PROVE  CancelInv'
BY DEF CancelInv

LEMMA CancelStep ==
  ASSUME TypeOK, CallInv, FreshInv, CancelInv, Next
  PROVE  CancelInv'
<1>0. /\ op \in [Callers -> Ops] /\ calls \in Nat /\ cancelled \subseteq Nat
      /\ \A c \in Callers : op[c].call \in Nat
  BY ClientAssumption DEF TypeOK, Ops, Calls
<1>1. ASSUME NEW c \in Callers, NEW s \in Servers, CallConnect(c, s)
      PROVE  CancelInv'
  <2>1. /\ calls' = calls + 1
        /\ UNCHANGED <<isConnected, stopTunnel, tunnelStopped, cancelled>>
        /\ \A d \in Callers \ {c} : op'[d] = op[d]
        /\ op'[c].call = calls + 1
    BY <1>0, <1>1 DEF CallConnect, Idle, fields, things
  <2>2. calls + 1 \notin cancelled /\ \A n \in cancelled : n <= calls + 1
    BY <1>0 DEF CancelInv
  <2>3. QED
    BY <2>1, <2>2 DEF CancelInv
<1>2. ASSUME NEW c \in Callers, CallDisconnect(c)
      PROVE  CancelInv'
  <2>1. /\ UNCHANGED <<isConnected, stopTunnel, tunnelStopped, cancelled, calls>>
        /\ op'[c].call = 0 /\ \A d \in Callers \ {c} : op'[d] = op[d]
    BY <1>0, <1>2 DEF CallDisconnect, Idle, fields, things, bounds
  <2>2. QED
    BY <2>1, CancelKept
<1>3. ASSUME NEW c \in Callers, ConnectDone(c)
      PROVE  CancelInv'
  <2>1. /\ UNCHANGED <<cancelled, calls>>
        /\ tunnelStopped' = op[c].call /\ stopTunnel' = op[c].call /\ op[c].call # 0
    BY <1>3 DEF ConnectDone, NewChannel, bounds, CallInv
  <2>2. \A d \in Callers : op'[d].call \in {0, op[d].call}
    BY <1>3, CallerMoves DEF ConnectStep
  <2>3. op[c].call \notin cancelled
    BY <2>1 DEF CancelInv
  <2>4. QED
    BY <2>1, <2>2, <2>3 DEF CancelInv
<1>4. ASSUME NEW c \in Callers, DisconnectMark(c)
      PROVE  CancelInv'
  <2>1. /\ UNCHANGED <<stopTunnel, tunnelStopped, calls>>
        /\ \/ UNCHANGED <<isConnected, cancelled>>
           \/ isConnected' = FALSE /\ cancelled' = cancelled \cup {stopTunnel}
    BY <1>4 DEF DisconnectMark, bounds
  <2>2. \A d \in Callers : op'[d].call \in {0, op[d].call}
    BY <1>4, CallerMoves DEF DisconnectStep
  <2>3. CASE UNCHANGED <<isConnected, cancelled>>
    BY <2>1, <2>2, <2>3, CancelKept
  <2>4. CASE isConnected' = FALSE /\ cancelled' = cancelled \cup {stopTunnel}
    <3>1. stopTunnel = tunnelStopped /\ stopTunnel <= calls
      BY DEF CancelInv, FreshInv
    <3>2. \A d \in Callers : op[d].call # 0 => op[d].call # stopTunnel
      BY <3>1 DEF FreshInv
    <3>3. QED
      BY <2>1, <2>2, <2>4, <3>1, <3>2 DEF CancelInv
  <2>5. QED
    BY <2>1, <2>3, <2>4
<1>5. ASSUME NEW c \in Callers,
             \/ ConnectLock(c) \/ ConnectRelock(c) \/ ConnectCreate(c) \/ SetupFails(c)
             \/ ConnectSetup(c) \/ DisconnectBegin(c) \/ DisconnectCloseXray(c)
             \/ DisconnectCloseTunnel(c) \/ DisconnectCloseRoute(c)
             \/ DisconnectReceive(c) \/ DisconnectTimeout(c)
      PROVE  CancelInv'
  <2>1. UNCHANGED <<isConnected, stopTunnel, tunnelStopped, cancelled, calls>>
    BY <1>5 DEF ConnectLock, ConnectRelock, ConnectCreate, SetupFails, ConnectSetup,
       DisconnectBegin, DisconnectCloseXray, DisconnectCloseTunnel, DisconnectCloseRoute,
       DisconnectReceive, DisconnectTimeout, fields, things, bounds
  <2>2. \A d \in Callers : op'[d].call \in {0, op[d].call}
    BY <1>5, CallerMoves DEF ConnectStep, DisconnectStep
  <2>3. QED
    BY <2>1, <2>2, CancelKept
<1>6. ASSUME NEW b \in Calls, PipeEnds(b) \/ Finalize(b)
      PROVE  CancelInv'
  <2>1. UNCHANGED <<isConnected, stopTunnel, tunnelStopped, cancelled, calls, op>>
    BY <1>6 DEF PipeEnds, Finalize, fields, bounds
  <2>2. QED
    BY <2>1, CancelKept
<1>7. CASE Crash
  BY <1>7 DEF Crash, CancelInv, Idle
<1>8. QED
  BY <1>1, <1>2, <1>3, <1>4, <1>5, <1>6, <1>7, NextCases

\* No Disconnect, however late, cancels the context of a newer connection without taking
\* isConnected back in the same critical section.
THEOREM ContextIsItsOwn == Spec => []ConnectedContextLives
<1>1. Init => CancelInv
  BY DEF Init, CancelInv, Idle
<1>2. IInv /\ CancelInv /\ [Next]_vars => CancelInv'
  <2>1. CASE UNCHANGED vars
    BY <2>1 DEF vars, fields, things, bounds, CancelInv
  <2>2. QED
    BY <2>1, CancelStep DEF IInv
<1>3. CancelInv => ConnectedContextLives
  BY DEF CancelInv, ConnectedContextLives
<1>4. QED
  BY <1>1, <1>2, <1>3, Invariance, PTL DEF Spec
==============================================================================
