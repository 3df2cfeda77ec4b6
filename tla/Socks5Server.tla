----------------------------- MODULE Socks5Server -----------------------------
(***************************************************************************)
(* The local SOCKS5 server of pkg/socks5: the accept loop, the handler of  *)
(* each connection through its phases, the relay with its two copying      *)
(* goroutines and its watcher, closeGracefully, and Stop.                  *)
(*                                                                         *)
(* What a client sends is counted in units, one for each thing the server  *)
(* parses: greeting, credentials, request header, address, and pieces of   *)
(* payload.  What a unit says is chosen when the server reads it.  A unit  *)
(* the server rejects half-way stays unread, and so do its octets.         *)
(***************************************************************************)
EXTENDS Integers, FiniteSets

CONSTANTS
  Conns,        \* connections that clients may make, each once
  Silent,       \* those whose client never sends anything nor closes
  AuthRequired, \* config.Username or config.Password is set
  MaxUnread     \* bound: units of a client that wait to be read

ASSUME Socks5Assumption ==
  /\ IsFiniteSet(Conns) /\ Conns # {} /\ Silent \subseteq Conns
  /\ AuthRequired \in BOOLEAN /\ MaxUnread \in Nat \ {0}

VARIABLES
  loop,  \* the goroutine of acceptLoop
  stop,  \* how far Stop has come
  wg,    \* s.wg
  conn   \* the connections, each with its handler, its client and its destination

vars == <<loop, stop, wg, conn>>

Establishing == {"begin", "handshake", "auth", "request", "address", "dial", "reply", "lift"}
Closing == {"drain", "close"}

\* at is the place of the handler.  A request that was understood is owed a reply; it is
\* lost if its write fails.  late: the client sent after the drain had ended.
Conn == [at : {"none", "backlog", "refused", "relay", "ended"} \cup Establishing \cup Closing,
         client : {"sends", "finished", "gone"}, unread : 0 .. MaxUnread,
         late : BOOLEAN, armed : BOOLEAN, expired : BOOLEAN, closed : BOOLEAN, reset : BOOLEAN,
         reply : {"none", "owed", "lost", "failure", "success"},
         dest : {"none", "open", "finished", "closed"}, up : BOOLEAN, down : BOOLEAN,
         watcher : {"none", "waits", "ended"}]

Init ==
  /\ loop = "new" /\ stop = "no" /\ wg = 0
  /\ conn = [c \in Conns |->
       [at |-> "none", client |-> "sends", unread |-> 0, late |-> FALSE,
        armed |-> FALSE, expired |-> FALSE, closed |-> FALSE, reset |-> FALSE,
        reply |-> "none", dest |-> "none", up |-> FALSE, down |-> FALSE, watcher |-> "none"]]

CtxDone == stop # "no"
ListenerOpen == loop \notin {"new", "failed"} /\ stop \in {"no", "cancelled"}
------------------------------------------------------------------------------
(***************************************************************************)
(* Start, the accept loop and Stop.                                        *)
(***************************************************************************)
Start ==
  /\ loop = "new"
  /\ \/ loop' = "top" /\ wg' = wg + 1
     \/ loop' = "failed" /\ UNCHANGED wg
  /\ UNCHANGED <<stop, conn>>

LoopExits == loop' = "ended" /\ wg' = wg - 1

\* The head of the loop: the context.
LoopTop ==
  /\ loop = "top"
  /\ \/ CtxDone /\ LoopExits
     \/ ~CtxDone /\ loop' = "accept" /\ UNCHANGED wg
  /\ UNCHANGED <<stop, conn>>

AcceptTimeout ==
  /\ loop = "accept"
  /\ loop' = "top"
  /\ UNCHANGED <<stop, wg, conn>>

\* The listener is closed: SetDeadline fails, or Accept does.
AcceptFails ==
  /\ loop = "accept" /\ ~ListenerOpen
  /\ \/ loop' = "top" /\ UNCHANGED wg
     \/ LoopExits
  /\ UNCHANGED <<stop, conn>>

\* Faulty: the handler is not added to the wait group.
AcceptUncounted(c) ==
  /\ loop = "accept" /\ ListenerOpen
  /\ conn[c].at = "backlog"
  /\ conn' = [conn EXCEPT ![c].at = "begin"]
  /\ loop' = "top"
  /\ UNCHANGED <<stop, wg>>

Accept(c) ==
  /\ loop = "accept" /\ ListenerOpen
  /\ conn[c].at = "backlog"
  /\ conn' = [conn EXCEPT ![c].at = "begin"]
  /\ wg' = wg + 1
  /\ loop' = "top"
  /\ UNCHANGED stop

StopCancel ==
  /\ loop # "new" /\ stop = "no"
  /\ stop' = "cancelled"
  /\ UNCHANGED <<loop, wg, conn>>

\* Closing the listener refuses the connections nobody has accepted.
StopClose ==
  /\ stop = "cancelled"
  /\ stop' = "waiting"
  /\ conn' = [c \in Conns |-> IF conn[c].at = "backlog"
                              THEN [conn[c] EXCEPT !.at = "refused"] ELSE conn[c]]
  /\ UNCHANGED <<loop, wg>>

StopReturn ==
  /\ stop = "waiting" /\ wg = 0
  /\ stop' = "returned"
  /\ UNCHANGED <<loop, wg, conn>>
------------------------------------------------------------------------------
(***************************************************************************)
(* A client, and a destination.                                            *)
(***************************************************************************)
Arrives(c) ==
  /\ ListenerOpen /\ conn[c].at = "none"
  /\ conn' = [conn EXCEPT ![c].at = "backlog"]
  /\ UNCHANGED <<loop, stop, wg>>

Connected(c) == conn[c].at \notin {"none", "refused", "ended"} /\ ~conn[c].closed

DrainOver(r) == r.at = "close" \/ (r.at = "drain" /\ r.expired)

Sends(c) ==
  /\ Connected(c) /\ c \notin Silent /\ conn[c].client = "sends" /\ conn[c].unread < MaxUnread
  /\ conn' = [conn EXCEPT ![c].unread = @ + 1,
                          ![c].late = @ \/ DrainOver(conn[c])]
  /\ UNCHANGED <<loop, stop, wg>>

\* The client closes its side, or altogether.
Leaves(c) ==
  /\ Connected(c) /\ c \notin Silent
  /\ \E s \in {"finished", "gone"} :
       /\ conn[c].client \notin {s, "gone"}
       /\ conn' = [conn EXCEPT ![c].client = s]
  /\ UNCHANGED <<loop, stop, wg>>

DestFinishes(c) ==
  /\ conn[c].dest = "open"
  /\ conn' = [conn EXCEPT ![c].dest = "finished"]
  /\ UNCHANGED <<loop, stop, wg>>

\* The deadline of the connection: Timeout after it was accepted, or closeDrainTimeout,
\* which is long enough to read what has arrived.
Expires(c) ==
  /\ conn[c].armed /\ ~conn[c].expired
  /\ ~(conn[c].at = "drain" /\ conn[c].unread > 0)
  /\ conn' = [conn EXCEPT ![c].expired = TRUE]
  /\ UNCHANGED <<loop, stop, wg>>
------------------------------------------------------------------------------
(***************************************************************************)
(* handleConnection up to the relay.                                       *)
(***************************************************************************)
Handler(c, r) ==
  /\ conn' = [conn EXCEPT ![c] = r]
  /\ UNCHANGED <<loop, stop, wg>>

\* Faulty: a plain Close, without the half-close and the drain.
CloseGracefullyPlain(r) == [r EXCEPT !.at = "close", !.armed = TRUE, !.expired = FALSE]

\* The deferred closeGracefully of a handler that returns.
CloseGracefully(r) == [r EXCEPT !.at = "drain", !.armed = TRUE, !.expired = FALSE]

\* Faulty: no deadline for the establishment phase.
BeginUnbounded(c) ==
  /\ conn[c].at = "begin"
  /\ Handler(c, [conn[c] EXCEPT !.at = "handshake"])

Begin(c) ==
  /\ conn[c].at = "begin"
  /\ Handler(c, [conn[c] EXCEPT !.at = "handshake", !.armed = TRUE])

\* io.ReadFull on a unit: it is there, or the deadline or the client ends the wait.
Reads(c) == conn[c].unread > 0 /\ ~conn[c].expired
ReadFails(c) ==
  \/ conn[c].expired
  \/ conn[c].client = "gone"
  \/ (conn[c].client = "finished" /\ conn[c].unread = 0)

Consumed(c) == [conn[c] EXCEPT !.unread = @ - 1]

\* handshake: the greeting is bad or offers no usable method, or the server selects one.
Handshake(c) ==
  /\ conn[c].at = "handshake"
  /\ \/ ReadFails(c) /\ Handler(c, CloseGracefully(conn[c]))
     \/ Reads(c) /\ \E r \in {conn[c], Consumed(c)} : Handler(c, CloseGracefully(r))
     \/ /\ Reads(c)
        /\ Handler(c, [Consumed(c) EXCEPT !.at = IF AuthRequired THEN "auth" ELSE "request"])

\* authenticate: a bad version, wrong credentials, or the right ones.
Authenticate(c) ==
  /\ conn[c].at = "auth"
  /\ \/ ReadFails(c) /\ Handler(c, CloseGracefully(conn[c]))
     \/ Reads(c) /\ \E r \in {conn[c], Consumed(c)} : Handler(c, CloseGracefully(r))
     \/ Reads(c) /\ Handler(c, [Consumed(c) EXCEPT !.at = "request"])

\* sendReply: the write fails once the deadline has passed.
SendReply(r, code) == [r EXCEPT !.reply = IF r.expired THEN "lost" ELSE code]

\* The header of the request: a bad version; a command or an address type that is not
\* supported, whose remaining octets nobody reads; or a CONNECT that goes on.
Request(c) ==
  /\ conn[c].at = "request"
  /\ \/ ReadFails(c) /\ Handler(c, CloseGracefully(conn[c]))
     \/ Reads(c) /\ Handler(c, CloseGracefully(conn[c]))
     \/ Reads(c) /\ Handler(c, CloseGracefully(SendReply(Consumed(c), "failure")))
     \/ /\ Reads(c)
        /\ Handler(c, [Consumed(c) EXCEPT !.at = "address", !.reply = "owed"])

\* Faulty: a failed read of the address is not answered.
ReadAddressSilent(c) ==
  /\ conn[c].at = "address"
  /\ \/ ReadFails(c) /\ Handler(c, CloseGracefully(conn[c]))
     \/ Reads(c) /\ Handler(c, [Consumed(c) EXCEPT !.at = "dial"])

ReadAddress(c) ==
  /\ conn[c].at = "address"
  /\ \/ ReadFails(c) /\ Handler(c, CloseGracefully(SendReply(conn[c], "failure")))
     \/ Reads(c) /\ Handler(c, [Consumed(c) EXCEPT !.at = "dial"])

\* net.DialTimeout connects or is refused.  Its own timeout has the length of the deadline
\* and begins later: when it fires, the deadline has passed, and the reply with it.
Dial(c) ==
  /\ conn[c].at = "dial"
  /\ \/ Handler(c, [conn[c] EXCEPT !.at = "reply", !.dest = "open"])
     \/ Handler(c, CloseGracefully(SendReply(conn[c], "failure")))

\* The success reply; if it fails, the deferred Close of the destination runs.
SendSuccess(c) ==
  /\ conn[c].at = "reply"
  /\ \/ /\ ~conn[c].expired
        /\ Handler(c, [SendReply(conn[c], "success") EXCEPT !.at = "lift"])
     \/ /\ conn[c].expired \/ conn[c].client = "gone"
        /\ Handler(c, CloseGracefully([conn[c] EXCEPT !.reply = "lost", !.dest = "closed"]))

\* Faulty: the deadline stays armed.
LiftForgotten(c) ==
  /\ conn[c].at = "lift"
  /\ Handler(c, [conn[c] EXCEPT !.at = "relay", !.up = TRUE, !.down = TRUE, !.watcher = "waits"])

\* The deadline is cleared and the relay begins.
Lift(c) ==
  /\ conn[c].at = "lift"
  /\ Handler(c, [conn[c] EXCEPT !.at = "relay", !.armed = FALSE, !.expired = FALSE,
                                !.up = TRUE, !.down = TRUE, !.watcher = "waits"])
------------------------------------------------------------------------------
(***************************************************************************)
(* relay and closeGracefully.  A read or write on the client's connection  *)
(* fails once it is closed or its deadline has passed.                     *)
(***************************************************************************)
ClientBroken(r) == r.closed \/ r.expired \/ r.client = "gone"

CopyUpData(c) ==
  /\ conn[c].up /\ conn[c].unread > 0 /\ ~ClientBroken(conn[c])
  /\ Handler(c, Consumed(c))

\* A destination that has closed its side may reject what is written to it.
CopyUpEnds(c) ==
  /\ conn[c].up
  /\ \/ ClientBroken(conn[c])
     \/ (conn[c].client = "finished" /\ conn[c].unread = 0)
     \/ conn[c].dest = "closed"
     \/ (conn[c].dest = "finished" /\ conn[c].unread > 0)
  /\ Handler(c, [conn[c] EXCEPT !.up = FALSE])

CopyDownEnds(c) ==
  /\ conn[c].down
  /\ ClientBroken(conn[c]) \/ conn[c].dest \in {"finished", "closed"}
  /\ Handler(c, [conn[c] EXCEPT !.down = FALSE])

\* Faulty: the watcher does not look at the context.
WatcherDeaf(c) ==
  /\ conn[c].watcher = "waits" /\ conn[c].at # "relay"
  /\ Handler(c, [conn[c] EXCEPT !.watcher = "ended"])

\* The watcher closes both ends when the server stops, or ends with the relay; it may do
\* either when both are the case.
Watcher(c) ==
  /\ conn[c].watcher = "waits"
  /\ \/ /\ CtxDone
        /\ Handler(c, [conn[c] EXCEPT !.watcher = "ended", !.closed = TRUE, !.dest = "closed"])
     \/ /\ conn[c].at # "relay"
        /\ Handler(c, [conn[c] EXCEPT !.watcher = "ended"])

\* Both copies have ended: the destination is closed, then the client.
RelayReturns(c) ==
  /\ conn[c].at = "relay" /\ ~conn[c].up /\ ~conn[c].down
  /\ Handler(c, CloseGracefully([conn[c] EXCEPT !.dest = "closed"]))

DrainReads(c) ==
  /\ conn[c].at = "drain" /\ conn[c].unread > 0 /\ ~ClientBroken(conn[c])
  /\ Handler(c, [conn[c] EXCEPT !.unread = 0])

DrainEnds(c) ==
  /\ conn[c].at = "drain"
  /\ ClientBroken(conn[c]) \/ (conn[c].client = "finished" /\ conn[c].unread = 0)
  /\ Handler(c, [conn[c] EXCEPT !.at = "close"])

\* Close, which resets a connection with unread data, and the handler's wg.Done.  What is
\* left of the connection no longer matters.
Closes(c) ==
  /\ conn[c].at = "close"
  /\ conn' = [conn EXCEPT ![c].at = "ended", ![c].closed = TRUE, ![c].armed = FALSE,
                ![c].expired = FALSE, ![c].client = "gone", ![c].unread = 0,
                ![c].reset = ~conn[c].closed /\ conn[c].client # "gone" /\ conn[c].unread > 0]
  /\ wg' = wg - 1
  /\ UNCHANGED <<loop, stop>>
------------------------------------------------------------------------------
AcceptLoop == LoopTop \/ AcceptTimeout \/ AcceptFails \/ \E c \in Conns : Accept(c)
StopCalled == StopCancel \/ StopClose \/ StopReturn

Handles(c) ==
  \/ Begin(c) \/ Handshake(c) \/ Authenticate(c) \/ Request(c) \/ ReadAddress(c) \/ Dial(c)
  \/ SendSuccess(c) \/ Lift(c) \/ RelayReturns(c) \/ DrainReads(c) \/ DrainEnds(c) \/ Closes(c)

Environment(c) == Arrives(c) \/ Sends(c) \/ Leaves(c) \/ DestFinishes(c)

Next ==
  \/ Start \/ AcceptLoop \/ StopCalled
  \/ \E c \in Conns : \/ Handles(c) \/ CopyUpData(c) \/ CopyUpEnds(c) \/ CopyDownEnds(c)
                      \/ Watcher(c) \/ Expires(c) \/ Environment(c)

\* Goroutines run and timers fire.  Clients, destinations and the call of Stop owe nothing.
Fairness ==
  /\ WF_vars(AcceptLoop) /\ WF_vars(StopClose \/ StopReturn)
  /\ \A c \in Conns : /\ WF_vars(Handles(c)) /\ WF_vars(CopyUpData(c) \/ CopyUpEnds(c))
                      /\ WF_vars(CopyDownEnds(c)) /\ WF_vars(Watcher(c)) /\ SF_vars(Expires(c))

Spec == Init /\ [][Next]_vars /\ Fairness
------------------------------------------------------------------------------
\* Every variable has a value the code can give it; wg never counts below zero, which
\* would panic (server.go:117, 124 and 161).
TypeOK ==
  /\ loop \in {"new", "failed", "top", "accept", "ended"}
  /\ stop \in {"no", "cancelled", "waiting", "returned"}
  /\ wg \in 0 .. Cardinality(Conns) + 1
  /\ conn \in [Conns -> Conn]

\* When Stop returns, the accept loop and every handler have ended and no connection to a
\* client or a destination is open, however late the last client was accepted
\* (s.wg, server.go:100, 117 and 154).
StopWaitsForAll ==
  stop = "returned" =>
    /\ loop \in {"failed", "ended"}
    /\ \A c \in Conns : /\ conn[c].at \in {"none", "refused", "ended"}
                        /\ conn[c].dest \in {"none", "closed"}

\* A connection on which the server stops half-way is not reset, which would destroy the
\* reply the client has yet to read, unless the client sends on after the drain
\* (closeGracefully, server.go:199-221).
ReplySurvivesClose == \A c \in Conns : conn[c].reset => conn[c].late

\* A handler that understood a request does not end without having tried to answer it, and
\* the client was told of success exactly if it got its relay (processRequest, server.go:364-400).
EveryRequestAnswered ==
  \A c \in Conns :
    /\ conn[c].at \in Closing \cup {"ended"} => conn[c].reply # "owed"
    /\ conn[c].watcher # "none" <=> conn[c].reply = "success" /\ conn[c].at # "lift"

\* The timeout ends no relay: a copy ends because the client or the destination did, or
\* because the server stops (Lift, server.go:389-395).
OnlyPeersEndRelays ==
  [][\A c \in Conns :
       \/ conn[c].up /\ ~conn'[c].up
       \/ conn[c].down /\ ~conn'[c].down
       => conn[c].client # "sends" \/ conn[c].dest # "open" \/ CtxDone]_vars

\* Whatever a client does or fails to do, its handler gets to the relay or gives up
\* (SetDeadline, server.go:164-171).
EstablishmentEnds ==
  \A c \in Conns : conn[c].at \in Establishing ~> conn[c].at \notin Establishing

\* Stop returns, even if every client stalls or keeps its relay open for ever
\* (the deadlines, and the watcher of relay, server.go:508-521).
StopReturns == stop = "cancelled" ~> stop = "returned"
==============================================================================
