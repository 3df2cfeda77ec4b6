-------------------------- MODULE Socks5ServerProofs --------------------------
(***************************************************************************)
(* Proofs about Socks5Server, for every finite set of connections: the     *)
(* wait group counts exactly the goroutines it is said to count, Stop      *)
(* returns to a quiet server, every understood request is answered, no     *)
(* reply is destroyed by a reset, no timeout ends a relay, and every other *)
(* wait has one.                                                           *)
(***************************************************************************)
EXTENDS Socks5Server, FiniteSetTheorems, TLAPS

\* Places in which a connection has a handler, and those before its request was understood.
Handling == Establishing \cup Closing \cup {"relay"}
Early == {"none", "backlog", "refused", "begin", "handshake", "auth", "request"}

Handlers == {c \in Conns : conn[c].at \in Handling}

\* TypeOK without the wait group, whose range follows from WgInv.
TypeInv ==
  /\ loop \in {"new", "failed", "top", "accept", "ended"}
  /\ stop \in {"no", "cancelled", "waiting", "returned"}
  /\ conn \in [Conns -> Conn]

\* The wait group counts the accept loop and the handlers.
WgInv == wg = Cardinality(Handlers) + (IF loop \in {"top", "accept"} THEN 1 ELSE 0)

\* Stop is called after Start, and leaves nobody in the backlog once the listener is closed.
StopInv ==
  /\ stop # "no" => loop # "new"
  /\ stop \in {"waiting", "returned"} => \A c \in Conns : conn[c].at # "backlog"
  /\ stop = "returned" => wg = 0

\* How far the answer to a request has come.
ReplyInv(r) ==
  /\ r.at \in Early => r.reply = "none"
  /\ r.at \in {"address", "dial", "reply"} => r.reply = "owed"
  /\ r.at \in {"lift", "relay"} => r.reply = "success"
  /\ r.at \in Closing \cup {"ended"} => r.reply # "owed"
  /\ r.watcher # "none" <=> r.reply = "success" /\ r.at # "lift"

\* The destination is open only from the dial to the end of the relay, the copies run only
\* in the relay, no deadline is armed there, and only Stop closes the client under it.
RelayInv(r) ==
  /\ r.at \in Early \cup {"address", "dial"} => r.dest = "none"
  /\ r.at \in Closing \cup {"ended"} => r.dest \in {"none", "closed"}
  /\ r.up \/ r.down => r.at = "relay"
  /\ r.at = "relay" => ~r.armed /\ ~r.expired
  /\ r.closed => CtxDone \/ r.at = "ended"

\* What is unread when a connection is closed came after the drain.
DrainInv(r) ==
  /\ r.reset => r.late
  /\ r.at = "drain" /\ r.expired /\ r.unread > 0 => r.late
  /\ r.at = "close" /\ ~r.closed /\ r.client # "gone" /\ r.unread > 0 => r.late

Sound(r) == ReplyInv(r) /\ RelayInv(r) /\ DrainInv(r)

ConnInv == \A c \in Conns : Sound(conn[c])

IInv == TypeInv /\ WgInv /\ StopInv /\ ConnInv
------------------------------------------------------------------------------
(***************************************************************************)
(* The wait group.                                                         *)
(***************************************************************************)
LEMMA HandlersFinite ==
  IsFiniteSet(Handlers) /\ Cardinality(Handlers) \in 0 .. Cardinality(Conns)
<1>1. Handlers \subseteq Conns
  BY DEF Handlers
<1>2. IsFiniteSet(Conns)
  BY Socks5Assumption
<1>3. /\ IsFiniteSet(Handlers) /\ Cardinality(Handlers) <= Cardinality(Conns)
  BY <1>1, <1>2, FS_Subset
<1>4. Cardinality(Handlers) \in Nat /\ Cardinality(Conns) \in Nat
  BY <1>2, <1>3, FS_CardinalityType
<1> QED
  BY <1>3, <1>4

\* The range of the wait group: WaitGroup.Done never finds it at zero.
LEMMA WgRange == IInv => TypeOK
<1> SUFFICES ASSUME IInv PROVE TypeOK
  OBVIOUS
<1>1. IsFiniteSet(Conns) /\ Cardinality(Conns) \in Nat
  BY Socks5Assumption, FS_CardinalityType
<1>2. wg \in 0 .. Cardinality(Conns) + 1
  BY <1>1, HandlersFinite DEF IInv, WgInv
<1> QED
  BY <1>2 DEF IInv, TypeInv, TypeOK
------------------------------------------------------------------------------
(***************************************************************************)
(* A step of one connection that neither begins nor ends a handler need    *)
(* only leave that connection sound.                                       *)
(***************************************************************************)
LEMMA OneConnection ==
  ASSUME IInv, NEW c \in Conns, NEW r \in Conn, Handler(c, r), Sound(r),
         r.at \in Handling <=> conn[c].at \in Handling,
         r.at = "backlog" => conn[c].at = "backlog" \/ stop \in {"no", "cancelled"}
  PROVE  IInv'
<1>1. /\ conn' = [conn EXCEPT ![c] = r]
      /\ loop' = loop /\ stop' = stop /\ wg' = wg
  BY DEF Handler
<1>2. conn \in [Conns -> Conn]
  BY DEF IInv, TypeInv
<1>3. TypeInv'
  BY <1>1, <1>2 DEF IInv, TypeInv
<1>4. conn'[c] = r /\ \A d \in Conns \ {c} : conn'[d] = conn[d]
  BY <1>1, <1>2
<1>5. Handlers' = Handlers
  BY <1>4 DEF Handlers
<1>6. WgInv'
  BY <1>1, <1>5 DEF IInv, WgInv
<1>7. StopInv'
  BY <1>1, <1>4 DEF IInv, StopInv
<1>8. ConnInv'
  <2> SUFFICES ASSUME NEW d \in Conns PROVE Sound(conn[d])'
    BY DEF ConnInv
  <2>1. CASE d = c
    BY <1>1, <1>4, <2>1 DEF Sound, ReplyInv, RelayInv, DrainInv, CtxDone
  <2>2. CASE d # c
    BY <1>1, <1>4, <2>2 DEF IInv, ConnInv, Sound, ReplyInv, RelayInv, DrainInv, CtxDone
  <2> QED
    BY <2>1, <2>2
<1> QED
  BY <1>3, <1>6, <1>7, <1>8 DEF IInv

\* A record with which a handler may run its deferred closeGracefully.
Leavable(r) ==
  /\ r \in Conn
  /\ r.reply # "owed" /\ (r.watcher # "none" <=> r.reply = "success")
  /\ r.dest \in {"none", "closed"} /\ ~r.up /\ ~r.down
  /\ r.reset => r.late
  /\ r.closed => CtxDone

LEMMA GracefulIsSound ==
  ASSUME NEW r, Leavable(r)
  PROVE  /\ CloseGracefully(r) \in Conn
         /\ CloseGracefully(r).at = "drain"
         /\ Sound(CloseGracefully(r))
<1> DEFINE q == CloseGracefully(r)
<1>1. q \in Conn
  BY DEF Leavable, Conn, CloseGracefully, Closing
<1>2. /\ q.at = "drain" /\ q.reply = r.reply /\ q.watcher = r.watcher /\ q.dest = r.dest
      /\ q.up = r.up /\ q.down = r.down /\ ~q.expired /\ q.closed = r.closed
      /\ q.reset = r.reset /\ q.late = r.late
  BY DEF Leavable, Conn, CloseGracefully
<1>3. ReplyInv(q)
  BY <1>2 DEF ReplyInv, Leavable, Early, Closing
<1>4. RelayInv(q)
  BY <1>2 DEF RelayInv, Leavable, Early, Closing
<1>5. DrainInv(q)
  BY <1>2 DEF DrainInv, Leavable
<1> QED
  BY <1>1, <1>2, <1>3, <1>4, <1>5 DEF Sound

\* However a handler returns, its deferred closeGracefully leaves the connection sound.
LEMMA ReturnIsSound ==
  ASSUME IInv, NEW c \in Conns, NEW r, Leavable(r), Handler(c, CloseGracefully(r)),
         conn[c].at \in Handling
  PROVE  IInv'
<1>1. /\ CloseGracefully(r) \in Conn
      /\ CloseGracefully(r).at = "drain"
      /\ Sound(CloseGracefully(r))
  BY GracefulIsSound
<1>2. "drain" \in Handling /\ "drain" # "backlog"
  BY DEF Handling, Closing
<1> QED
  BY <1>1, <1>2, OneConnection
------------------------------------------------------------------------------
(***************************************************************************)
(* What the handler has read, and what it answers.                         *)
(***************************************************************************)
LEMMA ConsumedIsUnread ==
  ASSUME IInv, NEW c \in Conns, conn[c].unread > 0
  PROVE  /\ Consumed(c) \in Conn
         /\ Consumed(c) = [conn[c] EXCEPT !.unread = conn[c].unread - 1]
<1>1. conn[c] \in Conn
  BY DEF IInv, TypeInv
<1>2. conn[c].unread - 1 \in 0 .. MaxUnread
  BY <1>1, Socks5Assumption DEF Conn
<1>3. Consumed(c) = [conn[c] EXCEPT !.unread = conn[c].unread - 1]
  BY DEF Consumed
<1> QED
  BY <1>1, <1>2, <1>3 DEF Conn

\* Before the dial has succeeded, a handler that owes no answer may return.
LEMMA EarlyIsLeavable ==
  ASSUME IInv, NEW c \in Conns,
         conn[c].at \in {"handshake", "auth", "request"}
  PROVE  /\ Leavable(conn[c])
         /\ conn[c].unread > 0 => Leavable(Consumed(c))
         /\ conn[c].at \in Handling
<1>1. conn[c] \in Conn /\ Sound(conn[c])
  BY DEF IInv, TypeInv, ConnInv
<1>2. Leavable(conn[c])
  BY <1>1 DEF Sound, ReplyInv, RelayInv, DrainInv, Early, Leavable
<1>3. ASSUME conn[c].unread > 0
      PROVE  Leavable(Consumed(c))
  BY <1>1, <1>2, <1>3, ConsumedIsUnread DEF Leavable, Conn
<1> QED
  BY <1>2, <1>3 DEF Handling, Establishing

\* Nor is anything left to do for one that answers with a failure.
LEMMA AnsweredIsLeavable ==
  ASSUME NEW r \in Conn, r.watcher = "none", r.dest \in {"none", "closed"}, ~r.up, ~r.down,
         r.reset => r.late, r.closed => CtxDone
  PROVE  Leavable(SendReply(r, "failure"))
<1> DEFINE q == SendReply(r, "failure")
<1>1. q \in Conn /\ q.reply \in {"lost", "failure"}
  BY DEF SendReply, Conn
<1>2. /\ q.watcher = r.watcher /\ q.dest = r.dest /\ q.up = r.up /\ q.down = r.down
      /\ q.reset = r.reset /\ q.late = r.late /\ q.closed = r.closed
  BY DEF SendReply, Conn
<1> QED
  BY <1>1, <1>2 DEF Leavable
------------------------------------------------------------------------------
(***************************************************************************)
(* The steps of a handler.                                                 *)
(***************************************************************************)
LEMMA BeginStep ==
  ASSUME IInv, NEW c \in Conns, Begin(c)
  PROVE  IInv'
<1> DEFINE r == [conn[c] EXCEPT !.at = "handshake", !.armed = TRUE]
<1>1. conn[c] \in Conn /\ Sound(conn[c]) /\ conn[c].at = "begin"
  BY DEF IInv, TypeInv, ConnInv, Begin
<1>2. r \in Conn /\ Handler(c, r)
  BY <1>1 DEF Begin, Conn, Establishing
<1>3. Sound(r)
  BY <1>1 DEF Sound, ReplyInv, RelayInv, DrainInv, Early, Conn, Closing
<1>4. r.at = "handshake"
  BY <1>1 DEF Conn
<1> QED
  BY <1>1, <1>2, <1>3, <1>4, OneConnection DEF Handling, Establishing

LEMMA HandshakeStep ==
  ASSUME IInv, NEW c \in Conns, Handshake(c)
  PROVE  IInv'
<1>1. conn[c] \in Conn /\ Sound(conn[c]) /\ conn[c].at = "handshake"
  BY DEF IInv, TypeInv, ConnInv, Handshake
<1>2. CASE ReadFails(c) /\ Handler(c, CloseGracefully(conn[c]))
  BY <1>1, <1>2, EarlyIsLeavable, ReturnIsSound
<1>3. CASE Reads(c) /\ \E r \in {conn[c], Consumed(c)} : Handler(c, CloseGracefully(r))
  <2>1. conn[c].unread > 0
    BY <1>3 DEF Reads
  <2> QED
    BY <1>1, <1>3, <2>1, EarlyIsLeavable, ReturnIsSound
<1>4. CASE /\ Reads(c)
           /\ Handler(c, [Consumed(c) EXCEPT !.at = IF AuthRequired THEN "auth" ELSE "request"])
  <2> DEFINE r == [Consumed(c) EXCEPT !.at = IF AuthRequired THEN "auth" ELSE "request"]
  <2>1. Consumed(c) \in Conn /\ Consumed(c) = [conn[c] EXCEPT !.unread = conn[c].unread - 1]
    BY <1>4, ConsumedIsUnread DEF Reads
  <2>2. r \in Conn /\ r.at \in {"auth", "request"}
    BY <2>1 DEF Conn, Establishing
  <2>3. Sound(r)
    BY <1>1, <2>1 DEF Sound, ReplyInv, RelayInv, DrainInv, Early, Conn, Closing
  <2> QED
    BY <1>1, <1>4, <2>2, <2>3, OneConnection DEF Handling, Establishing
<1> QED
  BY <1>2, <1>3, <1>4 DEF Handshake

LEMMA AuthenticateStep ==
  ASSUME IInv, NEW c \in Conns, Authenticate(c)
  PROVE  IInv'
<1>1. conn[c] \in Conn /\ Sound(conn[c]) /\ conn[c].at = "auth"
  BY DEF IInv, TypeInv, ConnInv, Authenticate
<1>2. CASE ReadFails(c) /\ Handler(c, CloseGracefully(conn[c]))
  BY <1>1, <1>2, EarlyIsLeavable, ReturnIsSound
<1>3. CASE Reads(c) /\ \E r \in {conn[c], Consumed(c)} : Handler(c, CloseGracefully(r))
  <2>1. conn[c].unread > 0
    BY <1>3 DEF Reads
  <2> QED
    BY <1>1, <1>3, <2>1, EarlyIsLeavable, ReturnIsSound
<1>4. CASE Reads(c) /\ Handler(c, [Consumed(c) EXCEPT !.at = "request"])
  <2> DEFINE r == [Consumed(c) EXCEPT !.at = "request"]
  <2>1. Consumed(c) \in Conn /\ Consumed(c) = [conn[c] EXCEPT !.unread = conn[c].unread - 1]
    BY <1>4, ConsumedIsUnread DEF Reads
  <2>2. r \in Conn /\ r.at = "request"
    BY <2>1 DEF Conn, Establishing
  <2>3. Sound(r)
    BY <1>1, <2>1 DEF Sound, ReplyInv, RelayInv, DrainInv, Early, Conn, Closing
  <2> QED
    BY <1>1, <1>4, <2>2, <2>3, OneConnection DEF Handling, Establishing
<1> QED
  BY <1>2, <1>3, <1>4 DEF Authenticate

LEMMA RequestStep ==
  ASSUME IInv, NEW c \in Conns, Request(c)
  PROVE  IInv'
<1>1. conn[c] \in Conn /\ Sound(conn[c]) /\ conn[c].at = "request"
  BY DEF IInv, TypeInv, ConnInv, Request
<1>2. conn[c].unread > 0 =>
        Consumed(c) \in Conn /\ Consumed(c) = [conn[c] EXCEPT !.unread = conn[c].unread - 1]
  BY ConsumedIsUnread
<1>3. CASE Handler(c, CloseGracefully(conn[c]))
  BY <1>1, <1>3, EarlyIsLeavable, ReturnIsSound
<1>4. CASE Reads(c) /\ Handler(c, CloseGracefully(SendReply(Consumed(c), "failure")))
  <2>1. Leavable(Consumed(c)) /\ conn[c].at \in Handling
    BY <1>1, <1>4, EarlyIsLeavable DEF Reads
  <2>2. Consumed(c).watcher = "none"
    BY <1>1, <1>2, <1>4 DEF Reads, Sound, ReplyInv, Early, Conn
  <2>3. Leavable(SendReply(Consumed(c), "failure"))
    BY <2>1, <2>2, AnsweredIsLeavable DEF Leavable
  <2> QED
    BY <1>4, <2>1, <2>3, ReturnIsSound
<1>5. CASE Reads(c) /\ Handler(c, [Consumed(c) EXCEPT !.at = "address", !.reply = "owed"])
  <2> DEFINE r == [Consumed(c) EXCEPT !.at = "address", !.reply = "owed"]
  <2>1. r \in Conn /\ r.at = "address"
    BY <1>2, <1>5 DEF Reads, Conn, Establishing
  <2>2. Sound(r)
    BY <1>1, <1>2, <1>5
    DEF Reads, Sound, ReplyInv, RelayInv, DrainInv, Early, Conn, Closing
  <2> QED
    BY <1>1, <1>5, <2>1, <2>2, OneConnection DEF Handling, Establishing
<1> QED
  BY <1>3, <1>4, <1>5 DEF Request

\* Owing an answer, a handler returns by way of a failure reply.
LEMMA FailureStep ==
  ASSUME IInv, NEW c \in Conns, conn[c].at \in {"address", "dial"},
         Handler(c, CloseGracefully(SendReply(conn[c], "failure")))
  PROVE  IInv'
<1>1. conn[c] \in Conn /\ Sound(conn[c])
  BY DEF IInv, TypeInv, ConnInv
<1>2. Leavable(SendReply(conn[c], "failure"))
  BY <1>1, AnsweredIsLeavable DEF Sound, ReplyInv, RelayInv, DrainInv
<1>3. conn[c].at \in Handling
  BY DEF Handling, Establishing
<1> QED
  BY <1>2, <1>3, ReturnIsSound

LEMMA ReadAddressStep ==
  ASSUME IInv, NEW c \in Conns, ReadAddress(c)
  PROVE  IInv'
<1>1. conn[c] \in Conn /\ Sound(conn[c]) /\ conn[c].at = "address"
  BY DEF IInv, TypeInv, ConnInv, ReadAddress
<1>2. CASE Handler(c, CloseGracefully(SendReply(conn[c], "failure")))
  BY <1>1, <1>2, FailureStep
<1>3. CASE Reads(c) /\ Handler(c, [Consumed(c) EXCEPT !.at = "dial"])
  <2> DEFINE r == [Consumed(c) EXCEPT !.at = "dial"]
  <2>1. Consumed(c) \in Conn /\ Consumed(c) = [conn[c] EXCEPT !.unread = conn[c].unread - 1]
    BY <1>3, ConsumedIsUnread DEF Reads
  <2>2. r \in Conn /\ r.at = "dial"
    BY <2>1 DEF Conn, Establishing
  <2>3. Sound(r)
    BY <1>1, <2>1 DEF Sound, ReplyInv, RelayInv, DrainInv, Early, Conn, Closing
  <2> QED
    BY <1>1, <1>3, <2>2, <2>3, OneConnection DEF Handling, Establishing
<1> QED
  BY <1>2, <1>3 DEF ReadAddress

LEMMA DialStep ==
  ASSUME IInv, NEW c \in Conns, Dial(c)
  PROVE  IInv'
<1>1. conn[c] \in Conn /\ Sound(conn[c]) /\ conn[c].at = "dial"
  BY DEF IInv, TypeInv, ConnInv, Dial
<1>2. CASE Handler(c, [conn[c] EXCEPT !.at = "reply", !.dest = "open"])
  <2> DEFINE r == [conn[c] EXCEPT !.at = "reply", !.dest = "open"]
  <2>1. r \in Conn /\ r.at = "reply"
    BY <1>1 DEF Conn, Establishing
  <2>2. Sound(r)
    BY <1>1 DEF Sound, ReplyInv, RelayInv, DrainInv, Early, Conn, Closing
  <2> QED
    BY <1>1, <1>2, <2>1, <2>2, OneConnection DEF Handling, Establishing
<1>3. CASE Handler(c, CloseGracefully(SendReply(conn[c], "failure")))
  BY <1>1, <1>3, FailureStep
<1> QED
  BY <1>2, <1>3 DEF Dial

LEMMA SendSuccessStep ==
  ASSUME IInv, NEW c \in Conns, SendSuccess(c)
  PROVE  IInv'
<1>1. conn[c] \in Conn /\ Sound(conn[c]) /\ conn[c].at = "reply"
  BY DEF IInv, TypeInv, ConnInv, SendSuccess
<1>2. CASE /\ ~conn[c].expired
           /\ Handler(c, [SendReply(conn[c], "success") EXCEPT !.at = "lift"])
  <2> DEFINE r == [SendReply(conn[c], "success") EXCEPT !.at = "lift"]
  <2>1. r = [conn[c] EXCEPT !.reply = "success", !.at = "lift"]
    BY <1>1, <1>2 DEF SendReply
  <2>2. r \in Conn /\ r.at = "lift"
    BY <1>1, <2>1 DEF Conn, Establishing
  <2>3. Sound(r)
    BY <1>1, <2>1 DEF Sound, ReplyInv, RelayInv, DrainInv, Early, Conn, Closing
  <2> QED
    BY <1>1, <1>2, <2>2, <2>3, OneConnection DEF Handling, Establishing
<1>3. CASE Handler(c, CloseGracefully([conn[c] EXCEPT !.reply = "lost", !.dest = "closed"]))
  <2> DEFINE r == [conn[c] EXCEPT !.reply = "lost", !.dest = "closed"]
  <2>1. Leavable(r)
    BY <1>1 DEF Leavable, Conn, Sound, ReplyInv, RelayInv, DrainInv, Early
  <2> QED
    BY <1>1, <1>3, <2>1, ReturnIsSound DEF Handling, Establishing
<1> QED
  BY <1>2, <1>3 DEF SendSuccess

LEMMA LiftStep ==
  ASSUME IInv, NEW c \in Conns, Lift(c)
  PROVE  IInv'
<1> DEFINE r == [conn[c] EXCEPT !.at = "relay", !.armed = FALSE, !.expired = FALSE,
                                !.up = TRUE, !.down = TRUE, !.watcher = "waits"]
<1>1. conn[c] \in Conn /\ Sound(conn[c]) /\ conn[c].at = "lift"
  BY DEF IInv, TypeInv, ConnInv, Lift
<1>2. r \in Conn /\ Handler(c, r) /\ r.at = "relay"
  BY <1>1 DEF Lift, Conn
<1>3. Sound(r)
  BY <1>1 DEF Sound, ReplyInv, RelayInv, DrainInv, Early, Conn, Closing
<1> QED
  BY <1>1, <1>2, <1>3, OneConnection DEF Handling, Establishing

LEMMA RelayReturnsStep ==
  ASSUME IInv, NEW c \in Conns, RelayReturns(c)
  PROVE  IInv'
<1> DEFINE r == [conn[c] EXCEPT !.dest = "closed"]
<1>1. conn[c] \in Conn /\ Sound(conn[c]) /\ conn[c].at = "relay"
  BY DEF IInv, TypeInv, ConnInv, RelayReturns
<1>2. Leavable(r)
  BY <1>1 DEF Leavable, RelayReturns, Conn, Sound, ReplyInv, RelayInv, DrainInv, Early
<1>3. Handler(c, CloseGracefully(r))
  BY DEF RelayReturns
<1> QED
  BY <1>1, <1>2, <1>3, ReturnIsSound DEF Handling

LEMMA DrainReadsStep ==
  ASSUME IInv, NEW c \in Conns, DrainReads(c)
  PROVE  IInv'
<1> DEFINE r == [conn[c] EXCEPT !.unread = 0]
<1>1. conn[c] \in Conn /\ Sound(conn[c]) /\ conn[c].at = "drain"
  BY DEF IInv, TypeInv, ConnInv, DrainReads
<1>2. 0 \in 0 .. MaxUnread
  BY Socks5Assumption
<1>3. r \in Conn /\ Handler(c, r) /\ r.at = "drain"
  BY <1>1, <1>2 DEF DrainReads, Conn
<1>4. Sound(r)
  BY <1>1 DEF Sound, ReplyInv, RelayInv, DrainInv, Early, Conn, Closing
<1> QED
  BY <1>1, <1>3, <1>4, OneConnection

\* The drain is over: what is unread came after its deadline.
LEMMA DrainEndsStep ==
  ASSUME IInv, NEW c \in Conns, DrainEnds(c)
  PROVE  IInv'
<1> DEFINE r == [conn[c] EXCEPT !.at = "close"]
<1>1. conn[c] \in Conn /\ Sound(conn[c]) /\ conn[c].at = "drain"
  BY DEF IInv, TypeInv, ConnInv, DrainEnds
<1>2. r \in Conn /\ Handler(c, r) /\ r.at = "close"
  BY <1>1 DEF DrainEnds, Conn, Closing
<1>3. ReplyInv(r) /\ RelayInv(r)
  BY <1>1 DEF Sound, ReplyInv, RelayInv, Early, Conn, Closing
<1>4. DrainInv(r)
  BY <1>1 DEF DrainEnds, ClientBroken, Sound, DrainInv, Conn
<1> QED
  BY <1>1, <1>2, <1>3, <1>4, OneConnection DEF Sound, Handling, Closing

\* Close and wg.Done: one handler less, and one less in the wait group.
LEMMA ClosesStep ==
  ASSUME IInv, NEW c \in Conns, Closes(c)
  PROVE  IInv'
<1> DEFINE r == [conn[c] EXCEPT !.at = "ended", !.closed = TRUE, !.armed = FALSE,
                  !.expired = FALSE, !.client = "gone", !.unread = 0,
                  !.reset = ~conn[c].closed /\ conn[c].client # "gone" /\ conn[c].unread > 0]
<1>1. conn[c] \in Conn /\ Sound(conn[c]) /\ conn[c].at = "close" /\ conn \in [Conns -> Conn]
  BY DEF IInv, TypeInv, ConnInv, Closes
<1>2. /\ conn' = [conn EXCEPT ![c] = r]
      /\ wg' = wg - 1 /\ loop' = loop /\ stop' = stop
  BY <1>1 DEF Closes
<1>3. 0 \in 0 .. MaxUnread
  BY Socks5Assumption
<1>4. r \in Conn /\ r.at = "ended"
  <2> DEFINE lost == ~conn[c].closed /\ conn[c].client # "gone" /\ conn[c].unread > 0
  <2>1. lost \in BOOLEAN
    OBVIOUS
  <2> DEFINE first == [conn[c] EXCEPT !.at = "ended", !.closed = TRUE, !.armed = FALSE,
                                      !.expired = FALSE]
  <2>2. first \in Conn /\ first.at = "ended"
    BY <1>1 DEF Conn
  <2>3. r = [first EXCEPT !.client = "gone", !.unread = 0, !.reset = lost]
    BY <1>1 DEF Conn
  <2> HIDE DEF first, lost
  <2>4. [first EXCEPT !.client = "gone", !.unread = 0, !.reset = lost] \in Conn
    BY <1>3, <2>1, <2>2 DEF Conn
  <2>5. [first EXCEPT !.client = "gone", !.unread = 0, !.reset = lost].at = "ended"
    BY <2>2 DEF Conn
  <2> QED
    BY <2>3, <2>4, <2>5
<1>5. Sound(r)
  BY <1>1 DEF Sound, ReplyInv, RelayInv, DrainInv, Early, Conn, Closing
<1>6. conn'[c] = r /\ \A d \in Conns \ {c} : conn'[d] = conn[d]
  BY <1>1, <1>2
<1>7. TypeInv'
  BY <1>1, <1>2, <1>4 DEF IInv, TypeInv
<1>8. WgInv'
  <2>0. /\ conn[c].at \in Handling /\ conn'[c].at \notin Handling
        /\ \A d \in Conns \ {c} : conn'[d].at = conn[d].at
    BY <1>1, <1>4, <1>6 DEF Handling, Establishing, Closing
  <2>1. Handlers' = Handlers \ {c} /\ c \in Handlers
    BY <2>0 DEF Handlers
  <2>2. Cardinality(Handlers') = Cardinality(Handlers) - 1
    BY <2>1, HandlersFinite, FS_RemoveElement
  <2> QED
    BY <1>2, <2>2, HandlersFinite DEF IInv, WgInv
<1>9. StopInv'
  <2>1. stop # "returned"
    <3>1. c \in Handlers
      BY <1>1 DEF Handlers, Handling, Closing
    <3>2. Cardinality(Handlers) # 0
      BY <3>1, HandlersFinite, FS_EmptySet
    <3> QED
      BY <3>2, HandlersFinite DEF IInv, WgInv, StopInv
  <2> QED
    BY <1>2, <1>4, <1>6, <2>1 DEF IInv, StopInv
<1>10. ConnInv'
  <2> SUFFICES ASSUME NEW d \in Conns PROVE Sound(conn[d])'
    BY DEF ConnInv
  <2>0. CtxDone' <=> CtxDone
    BY <1>2 DEF CtxDone
  <2>1. CASE d = c
    <3> HIDE DEF r
    <3>1. conn'[d] = r
      BY <1>6, <2>1
    <3> QED
      BY <1>5, <2>0, <3>1 DEF Sound, ReplyInv, RelayInv, DrainInv
  <2>2. CASE d # c
    <3>1. conn'[d] = conn[d] /\ Sound(conn[d])
      BY <1>6, <2>2 DEF IInv, ConnInv
    <3> QED
      BY <2>0, <3>1 DEF Sound, ReplyInv, RelayInv, DrainInv
  <2> QED
    BY <2>1, <2>2
<1> QED
  BY <1>7, <1>8, <1>9, <1>10 DEF IInv
------------------------------------------------------------------------------
(***************************************************************************)
(* The relay, the timers, the clients and the destinations.                *)
(***************************************************************************)
LEMMA CopyStep ==
  ASSUME IInv, NEW c \in Conns, CopyUpData(c) \/ CopyUpEnds(c) \/ CopyDownEnds(c)
  PROVE  IInv'
<1>1. conn[c] \in Conn /\ Sound(conn[c])
  BY DEF IInv, TypeInv, ConnInv
<1>2. CASE CopyUpData(c)
  <2>1. Consumed(c) \in Conn /\ Consumed(c) = [conn[c] EXCEPT !.unread = conn[c].unread - 1]
    BY <1>2, ConsumedIsUnread DEF CopyUpData
  <2>2. conn[c].at = "relay" /\ Consumed(c).at = "relay"
    BY <1>1, <1>2, <2>1 DEF CopyUpData, Sound, RelayInv, Conn
  <2>3. Sound(Consumed(c))
    BY <1>1, <2>1, <2>2 DEF Sound, ReplyInv, RelayInv, DrainInv, Early, Conn, Closing
  <2> QED
    BY <1>2, <2>1, <2>2, <2>3, OneConnection DEF CopyUpData
<1>3. CASE CopyUpEnds(c)
  <2> DEFINE r == [conn[c] EXCEPT !.up = FALSE]
  <2>1. r \in Conn /\ Handler(c, r) /\ r.at = conn[c].at
    BY <1>1, <1>3 DEF CopyUpEnds, Conn
  <2>2. Sound(r)
    BY <1>1 DEF Sound, ReplyInv, RelayInv, DrainInv, Conn
  <2> QED
    BY <2>1, <2>2, OneConnection
<1>4. CASE CopyDownEnds(c)
  <2> DEFINE r == [conn[c] EXCEPT !.down = FALSE]
  <2>1. r \in Conn /\ Handler(c, r) /\ r.at = conn[c].at
    BY <1>1, <1>4 DEF CopyDownEnds, Conn
  <2>2. Sound(r)
    BY <1>1 DEF Sound, ReplyInv, RelayInv, DrainInv, Conn
  <2> QED
    BY <2>1, <2>2, OneConnection
<1> QED
  BY <1>2, <1>3, <1>4

\* The watcher closes only when the server stops, and only after the dial.
LEMMA WatcherStep ==
  ASSUME IInv, NEW c \in Conns, Watcher(c)
  PROVE  IInv'
<1>1. conn[c] \in Conn /\ Sound(conn[c]) /\ conn[c].watcher = "waits"
  BY DEF IInv, TypeInv, ConnInv, Watcher
<1>2. conn[c].at \in Closing \cup {"relay", "ended"}
  BY <1>1 DEF Sound, ReplyInv, Early, Conn, Establishing, Closing
<1>3. CASE /\ CtxDone
           /\ Handler(c, [conn[c] EXCEPT !.watcher = "ended", !.closed = TRUE, !.dest = "closed"])
  <2> DEFINE r == [conn[c] EXCEPT !.watcher = "ended", !.closed = TRUE, !.dest = "closed"]
  <2>1. r \in Conn /\ r.at = conn[c].at
    BY <1>1 DEF Conn
  <2>2. Sound(r)
    BY <1>1, <1>2, <1>3 DEF Sound, ReplyInv, RelayInv, DrainInv, Early, Conn, Closing
  <2> QED
    BY <1>3, <2>1, <2>2, OneConnection
<1>4. CASE Handler(c, [conn[c] EXCEPT !.watcher = "ended"])
  <2> DEFINE r == [conn[c] EXCEPT !.watcher = "ended"]
  <2>1. r \in Conn /\ r.at = conn[c].at
    BY <1>1 DEF Conn
  <2>2. Sound(r)
    BY <1>1 DEF Sound, ReplyInv, RelayInv, DrainInv, Conn
  <2> QED
    BY <1>4, <2>1, <2>2, OneConnection
<1> QED
  BY <1>3, <1>4 DEF Watcher

\* A deadline that fires is armed, so not in the relay, and the drain has left nothing unread.
LEMMA ExpiresStep ==
  ASSUME IInv, NEW c \in Conns, Expires(c)
  PROVE  IInv'
<1> DEFINE r == [conn[c] EXCEPT !.expired = TRUE]
<1>1. conn[c] \in Conn /\ Sound(conn[c]) /\ conn \in [Conns -> Conn]
  BY DEF IInv, TypeInv, ConnInv
<1>2. r \in Conn /\ Handler(c, r) /\ r.at = conn[c].at
  BY <1>1 DEF Expires, Handler, Conn
<1>3. Sound(r)
  BY <1>1 DEF Expires, Sound, ReplyInv, RelayInv, DrainInv, Conn
<1> QED
  BY <1>2, <1>3, OneConnection

\* A client that sends after the drain is late.
LEMMA SendsStep ==
  ASSUME IInv, NEW c \in Conns, Sends(c)
  PROVE  IInv'
<1> DEFINE r == [conn[c] EXCEPT !.unread = conn[c].unread + 1,
                                !.late = conn[c].late \/ DrainOver(conn[c])]
<1>1. conn[c] \in Conn /\ Sound(conn[c]) /\ conn \in [Conns -> Conn]
  BY DEF IInv, TypeInv, ConnInv
<1>2. conn' = [conn EXCEPT ![c] = r] /\ UNCHANGED <<loop, stop, wg>>
  BY <1>1 DEF Sends
<1>3. conn[c].unread + 1 \in 0 .. MaxUnread
  BY <1>1, Socks5Assumption DEF Sends, Conn
<1>4. (conn[c].late \/ DrainOver(conn[c])) \in BOOLEAN
  BY DEF DrainOver
<1>5. r \in Conn /\ r.at = conn[c].at
  BY <1>1, <1>3, <1>4 DEF Conn
<1>6. ReplyInv(r) /\ RelayInv(r)
  BY <1>1 DEF Sound, ReplyInv, RelayInv, Conn
<1>7. DrainInv(r)
  BY <1>1 DEF Sound, DrainInv, DrainOver, Conn
<1> QED
  BY <1>2, <1>5, <1>6, <1>7, OneConnection DEF Handler, Sound

LEMMA EnvironmentStep ==
  ASSUME IInv, NEW c \in Conns, Environment(c)
  PROVE  IInv'
<1>1. conn[c] \in Conn /\ Sound(conn[c]) /\ conn \in [Conns -> Conn]
  BY DEF IInv, TypeInv, ConnInv
<1>2. CASE Arrives(c)
  <2> DEFINE r == [conn[c] EXCEPT !.at = "backlog"]
  <2>1. r \in Conn /\ Handler(c, r) /\ r.at = "backlog" /\ conn[c].at = "none"
    BY <1>1, <1>2 DEF Arrives, Handler, Conn
  <2>2. Sound(r)
    BY <1>1, <2>1 DEF Sound, ReplyInv, RelayInv, DrainInv, Early, Conn, Closing
  <2> QED
    BY <1>2, <2>1, <2>2, OneConnection
    DEF Arrives, ListenerOpen, Handling, Establishing, Closing
<1>3. CASE Sends(c)
  BY <1>3, SendsStep
<1>4. CASE Leaves(c)
  <2>1. PICK s \in {"finished", "gone"} :
          /\ conn[c].client \notin {s, "gone"}
          /\ conn' = [conn EXCEPT ![c].client = s]
    BY <1>4 DEF Leaves
  <2> DEFINE r == [conn[c] EXCEPT !.client = s]
  <2>2. r \in Conn /\ Handler(c, r) /\ r.at = conn[c].at
    BY <1>1, <1>4, <2>1 DEF Leaves, Handler, Conn
  <2>3. Sound(r)
    BY <1>1, <2>1 DEF Sound, ReplyInv, RelayInv, DrainInv, Conn
  <2> QED
    BY <2>2, <2>3, OneConnection
<1>5. CASE DestFinishes(c)
  <2> DEFINE r == [conn[c] EXCEPT !.dest = "finished"]
  <2>1. r \in Conn /\ Handler(c, r) /\ r.at = conn[c].at
    BY <1>1, <1>5 DEF DestFinishes, Handler, Conn
  <2>2. Sound(r)
    BY <1>1, <1>5 DEF DestFinishes, Sound, ReplyInv, RelayInv, DrainInv, Conn
  <2> QED
    BY <2>1, <2>2, OneConnection
<1> QED
  BY <1>2, <1>3, <1>4, <1>5 DEF Environment
------------------------------------------------------------------------------
(***************************************************************************)
(* The accept loop and Stop.                                               *)
(***************************************************************************)
LEMMA LoopStep ==
  ASSUME IInv, Start \/ LoopTop \/ AcceptTimeout \/ AcceptFails
  PROVE  IInv'
<1>1. conn' = conn /\ stop' = stop /\ loop \notin {"ended", "failed"} /\ loop' # "new"
  BY DEF Start, LoopTop, AcceptTimeout, AcceptFails, LoopExits
<1>2. TypeInv' /\ ConnInv'
  BY <1>1 DEF IInv, TypeInv, ConnInv, Sound, ReplyInv, RelayInv, DrainInv, CtxDone,
              Start, LoopTop, AcceptTimeout, AcceptFails, LoopExits
<1>3. Handlers' = Handlers
  BY <1>1 DEF Handlers
<1>4. WgInv'
  BY <1>3, HandlersFinite
  DEF IInv, WgInv, Start, LoopTop, AcceptTimeout, AcceptFails, LoopExits
<1>5. StopInv'
  <2>1. stop # "returned"
    BY HandlersFinite DEF IInv, TypeInv, WgInv, StopInv,
                          Start, LoopTop, AcceptTimeout, AcceptFails
  <2> QED
    BY <1>1, <2>1 DEF IInv, StopInv
<1> QED
  BY <1>2, <1>4, <1>5 DEF IInv

\* One handler more, and one more in the wait group.
LEMMA AcceptStep ==
  ASSUME IInv, NEW c \in Conns, Accept(c)
  PROVE  IInv'
<1> DEFINE r == [conn[c] EXCEPT !.at = "begin"]
<1>1. conn[c] \in Conn /\ Sound(conn[c]) /\ conn[c].at = "backlog" /\ conn \in [Conns -> Conn]
  BY DEF IInv, TypeInv, ConnInv, Accept
<1>2. /\ conn' = [conn EXCEPT ![c] = r]
      /\ wg' = wg + 1 /\ loop = "accept" /\ loop' = "top" /\ stop' = stop
  BY <1>1 DEF Accept
<1>3. r \in Conn /\ r.at = "begin"
  BY <1>1 DEF Conn, Establishing
<1>4. Sound(r)
  BY <1>1 DEF Sound, ReplyInv, RelayInv, DrainInv, Early, Conn, Closing
<1>5. conn'[c] = r /\ \A d \in Conns \ {c} : conn'[d] = conn[d]
  BY <1>1, <1>2
<1>6. TypeInv'
  BY <1>1, <1>2, <1>3 DEF IInv, TypeInv
<1>7. WgInv'
  <2>1. Handlers' = Handlers \cup {c} /\ c \notin Handlers
    BY <1>1, <1>3, <1>5 DEF Handlers, Handling, Establishing, Closing
  <2>2. Cardinality(Handlers') = Cardinality(Handlers) + 1
    BY <2>1, HandlersFinite, FS_AddElement
  <2> QED
    BY <1>2, <2>2, HandlersFinite DEF IInv, WgInv
<1>8. StopInv'
  BY <1>2, <1>3, <1>5 DEF IInv, StopInv, Accept, ListenerOpen
<1>9. ConnInv'
  <2> SUFFICES ASSUME NEW d \in Conns PROVE Sound(conn[d])'
    BY DEF ConnInv
  <2>1. CASE d = c
    BY <1>2, <1>4, <1>5, <2>1 DEF Sound, ReplyInv, RelayInv, DrainInv, CtxDone
  <2>2. CASE d # c
    BY <1>2, <1>5, <2>2 DEF IInv, ConnInv, Sound, ReplyInv, RelayInv, DrainInv, CtxDone
  <2> QED
    BY <2>1, <2>2
<1> QED
  BY <1>6, <1>7, <1>8, <1>9 DEF IInv

LEMMA StopStep ==
  ASSUME IInv, StopCancel \/ StopReturn
  PROVE  IInv'
<1>1. conn' = conn /\ loop' = loop /\ wg' = wg
  BY DEF StopCancel, StopReturn
<1>2. TypeInv' /\ StopInv'
  BY <1>1 DEF IInv, TypeInv, StopInv, StopCancel, StopReturn
<1>3. Handlers' = Handlers
  BY <1>1 DEF Handlers
<1>4. WgInv'
  BY <1>1, <1>3 DEF IInv, WgInv
<1>5. ConnInv'
  BY <1>1 DEF IInv, ConnInv, Sound, ReplyInv, RelayInv, DrainInv, CtxDone,
              StopCancel, StopReturn
<1> QED
  BY <1>2, <1>4, <1>5 DEF IInv

LEMMA StopCloseStep ==
  ASSUME IInv, StopClose
  PROVE  IInv'
<1> DEFINE r(c) == IF conn[c].at = "backlog" THEN [conn[c] EXCEPT !.at = "refused"] ELSE conn[c]
<1>1. /\ conn' = [c \in Conns |-> r(c)]
      /\ loop' = loop /\ wg' = wg /\ stop = "cancelled" /\ stop' = "waiting"
  BY DEF StopClose
<1>2. \A c \in Conns : conn[c] \in Conn /\ Sound(conn[c])
  BY DEF IInv, TypeInv, ConnInv
<1>3. ASSUME NEW c \in Conns
      PROVE  /\ r(c) \in Conn /\ r(c).at # "backlog"
             /\ r(c).at \in Handling <=> conn[c].at \in Handling
             /\ Sound(r(c))
  <2>1. CASE conn[c].at = "backlog"
    <3>1. r(c) \in Conn /\ r(c).at = "refused"
      BY <1>2, <2>1 DEF Conn
    <3>2. Sound(r(c))
      BY <1>2, <2>1 DEF Sound, ReplyInv, RelayInv, DrainInv, Early, Conn, Closing
    <3> QED
      BY <2>1, <3>1, <3>2 DEF Handling, Establishing, Closing
  <2>2. CASE conn[c].at # "backlog"
    BY <1>2, <2>2
  <2> QED
    BY <2>1, <2>2
<1> HIDE DEF r
<1>4. \A c \in Conns : conn'[c] = r(c)
  BY <1>1
<1>5. TypeInv' /\ StopInv'
  BY <1>1, <1>3, <1>4 DEF IInv, TypeInv, StopInv
<1>6. Handlers' = Handlers
  BY <1>3, <1>4 DEF Handlers
<1>7. WgInv'
  BY <1>1, <1>6 DEF IInv, WgInv
<1>8. ConnInv'
  <2> SUFFICES ASSUME NEW c \in Conns PROVE Sound(conn[c])'
    BY DEF ConnInv
  <2> QED
    BY <1>1, <1>3, <1>4 DEF Sound, ReplyInv, RelayInv, DrainInv, CtxDone
<1> QED
  BY <1>5, <1>7, <1>8 DEF IInv
------------------------------------------------------------------------------
LEMMA InitInv == Init => IInv
<1> SUFFICES ASSUME Init PROVE IInv
  OBVIOUS
<1>1. 0 \in 0 .. MaxUnread
  BY Socks5Assumption
<1>2. TypeInv
  BY <1>1 DEF Init, TypeInv, Conn
<1>3. Handlers = {}
  BY DEF Init, Handlers, Handling, Establishing, Closing
<1>4. WgInv
  BY <1>3, FS_EmptySet DEF Init, WgInv
<1>5. StopInv /\ ConnInv
  BY DEF Init, StopInv, ConnInv, Sound, ReplyInv, RelayInv, DrainInv, Early, Closing
<1> QED
  BY <1>2, <1>4, <1>5 DEF IInv

LEMMA NextInv == IInv /\ [Next]_vars => IInv'
<1> SUFFICES ASSUME IInv, [Next]_vars PROVE IInv'
  OBVIOUS
<1>1. CASE Start
  BY <1>1, LoopStep
<1>2. CASE AcceptLoop
  BY <1>2, LoopStep, AcceptStep DEF AcceptLoop
<1>3. CASE StopCalled
  BY <1>3, StopStep, StopCloseStep DEF StopCalled
<1>4. ASSUME NEW c \in Conns, Handles(c)
      PROVE  IInv'
  BY <1>4, BeginStep, HandshakeStep, AuthenticateStep, RequestStep, ReadAddressStep, DialStep,
     SendSuccessStep, LiftStep, RelayReturnsStep, DrainReadsStep, DrainEndsStep, ClosesStep
  DEF Handles
<1>5. ASSUME NEW c \in Conns, \/ CopyUpData(c) \/ CopyUpEnds(c) \/ CopyDownEnds(c)
                              \/ Watcher(c) \/ Expires(c) \/ Environment(c)
      PROVE  IInv'
  BY <1>5, CopyStep, WatcherStep, ExpiresStep, EnvironmentStep
<1>6. CASE UNCHANGED vars
  <2>1. loop' = loop /\ stop' = stop /\ wg' = wg /\ conn' = conn
    BY <1>6 DEF vars
  <2> QED
    BY <2>1 DEF IInv, TypeInv, WgInv, StopInv, ConnInv, Sound, ReplyInv, RelayInv, DrainInv,
                Handlers, CtxDone
<1> QED
  BY <1>1, <1>2, <1>3, <1>4, <1>5, <1>6 DEF Next

LEMMA Invariance == Spec => []IInv
<1> QED
  BY InitInv, NextInv, PTL DEF Spec
------------------------------------------------------------------------------
\* Every variable keeps a value of its type, and wg stays between zero and the number of
\* connections and the accept loop: no wg.Done finds the counter at zero
\* (server.go:117, 124 and 161).
THEOREM TypeCorrect == Spec => []TypeOK
<1> QED
  BY Invariance, WgRange, PTL

\* Stop returns only when the accept loop and every handler have ended and nothing is open,
\* however many clients were accepted while it was called (Stop, server.go:87-104).
THEOREM StopWaits == Spec => []StopWaitsForAll
<1>1. IInv => StopWaitsForAll
  <2> SUFFICES ASSUME IInv, stop = "returned" PROVE StopWaitsForAll
    BY DEF StopWaitsForAll
  <2>1. /\ Cardinality(Handlers) = 0 /\ loop \notin {"new", "top", "accept"}
    BY HandlersFinite DEF IInv, WgInv, StopInv
  <2>2. Handlers = {}
    BY <2>1, HandlersFinite, FS_EmptySet
  <2>3. ASSUME NEW c \in Conns
        PROVE  /\ conn[c].at \in {"none", "refused", "ended"}
               /\ conn[c].dest \in {"none", "closed"}
    <3>1. conn[c] \in Conn /\ conn[c].at \notin Handling /\ conn[c].at # "backlog"
      BY <2>2 DEF IInv, TypeInv, StopInv, Handlers
    <3>2. conn[c].at \in {"none", "refused", "ended"}
      BY <3>1 DEF Conn, Handling
    <3> QED
      BY <3>2 DEF IInv, ConnInv, Sound, RelayInv, Early
  <2> QED
    BY <2>1, <2>3 DEF StopWaitsForAll, IInv, TypeInv
<1> QED
  BY <1>1, Invariance, PTL

\* A reply is destroyed by a reset only if its client went on sending after the drain
\* (closeGracefully, server.go:199-221).
THEOREM ReplyNotReset == Spec => []ReplySurvivesClose
<1>1. IInv => ReplySurvivesClose
  BY DEF IInv, ConnInv, Sound, DrainInv, ReplySurvivesClose
<1> QED
  BY <1>1, Invariance, PTL

\* A handler that understood a request answers it before it ends, and success is told exactly
\* to those who get a relay (processRequest, server.go:364-400).
THEOREM RequestsAnswered == Spec => []EveryRequestAnswered
<1>1. IInv => EveryRequestAnswered
  BY DEF IInv, ConnInv, Sound, ReplyInv, EveryRequestAnswered
<1> QED
  BY <1>1, Invariance, PTL
------------------------------------------------------------------------------
\* Why a copy of connection c may end.
MayEnd(c) == conn[c].client # "sends" \/ conn[c].dest # "open" \/ CtxDone

Ends(c) == \/ conn[c].up /\ ~conn'[c].up
           \/ conn[c].down /\ ~conn'[c].down

\* Records whose copies are those of connection c.
SameCopies(c) == {r \in Conn : r.up = conn[c].up /\ r.down = conn[c].down}

LEMMA ReturnKeepsCopies ==
  ASSUME IInv, NEW c \in Conns
  PROVE  /\ conn[c] \in SameCopies(c)
         /\ conn[c].unread > 0 => Consumed(c) \in SameCopies(c)
         /\ \A r \in SameCopies(c) :
              /\ CloseGracefully(r) \in SameCopies(c)
              /\ \A code \in {"failure", "success"} : SendReply(r, code) \in SameCopies(c)
<1>1. conn[c] \in Conn
  BY DEF IInv, TypeInv
<1>2. ASSUME conn[c].unread > 0
      PROVE  Consumed(c) \in SameCopies(c)
  BY <1>1, <1>2, ConsumedIsUnread DEF SameCopies, Conn
<1>3. ASSUME NEW r \in SameCopies(c)
      PROVE  CloseGracefully(r) \in SameCopies(c)
  BY <1>3 DEF CloseGracefully, SameCopies, Conn, Closing
<1>4. ASSUME NEW r \in SameCopies(c), NEW code \in {"failure", "success"}
      PROVE  SendReply(r, code) \in SameCopies(c)
  BY <1>4 DEF SendReply, SameCopies, Conn
<1> QED
  BY <1>1, <1>2, <1>3, <1>4 DEF SameCopies

\* A step of the handler leaves the copies alone or starts them.
LEMMA HandlerKeepsCopies ==
  ASSUME IInv, NEW c \in Conns, Handles(c)
  PROVE  \A d \in Conns : ~Ends(d)
<1>1. conn \in [Conns -> Conn] /\ conn[c] \in Conn
  BY DEF IInv, TypeInv
<1>2. \A d \in Conns \ {c} : conn'[d] = conn[d]
  BY <1>1 DEF Handles, Handler, Begin, Handshake, Authenticate, Request, ReadAddress, Dial,
              SendSuccess, Lift, RelayReturns, DrainReads, DrainEnds, Closes
<1>3. ASSUME NEW r \in SameCopies(c), Handler(c, r)
      PROVE  \A d \in Conns : ~Ends(d)
  <2>1. conn'[c] = r
    BY <1>1, <1>3 DEF Handler
  <2> QED
    BY <1>2, <2>1 DEF Ends, SameCopies
<1>4. ASSUME NEW r \in SameCopies(c), NEW a \in Establishing \cup Closing
      PROVE  [r EXCEPT !.at = a] \in SameCopies(c)
  BY DEF SameCopies, Conn
<1>5. CASE Begin(c)
  <2>1. conn'[c].up = conn[c].up /\ conn'[c].down = conn[c].down
    BY <1>1, <1>5 DEF Begin, Handler, Conn
  <2> QED
    BY <1>2, <2>1 DEF Ends
<1>6. CASE Handshake(c)
  BY <1>3, <1>4, <1>6, ReturnKeepsCopies DEF Handshake, Reads, Establishing
<1>7. CASE Authenticate(c)
  BY <1>3, <1>4, <1>7, ReturnKeepsCopies DEF Authenticate, Reads, Establishing
<1>8. CASE Request(c)
  <2>1. CASE Reads(c) /\ Handler(c, [Consumed(c) EXCEPT !.at = "address", !.reply = "owed"])
    <3> DEFINE r == [Consumed(c) EXCEPT !.at = "address", !.reply = "owed"]
    <3>1. Consumed(c) \in SameCopies(c)
      BY <2>1, ReturnKeepsCopies DEF Reads
    <3>2. r \in SameCopies(c)
      BY <3>1 DEF SameCopies, Conn, Establishing
    <3> QED
      BY <1>3, <2>1, <3>2
  <2> QED
    BY <1>3, <1>8, <2>1, ReturnKeepsCopies DEF Request, Reads
<1>9. CASE ReadAddress(c)
  BY <1>3, <1>4, <1>9, ReturnKeepsCopies DEF ReadAddress, Reads, Establishing
<1>10. CASE Dial(c)
  <2>1. CASE Handler(c, [conn[c] EXCEPT !.at = "reply", !.dest = "open"])
    <3> DEFINE r == [conn[c] EXCEPT !.at = "reply", !.dest = "open"]
    <3>1. r \in SameCopies(c)
      BY <1>1 DEF SameCopies, Conn, Establishing
    <3> QED
      BY <1>3, <2>1, <3>1
  <2> QED
    BY <1>3, <1>10, <2>1, ReturnKeepsCopies DEF Dial
<1>11. CASE SendSuccess(c)
  <2>1. CASE Handler(c, CloseGracefully([conn[c] EXCEPT !.reply = "lost", !.dest = "closed"]))
    <3> DEFINE r == [conn[c] EXCEPT !.reply = "lost", !.dest = "closed"]
    <3>1. r \in SameCopies(c)
      BY <1>1 DEF SameCopies, Conn
    <3> QED
      BY <1>3, <2>1, <3>1, ReturnKeepsCopies
  <2> QED
    BY <1>3, <1>4, <1>11, <2>1, ReturnKeepsCopies DEF SendSuccess, Establishing
<1>12. CASE RelayReturns(c)
  <2> DEFINE r == [conn[c] EXCEPT !.dest = "closed"]
  <2>1. r \in SameCopies(c)
    BY <1>1 DEF SameCopies, Conn
  <2> QED
    BY <1>3, <1>12, <2>1, ReturnKeepsCopies DEF RelayReturns
<1>13. CASE DrainReads(c)
  <2>1. conn'[c].up = conn[c].up /\ conn'[c].down = conn[c].down
    BY <1>1, <1>13 DEF DrainReads, Handler, Conn
  <2> QED
    BY <1>2, <2>1 DEF Ends
<1>14. CASE DrainEnds(c)
  BY <1>3, <1>4, <1>14, ReturnKeepsCopies DEF DrainEnds, Closing
<1>15. CASE Closes(c)
  <2>1. conn'[c].up = conn[c].up /\ conn'[c].down = conn[c].down
    BY <1>1, <1>15 DEF Closes, Conn
  <2> QED
    BY <1>2, <2>1 DEF Ends
<1>16. CASE Lift(c)
  <2>1. conn'[c].up /\ conn'[c].down
    BY <1>1, <1>16 DEF Lift, Handler, Conn
  <2> QED
    BY <1>2, <2>1 DEF Ends
<1> QED
  BY <1>5, <1>6, <1>7, <1>8, <1>9, <1>10, <1>11, <1>12, <1>13, <1>14, <1>15, <1>16 DEF Handles

LEMMA CopyEndsForCause ==
  ASSUME IInv, NEW c \in Conns, CopyUpEnds(c) \/ CopyDownEnds(c)
  PROVE  MayEnd(c) /\ \A d \in Conns \ {c} : ~Ends(d)
<1>1. conn \in [Conns -> Conn] /\ conn[c] \in Conn /\ RelayInv(conn[c])
  BY DEF IInv, TypeInv, ConnInv, Sound
<1>2. conn[c].at = "relay" /\ ~conn[c].expired /\ (conn[c].closed => CtxDone)
  BY <1>1 DEF RelayInv, CopyUpEnds, CopyDownEnds
<1>3. MayEnd(c)
  BY <1>2 DEF CopyUpEnds, CopyDownEnds, ClientBroken, MayEnd
<1>4. \A d \in Conns \ {c} : ~Ends(d)
  BY <1>1 DEF CopyUpEnds, CopyDownEnds, Handler, Ends
<1> QED
  BY <1>3, <1>4

\* The establishment timeout never ends a relay: a copy ends because its client or its
\* destination did, or because the server stops (Lift, server.go:389-395).
THEOREM RelaysKept == Spec => OnlyPeersEndRelays
<1>1. IInv /\ [Next]_vars => [\A c \in Conns : Ends(c) => MayEnd(c)]_vars
  <2> SUFFICES ASSUME IInv, [Next]_vars, NEW c \in Conns, Ends(c)
               PROVE  MayEnd(c)
    OBVIOUS
  <2>1. conn \in [Conns -> Conn] /\ conn[c] \in Conn
    BY DEF IInv, TypeInv
  <2>2. CASE Start \/ StopCancel \/ StopReturn \/ UNCHANGED vars
    BY <2>2 DEF Start, StopCancel, StopReturn, vars, Ends
  <2>3. CASE AcceptLoop
    BY <2>1, <2>3 DEF AcceptLoop, LoopTop, AcceptTimeout, AcceptFails, Accept, Ends, Conn
  <2>4. CASE StopClose
    BY <2>1, <2>4 DEF StopClose, Ends, Conn
  <2>5. ASSUME NEW d \in Conns, Handles(d)
        PROVE  MayEnd(c)
    BY <2>5, HandlerKeepsCopies
  <2>6. ASSUME NEW d \in Conns, CopyUpEnds(d) \/ CopyDownEnds(d)
        PROVE  MayEnd(c)
    BY <2>6, CopyEndsForCause
  <2>7. ASSUME NEW d \in Conns, CopyUpData(d) \/ Watcher(d) \/ Expires(d) \/ Environment(d)
        PROVE  MayEnd(c)
    <3>1. conn[d] \in Conn
      BY <2>1
    <3>2. CASE CopyUpData(d)
      BY <2>1, <3>1, <3>2 DEF CopyUpData, Consumed, Handler, Ends, Conn
    <3>3. CASE Watcher(d)
      <4>1. conn'[d].up = conn[d].up /\ conn'[d].down = conn[d].down
        <5>1. CASE Handler(d, [conn[d] EXCEPT !.watcher = "ended", !.closed = TRUE,
                                              !.dest = "closed"])
          BY <2>1, <3>1, <5>1 DEF Handler, Conn
        <5>2. CASE Handler(d, [conn[d] EXCEPT !.watcher = "ended"])
          BY <2>1, <3>1, <5>2 DEF Handler, Conn
        <5> QED
          BY <3>3, <5>1, <5>2 DEF Watcher
      <4>2. \A e \in Conns \ {d} : conn'[e] = conn[e]
        BY <2>1, <3>3 DEF Watcher, Handler
      <4> QED
        BY <4>1, <4>2 DEF Ends
    <3>4. CASE Expires(d)
      BY <2>1, <3>1, <3>4 DEF Expires, Ends, Conn
    <3>5. CASE Environment(d)
      BY <2>1, <3>1, <3>5 DEF Environment, Arrives, Sends, Leaves, DestFinishes, Ends, Conn
    <3> QED
      BY <2>7, <3>2, <3>3, <3>4, <3>5
  <2> QED
    BY <2>2, <2>3, <2>4, <2>5, <2>6, <2>7 DEF Next, StopCalled
<1>2. [\A c \in Conns : Ends(c) => MayEnd(c)]_vars <=>
        [\A c \in Conns :
           \/ conn[c].up /\ ~conn'[c].up
           \/ conn[c].down /\ ~conn'[c].down
           => conn[c].client # "sends" \/ conn[c].dest # "open" \/ CtxDone]_vars
  BY DEF Ends, MayEnd
<1> QED
  BY <1>1, <1>2, Invariance, PTL DEF Spec, OnlyPeersEndRelays
------------------------------------------------------------------------------
\* Nobody waits for a client or a destination without end: until the relay begins, and in
\* the drain, the deadline of the connection is armed, whatever way the handler took there;
\* and in the relay the watcher waits for the server to stop, or has closed the connection
\* because it did.  What makes EstablishmentEnds and StopReturns possible (SetDeadline in
\* handleConnection and closeGracefully, the goroutine in relay; server.go:164-221, 508-521).
Timed(r) ==
  /\ r.at \in (Establishing \ {"begin"}) \cup {"drain"} => r.armed
  /\ r.at = "relay" => r.watcher = "waits" \/ (CtxDone /\ r.closed)

EveryWaitIsTimed == \A c \in Conns : Timed(conn[c])

\* Records on which the deadline is armed, outside the relay.
Armed == {r \in Conn : r.armed /\ r.at # "relay"}

LEMMA ArmedStays ==
  /\ \A r \in Armed : Timed(r)
  /\ \A r \in Conn : CloseGracefully(r) \in Armed
  /\ \A r \in Armed, code \in {"failure", "success"} : SendReply(r, code) \in Armed
  /\ \A r \in Armed, a \in Establishing \cup Closing : [r EXCEPT !.at = a] \in Armed
<1>1. \A r \in Armed : Timed(r)
  BY DEF Armed, Timed
<1>2. ASSUME NEW r \in Conn
      PROVE  CloseGracefully(r) \in Armed
  BY DEF CloseGracefully, Armed, Conn, Closing
<1>3. ASSUME NEW r \in Armed, NEW code \in {"failure", "success"}
      PROVE  SendReply(r, code) \in Armed
  BY DEF SendReply, Armed, Conn
<1>4. ASSUME NEW r \in Armed, NEW a \in Establishing \cup Closing
      PROVE  [r EXCEPT !.at = a] \in Armed
  BY DEF Armed, Conn, Establishing, Closing
<1> QED
  BY <1>1, <1>2, <1>3, <1>4

\* A handler that has begun to talk to its client is armed, and so is what it has read.
LEMMA TalkingIsArmed ==
  ASSUME IInv, EveryWaitIsTimed, NEW c \in Conns,
         conn[c].at \in (Establishing \ {"begin"}) \cup {"drain"}
  PROVE  /\ conn[c] \in Armed
         /\ conn[c].unread > 0 => Consumed(c) \in Armed
<1>1. conn[c] \in Conn /\ Timed(conn[c])
  BY DEF IInv, TypeInv, EveryWaitIsTimed
<1>2. conn[c] \in Armed
  BY <1>1 DEF Timed, Armed, Establishing
<1>3. ASSUME conn[c].unread > 0
      PROVE  Consumed(c) \in Armed
  BY <1>1, <1>2, <1>3, ConsumedIsUnread DEF Armed, Conn
<1> QED
  BY <1>2, <1>3

\* A step changes one connection.
LEMMA OneIsTimed ==
  ASSUME IInv, EveryWaitIsTimed, NEW c \in Conns, NEW r, Timed(r),
         conn' = [conn EXCEPT ![c] = r], stop' = stop
  PROVE  EveryWaitIsTimed'
<1>1. CtxDone' <=> CtxDone
  BY DEF CtxDone
<1>2. conn'[c] = r /\ \A d \in Conns \ {c} : conn'[d] = conn[d]
  BY DEF IInv, TypeInv
<1> SUFFICES ASSUME NEW d \in Conns PROVE Timed(conn[d])'
  BY DEF EveryWaitIsTimed
<1>3. CASE d = c
  BY <1>1, <1>2, <1>3 DEF Timed
<1>4. CASE d # c
  <2>1. conn'[d] = conn[d] /\ Timed(conn[d])
    BY <1>2, <1>4 DEF EveryWaitIsTimed
  <2> QED
    BY <1>1, <2>1 DEF Timed
<1> QED
  BY <1>3, <1>4

\* The handler: its deadline is armed first, and lifted only where the watcher begins.
LEMMA HandlerIsTimed ==
  ASSUME IInv, EveryWaitIsTimed, NEW c \in Conns, Handles(c)
  PROVE  EveryWaitIsTimed'
<1>1. conn[c] \in Conn /\ Timed(conn[c]) /\ conn \in [Conns -> Conn]
  BY DEF IInv, TypeInv, EveryWaitIsTimed
<1>2. ASSUME NEW r \in Armed, Handler(c, r)
      PROVE  EveryWaitIsTimed'
  BY <1>2, ArmedStays, OneIsTimed DEF Handler
<1>3. ASSUME NEW r \in Conn, Handler(c, CloseGracefully(r))
      PROVE  EveryWaitIsTimed'
  BY <1>2, <1>3, ArmedStays
<1>4. \A r \in Armed : r \in Conn
  BY DEF Armed
<1>5. CASE Begin(c)
  <2>1. [conn[c] EXCEPT !.at = "handshake", !.armed = TRUE] \in Armed
    BY <1>1 DEF Armed, Conn, Establishing
  <2> QED
    BY <1>2, <1>5, <2>1 DEF Begin
<1>6. CASE Handshake(c)
  <2>1. conn[c] \in Armed /\ (Reads(c) => Consumed(c) \in Armed)
    BY <1>6, TalkingIsArmed DEF Handshake, Establishing, Reads
  <2> QED
    BY <1>2, <1>3, <1>4, <1>6, <2>1, ArmedStays DEF Handshake, Establishing
<1>7. CASE Authenticate(c)
  <2>1. conn[c] \in Armed /\ (Reads(c) => Consumed(c) \in Armed)
    BY <1>7, TalkingIsArmed DEF Authenticate, Establishing, Reads
  <2> QED
    BY <1>2, <1>3, <1>4, <1>7, <2>1, ArmedStays DEF Authenticate, Establishing
<1>8. CASE Request(c)
  <2>1. conn[c] \in Armed /\ (Reads(c) => Consumed(c) \in Armed)
    BY <1>8, TalkingIsArmed DEF Request, Establishing, Reads
  <2>2. CASE Reads(c) /\ Handler(c, [Consumed(c) EXCEPT !.at = "address", !.reply = "owed"])
    <3>1. [Consumed(c) EXCEPT !.at = "address", !.reply = "owed"] \in Armed
      BY <2>1, <2>2 DEF Armed, Conn, Establishing
    <3> QED
      BY <1>2, <2>2, <3>1
  <2> QED
    BY <1>3, <1>4, <1>8, <2>1, <2>2, ArmedStays DEF Request
<1>9. CASE ReadAddress(c)
  <2>1. conn[c] \in Armed /\ (Reads(c) => Consumed(c) \in Armed)
    BY <1>9, TalkingIsArmed DEF ReadAddress, Establishing, Reads
  <2> QED
    BY <1>2, <1>3, <1>4, <1>9, <2>1, ArmedStays DEF ReadAddress, Establishing
<1>10. CASE Dial(c)
  <2>1. conn[c] \in Armed
    BY <1>10, TalkingIsArmed DEF Dial, Establishing
  <2>2. [conn[c] EXCEPT !.at = "reply", !.dest = "open"] \in Armed
    BY <2>1 DEF Armed, Conn, Establishing
  <2> QED
    BY <1>2, <1>3, <1>4, <1>10, <2>1, <2>2, ArmedStays DEF Dial
<1>11. CASE SendSuccess(c)
  <2>1. conn[c] \in Armed
    BY <1>11, TalkingIsArmed DEF SendSuccess, Establishing
  <2>2. [conn[c] EXCEPT !.reply = "lost", !.dest = "closed"] \in Conn
    BY <1>1 DEF Conn
  <2> QED
    BY <1>2, <1>3, <1>11, <2>1, <2>2, ArmedStays DEF SendSuccess, Establishing
<1>12. CASE Lift(c)
  <2> DEFINE r == [conn[c] EXCEPT !.at = "relay", !.armed = FALSE, !.expired = FALSE,
                                  !.up = TRUE, !.down = TRUE, !.watcher = "waits"]
  <2>1. r.at = "relay" /\ r.watcher = "waits"
    BY <1>1 DEF Conn
  <2>2. Timed(r)
    BY <2>1 DEF Timed, Establishing
  <2> QED
    BY <1>12, <2>2, OneIsTimed DEF Lift, Handler
<1>13. CASE RelayReturns(c)
  <2>1. [conn[c] EXCEPT !.dest = "closed"] \in Conn
    BY <1>1 DEF Conn
  <2> QED
    BY <1>3, <1>13, <2>1 DEF RelayReturns
<1>14. CASE DrainReads(c) \/ DrainEnds(c)
  <2>1. conn[c] \in Armed
    BY <1>14, TalkingIsArmed DEF DrainReads, DrainEnds
  <2>2. 0 \in 0 .. MaxUnread
    BY Socks5Assumption
  <2>3. [conn[c] EXCEPT !.unread = 0] \in Armed
    BY <2>1, <2>2 DEF Armed, Conn
  <2> QED
    BY <1>2, <1>14, <2>1, <2>3, ArmedStays DEF DrainReads, DrainEnds, Closing
<1>15. CASE Closes(c)
  <2>1. /\ conn'[c].at = "ended" /\ stop' = stop
        /\ \A d \in Conns \ {c} : conn'[d] = conn[d]
    BY <1>1, <1>15 DEF Closes, Conn
  <2>2. \A d \in Conns \ {c} : Timed(conn[d])'
    BY <2>1 DEF EveryWaitIsTimed, Timed, CtxDone
  <2> QED
    BY <2>1, <2>2 DEF EveryWaitIsTimed, Timed, Establishing
<1> QED
  BY <1>5, <1>6, <1>7, <1>8, <1>9, <1>10, <1>11, <1>12, <1>13, <1>14, <1>15 DEF Handles

\* The goroutines beside the handler, the timer, the client and the destination.
LEMMA OthersAreTimed ==
  ASSUME IInv, EveryWaitIsTimed, NEW c \in Conns,
         \/ CopyUpData(c) \/ CopyUpEnds(c) \/ CopyDownEnds(c)
         \/ Watcher(c) \/ Expires(c) \/ Environment(c)
  PROVE  EveryWaitIsTimed'
<1>1. conn[c] \in Conn /\ Timed(conn[c]) /\ conn \in [Conns -> Conn]
  BY DEF IInv, TypeInv, EveryWaitIsTimed
<1>2. ASSUME NEW r, conn' = [conn EXCEPT ![c] = r], stop' = stop,
             r.at = conn[c].at, r.armed = conn[c].armed,
             (r.watcher = conn[c].watcher) \/ r.at # "relay" \/ (CtxDone /\ r.closed),
             conn[c].closed => r.closed
      PROVE  EveryWaitIsTimed'
  <2>1. Timed(r)
    BY <1>1, <1>2 DEF Timed
  <2> QED
    BY <1>2, <2>1, OneIsTimed
<1>3. CASE CopyUpData(c)
  BY <1>1, <1>2, <1>3 DEF CopyUpData, Handler, Consumed, Conn
<1>4. CASE CopyUpEnds(c)
  BY <1>1, <1>2, <1>4 DEF CopyUpEnds, Handler, Conn
<1>5. CASE CopyDownEnds(c)
  BY <1>1, <1>2, <1>5 DEF CopyDownEnds, Handler, Conn
<1>6. CASE Watcher(c)
  <2>1. CASE /\ CtxDone
             /\ Handler(c, [conn[c] EXCEPT !.watcher = "ended", !.closed = TRUE,
                                           !.dest = "closed"])
    BY <1>1, <1>2, <2>1 DEF Handler, Conn
  <2>2. CASE conn[c].at # "relay" /\ Handler(c, [conn[c] EXCEPT !.watcher = "ended"])
    BY <1>1, <1>2, <2>2 DEF Handler, Conn
  <2> QED
    BY <1>6, <2>1, <2>2 DEF Watcher
<1>7. CASE Expires(c)
  <2>1. conn' = [conn EXCEPT ![c] = [conn[c] EXCEPT !.expired = TRUE]] /\ stop' = stop
    BY <1>1, <1>7 DEF Expires
  <2> QED
    BY <1>1, <1>2, <2>1 DEF Conn
<1>8. CASE Arrives(c)
  <2> DEFINE r == [conn[c] EXCEPT !.at = "backlog"]
  <2>1. conn' = [conn EXCEPT ![c] = r] /\ stop' = stop /\ r.at = "backlog"
    BY <1>1, <1>8 DEF Arrives, Conn
  <2>2. Timed(r)
    BY <2>1 DEF Timed, Establishing
  <2> QED
    BY <2>1, <2>2, OneIsTimed
<1>9. CASE Sends(c)
  <2> DEFINE r == [conn[c] EXCEPT !.unread = conn[c].unread + 1,
                                  !.late = conn[c].late \/ DrainOver(conn[c])]
  <2>1. conn' = [conn EXCEPT ![c] = r] /\ stop' = stop
    BY <1>1, <1>9 DEF Sends
  <2> QED
    BY <1>1, <1>2, <2>1 DEF Conn
<1>10. CASE Leaves(c)
  <2>1. PICK s \in {"finished", "gone"} : conn' = [conn EXCEPT ![c].client = s]
    BY <1>10 DEF Leaves
  <2>2. conn' = [conn EXCEPT ![c] = [conn[c] EXCEPT !.client = s]] /\ stop' = stop
    BY <1>1, <1>10, <2>1 DEF Leaves
  <2> QED
    BY <1>1, <1>2, <2>2 DEF Conn
<1>11. CASE DestFinishes(c)
  <2>1. conn' = [conn EXCEPT ![c] = [conn[c] EXCEPT !.dest = "finished"]] /\ stop' = stop
    BY <1>1, <1>11 DEF DestFinishes
  <2> QED
    BY <1>1, <1>2, <2>1 DEF Conn
<1> QED
  BY <1>3, <1>4, <1>5, <1>6, <1>7, <1>8, <1>9, <1>10, <1>11 DEF Environment

\* Every wait for a peer is bounded by a deadline or by Stop, for every set of clients and
\* whatever they do (handleConnection, closeGracefully and relay).
THEOREM WaitsAreTimed == Spec => []EveryWaitIsTimed
<1>1. Init => EveryWaitIsTimed
  BY DEF Init, EveryWaitIsTimed, Timed, Establishing
<1>2. IInv /\ EveryWaitIsTimed /\ [Next]_vars => EveryWaitIsTimed'
  <2> SUFFICES ASSUME IInv, EveryWaitIsTimed, [Next]_vars PROVE EveryWaitIsTimed'
    OBVIOUS
  <2>0. conn \in [Conns -> Conn]
    BY DEF IInv, TypeInv
  <2>1. CASE \/ Start \/ LoopTop \/ AcceptTimeout \/ AcceptFails \/ UNCHANGED vars
             \/ StopCancel \/ StopReturn
    <3>1. conn' = conn /\ (CtxDone => CtxDone')
      BY <2>1 DEF Start, LoopTop, AcceptTimeout, AcceptFails, vars, StopCancel, StopReturn,
                  CtxDone
    <3> QED
      BY <3>1 DEF EveryWaitIsTimed, Timed
  <2>2. ASSUME NEW c \in Conns, Accept(c)
        PROVE  EveryWaitIsTimed'
    <3> DEFINE r == [conn[c] EXCEPT !.at = "begin"]
    <3>1. conn' = [conn EXCEPT ![c] = r] /\ stop' = stop /\ r.at = "begin"
      BY <2>0, <2>2 DEF Accept, Conn
    <3>2. Timed(r)
      BY <3>1 DEF Timed
    <3> QED
      BY <3>1, <3>2, OneIsTimed
  <2>3. CASE StopClose
    <3>1. CtxDone /\ CtxDone'
      BY <2>3 DEF StopClose, CtxDone
    <3>2. \A c \in Conns : conn'[c] = conn[c] \/ conn'[c].at = "refused"
      BY <2>0, <2>3 DEF StopClose, Conn
    <3> QED
      BY <3>1, <3>2 DEF EveryWaitIsTimed, Timed, Establishing
  <2>4. ASSUME NEW c \in Conns, Handles(c)
        PROVE  EveryWaitIsTimed'
    BY <2>4, HandlerIsTimed
  <2>5. ASSUME NEW c \in Conns, \/ CopyUpData(c) \/ CopyUpEnds(c) \/ CopyDownEnds(c)
                                \/ Watcher(c) \/ Expires(c) \/ Environment(c)
        PROVE  EveryWaitIsTimed'
    BY <2>5, OthersAreTimed
  <2> QED
    BY <2>1, <2>2, <2>3, <2>4, <2>5 DEF Next, AcceptLoop, StopCalled
<1> QED
  BY <1>1, <1>2, Invariance, PTL DEF Spec
==============================================================================
