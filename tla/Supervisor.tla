------------------------------ MODULE Supervisor ------------------------------
(***************************************************************************)
(* The --from-raw mode of src/main.go: the search for a connector, the     *)
(* loop that waits for a termination signal or a fatal error of the        *)
(* connector, the full reconnection, and the goroutines around it that     *)
(* receive from the same signal channel.  Reconnector.Start is seen as its *)
(* loop (module Reconnector), a connector as the two ways its servers run  *)
(* out (module Failover), the Client as its kill switch (TunnelClient).    *)
(*                                                                         *)
(* Connectors are numbered in the order they connected.  The monitor       *)
(* goroutine, monitor context and reconnection that belong to a connector  *)
(* carry its number; 0 is none.                                            *)
(***************************************************************************)
EXTENDS Integers

CONSTANTS
  URLs,             \* length of rawURLs
  Unlimited,        \* reconnectMaxRetries is 0
  EnableKillSwitch, \* cfg.EnableKillSwitch
  MaxConnectors     \* bound: connectors that connect

ASSUME SupervisorAssumption ==
  /\ URLs \in Nat \ {0} /\ MaxConnectors \in Nat \ {0}
  /\ Unlimited \in BOOLEAN /\ EnableKillSwitch \in BOOLEAN

Connectors == 1 .. MaxConnectors

VARIABLES
  main,            \* where the main goroutine is
  attempt,         \* the call of createConnector it is in, or the wait before it
  connector,       \* main's variable connector: the one it listens to
  made,            \* connectors that have connected so far
  conn,            \* each connector
  stopped,         \* connectors main has stopped
  monitorCtx,      \* main's variables monitorCtx and monitorCancel
  cancelled,       \* monitor contexts that are cancelled
  monitor,         \* the goroutine that logs the status, one for each connector
  waiter,          \* reconnections whose goroutine still waits for a signal
  reconCancelled,  \* reconnections whose context is cancelled
  sigterm,         \* a signal is in the channel, which holds one
  blocked,         \* the kill switch drops the output of the process
  deadURLs         \* servers of the list that will never answer again

search   == <<main, attempt>>
current  == <<connector, made, conn, stopped>>
monitors == <<monitorCtx, cancelled, monitor>>
signals  == <<waiter, reconCancelled, sigterm>>
vars == <<search, current, monitors, signals, blocked, deadURLs>>
------------------------------------------------------------------------------
None == [pc |-> "none", url |-> 1, late |-> FALSE]

Init ==
  /\ main = "first"
  /\ attempt = [None EXCEPT !.pc = "fetch"]
  /\ connector = 0 /\ made = 0
  /\ conn = [k \in Connectors |-> "none"] /\ stopped = {}
  /\ monitorCtx = 0 /\ cancelled = {}
  /\ monitor = [k \in Connectors |-> [pc |-> "none", ctx |-> 0]]
  /\ waiter = {} /\ reconCancelled = {} /\ sigterm = FALSE
  /\ blocked = FALSE
  /\ deadURLs = {}

\* The context of createConnector: only that of a full reconnection is ever cancelled.
Cancelled == main = "reconnect" /\ connector \in reconCancelled

End ==
  /\ main' = "ended"
  /\ attempt' = None
------------------------------------------------------------------------------
(***************************************************************************)
(* createConnector, called directly or by Reconnector.Start.               *)
(***************************************************************************)
\* waitWithContext: the timer fires, even if the context is cancelled by then.
BackoffEnds ==
  /\ attempt.pc = "backoff"
  /\ attempt' = [pc |-> "fetch", url |-> 1, late |-> Cancelled]
  /\ UNCHANGED <<main, current, monitors, signals, blocked, deadURLs>>

\* The context ends the wait, and main returns.
BackoffCancelled ==
  /\ attempt.pc = "backoff" /\ Cancelled
  /\ End
  /\ UNCHANGED <<current, monitors, signals, blocked, deadURLs>>

\* Max retries exceeded: log.Fatalf.
GivesUp ==
  /\ attempt.pc = "backoff" /\ ~Unlimited
  /\ End
  /\ UNCHANGED <<current, monitors, signals, blocked, deadURLs>>

\* The attempt fails: the loop begins, goes on, or ends because of its context.
AttemptFails ==
  \/ /\ Cancelled
     /\ End
  \/ /\ ~Cancelled
     /\ attempt' = [None EXCEPT !.pc = "backoff"]
     /\ main' = IF main = "first" THEN "firstLoop" ELSE main

\* Faulty: the context is not looked at.
FetchBeginsUnchecked ==
  /\ attempt.pc = "fetch" /\ attempt.url <= URLs
  /\ attempt' = [attempt EXCEPT !.pc = "fetching"]
  /\ UNCHANGED <<main, current, monitors, signals, blocked, deadURLs>>

\* The head of the loop over rawURLs.
FetchBegins ==
  /\ attempt.pc = "fetch" /\ attempt.url <= URLs
  /\ \/ /\ ~Cancelled
        /\ attempt' = [attempt EXCEPT !.pc = "fetching"]
        /\ UNCHANGED main
     \/ /\ Cancelled
        /\ AttemptFails
  /\ UNCHANGED <<current, monitors, signals, blocked, deadURLs>>

\* All URLs failed.
NoLinks ==
  /\ attempt.pc = "fetch" /\ attempt.url > URLs
  /\ AttemptFails
  /\ UNCHANGED <<current, monitors, signals, blocked, deadURLs>>

\* Faulty: the first URL that fails ends the search.
FetchFailsEndsSearch ==
  /\ attempt.pc = "fetching"
  /\ AttemptFails
  /\ UNCHANGED <<current, monitors, signals, blocked, deadURLs>>

FetchFails ==
  /\ attempt.pc = "fetching"
  /\ attempt' = [attempt EXCEPT !.pc = "fetch", !.url = @ + 1]
  /\ UNCHANGED <<main, current, monitors, signals, blocked, deadURLs>>

\* An answer.  The chain of the kill switch lets DNS, the last server and established
\* connections through: a new one to the list server is dropped, and so are the probes of
\* the servers.  A list without a usable link or server ends the search and the attempt,
\* whatever URLs are left.
Answers == attempt.pc = "fetching" /\ attempt.url \notin deadURLs /\ ~blocked

FetchUseless ==
  /\ Answers
  /\ AttemptFails
  /\ UNCHANGED <<current, monitors, signals, blocked, deadURLs>>

FetchLinks ==
  /\ Answers
  /\ attempt' = [attempt EXCEPT !.pc = "connect"]
  /\ UNCHANGED <<main, current, monitors, signals, blocked, deadURLs>>

\* ConnectWithFallback fails on every server; its connector is stopped.
ConnectFails ==
  /\ attempt.pc = "connect"
  /\ AttemptFails
  /\ UNCHANGED <<current, monitors, signals, blocked, deadURLs>>

\* Faulty: the closure has a variable connector of its own.
NewCurrentShadowed == IF connector = 0 THEN made + 1 ELSE connector

NewCurrent == made + 1

\* ConnectWithFallback connects, which lifts the kill switch; the connector becomes
\* main's and gets a monitor context and goroutine, which logs before it waits.
ConnectOk ==
  /\ attempt.pc = "connect" /\ made < MaxConnectors
  /\ made' = made + 1
  /\ connector' = NewCurrent
  /\ conn' = [conn EXCEPT ![made + 1] = "up"]
  /\ monitorCtx' = made + 1
  /\ monitor' = [monitor EXCEPT ![made + 1] = [pc |-> "busy", ctx |-> 0]]
  /\ blocked' = FALSE
  /\ main' = "serve"
  /\ attempt' = None
  /\ UNCHANGED <<stopped, cancelled, signals, deadURLs>>

Search ==
  \/ BackoffEnds \/ BackoffCancelled \/ GivesUp \/ FetchBegins \/ NoLinks \/ FetchFails
  \/ FetchUseless \/ FetchLinks \/ ConnectFails \/ ConnectOk
------------------------------------------------------------------------------
(***************************************************************************)
(* The loop of main.  Returning from main ends the process: there is no    *)
(* Disconnect, and what the kill switch dropped stays dropped.             *)
(***************************************************************************)
TakeSignal ==
  /\ main = "serve" /\ sigterm
  /\ sigterm' = FALSE
  /\ End
  /\ UNCHANGED <<current, monitors, waiter, reconCancelled, blocked, deadURLs>>

\* ErrAllServersExhausted: stop the connector and its monitoring, then reconnect, with a
\* goroutine that waits for a signal.  The channel of a connector is read once.
TakeFatal ==
  /\ main = "serve" /\ conn[connector] = "exhausted" /\ connector \notin stopped
  /\ cancelled' = cancelled \cup {monitorCtx}
  /\ stopped' = stopped \cup {connector}
  /\ waiter' = waiter \cup {connector}
  /\ main' = "reconnect"
  /\ attempt' = [None EXCEPT !.pc = "backoff"]
  /\ UNCHANGED <<connector, made, conn, monitorCtx, monitor, reconCancelled, sigterm, blocked,
                 deadURLs>>
------------------------------------------------------------------------------
(***************************************************************************)
(* The goroutines that share the channel.                                  *)
(***************************************************************************)
\* Faulty: it waits for the next signal.
WaiterTakesSignalAgain(k) ==
  /\ k \in waiter /\ sigterm
  /\ sigterm' = FALSE
  /\ reconCancelled' = reconCancelled \cup {k}
  /\ UNCHANGED <<search, current, monitors, waiter, blocked, deadURLs>>

\* The goroutine of a reconnection, which may be over by then.
WaiterTakesSignal(k) ==
  /\ k \in waiter /\ sigterm
  /\ sigterm' = FALSE
  /\ waiter' = waiter \ {k}
  /\ reconCancelled' = reconCancelled \cup {k}
  /\ UNCHANGED <<search, current, monitors, blocked, deadURLs>>

MonitorTick(k) ==
  /\ monitor[k].pc = "wait"
  /\ monitor' = [monitor EXCEPT ![k].pc = "busy"]
  /\ UNCHANGED <<search, current, monitorCtx, cancelled, signals, blocked, deadURLs>>

\* LogConnectionStatus returns: it waits for c.mu, which a Connect may hold for as long as
\* it likes.  The select looks at what the variable monitorCtx holds now.
MonitorWaits(k) ==
  /\ monitor[k].pc = "busy"
  /\ monitor' = [monitor EXCEPT ![k] = [pc |-> "wait", ctx |-> monitorCtx]]
  /\ UNCHANGED <<search, current, monitorCtx, cancelled, signals, blocked, deadURLs>>

MonitorTakesSignal(k) ==
  /\ monitor[k].pc = "wait" /\ sigterm
  /\ sigterm' = FALSE
  /\ cancelled' = cancelled \cup {monitorCtx}
  /\ monitor' = [monitor EXCEPT ![k].pc = "ended"]
  /\ UNCHANGED <<search, current, monitorCtx, waiter, reconCancelled, blocked, deadURLs>>

MonitorCancelled(k) ==
  /\ monitor[k].pc = "wait" /\ monitor[k].ctx \in cancelled
  /\ monitor' = [monitor EXCEPT ![k].pc = "ended"]
  /\ UNCHANGED <<search, current, monitorCtx, cancelled, signals, blocked, deadURLs>>

Goroutine(k) ==
  \/ WaiterTakesSignal(k) \/ MonitorTick(k) \/ MonitorWaits(k) \/ MonitorTakesSignal(k)
  \/ MonitorCancelled(k)
------------------------------------------------------------------------------
(***************************************************************************)
(* The world.                                                              *)
(***************************************************************************)
\* A signal that finds the channel full is dropped.
Signal ==
  /\ ~sigterm
  /\ sigterm' = TRUE
  /\ UNCHANGED <<search, current, monitors, waiter, reconCancelled, blocked, deadURLs>>

\* A failover tries all servers that are left: Disconnect has activated the kill switch,
\* unless its iptables commands failed, and no Connect has lifted it.
Exhausted(k) ==
  /\ conn[k] = "up" /\ k \notin stopped /\ k < MaxConnectors
  /\ conn' = [conn EXCEPT ![k] = "exhausted"]
  /\ blocked' \in {FALSE, EnableKillSwitch}
  /\ UNCHANGED <<search, connector, made, stopped, monitors, signals, deadURLs>>

\* The last server of the list dies, and performFailover returns without a word.
DiesSilently(k) ==
  /\ conn[k] = "up" /\ k \notin stopped
  /\ conn' = [conn EXCEPT ![k] = "silent"]
  /\ UNCHANGED <<search, connector, made, stopped, monitors, signals, blocked, deadURLs>>

\* One list server is always left.
ListDies(u) ==
  /\ u \notin deadURLs /\ deadURLs \cup {u} # 1 .. URLs
  /\ deadURLs' = deadURLs \cup {u}
  /\ UNCHANGED <<search, current, monitors, signals, blocked>>

Next ==
  /\ main # "ended"
  /\ \/ Search \/ TakeSignal \/ TakeFatal \/ Signal
     \/ \E u \in 1 .. URLs : ListDies(u)
     \/ \E k \in Connectors : Goroutine(k) \/ Exhausted(k) \/ DiesSilently(k)

\* Goroutines are scheduled, and a signal that nobody else takes reaches one of them.
\* A reachable list server answers with servers some time, and one of them accepts.
Fairness ==
  /\ WF_vars(main # "ended" /\ Search)
  /\ SF_vars(main # "ended" /\ FetchLinks) /\ SF_vars(main # "ended" /\ ConnectOk)
  /\ WF_vars(TakeSignal) /\ WF_vars(TakeFatal)
  /\ \A k \in Connectors : /\ WF_vars(main # "ended" /\ WaiterTakesSignal(k))
                           /\ WF_vars(main # "ended" /\ MonitorWaits(k))

Spec == Init /\ [][Next]_vars /\ Fairness
------------------------------------------------------------------------------
(***************************************************************************)
(* Properties.                                                             *)
(***************************************************************************)
\* Every variable keeps its type.
TypeOK ==
  /\ main \in {"first", "firstLoop", "serve", "reconnect", "ended"}
  /\ attempt \in [pc : {"none", "backoff", "fetch", "fetching", "connect"},
                  url : 1 .. URLs + 1, late : BOOLEAN]
  /\ connector \in 0 .. MaxConnectors /\ made \in 0 .. MaxConnectors
  /\ conn \in [Connectors -> {"none", "up", "exhausted", "silent"}]
  /\ stopped \subseteq Connectors
  /\ monitorCtx \in 0 .. MaxConnectors /\ cancelled \subseteq Connectors
  /\ monitor \in [Connectors -> [pc : {"none", "busy", "wait", "ended"},
                                 ctx : 0 .. MaxConnectors]]
  /\ waiter \subseteq Connectors /\ reconCancelled \subseteq Connectors
  /\ sigterm \in BOOLEAN /\ blocked \in BOOLEAN
  /\ deadURLs \subseteq 1 .. URLs

\* A fatal error is handled by main or main ends: the channel main listens to is that of
\* the connector in use, after any number of reconnections.  The loop of main.
FatalIsHandled ==
  \A k \in Connectors : conn[k] = "exhausted" ~> k \in stopped \/ main = "ended"

\* No VPN connection comes from an attempt that began after the context of its
\* reconnection was cancelled.  createConnector's look at its context.
CancelledMeansNoConnection == [][ ConnectOk => ~attempt.late ]_vars

\* Whoever keeps sending signals ends the program, unless it has never reached a server:
\* each goroutine that takes a signal from main's channel does so at most once.
PatientOperatorStops ==
  []<>sigterm => <>(main = "ended") \/ <>[](main \in {"first", "firstLoop"})

\* A full reconnection comes back with a VPN connection, or main ends, as long as one of
\* the list's URLs answers, unless the chain of the kill switch drops the fetch: then only
\* a connection would lift it.  The fallback of createConnector.
ReconnectionEnds == main = "reconnect" /\ ~blocked ~> main \in {"serve", "ended"}

\* What CLI_FLAGS.md says of a termination signal, "at any time".
SignalStops == sigterm ~> main = "ended"
==============================================================================
