# tun_with_lits: a TLA+ model of the VPN client

A verification development for the Go VPN client in this repository: TLA+
modules translated from the source, TLC configurations that model-check them on
small instances, and theorems that TLAPS proves for every instance. Paths below
are relative to the repository's root; `client.go:651` stands for line 651 of
`pkg/client/client.go`, and `main.go`, `reconnector.go`, `vpn_connector.go`,
`health_checker.go`, `server_selector.go`,
`connection_killer.go` and `config.go` likewise.

## 1. The system

`main` reads flags and a YAML file, makes one `Client`, and runs it in one of
two modes. In direct mode it connects to one link and waits for a signal. In
`--from-raw` mode it fetches a list of links, probes and orders the servers,
and gives them to a `VPNConnector`, which connects to the first that accepts
and fails over to the next when its `HealthChecker` says so; when the list is
used up, `main` stops the connector and a `Reconnector` fetches and tries again
with a growing backoff.

| Component | State it keeps | Operations | Interacts with |
|---|---|---|---|
| Supervisor (`main.go` 370-720) | `connector`, `monitorCtx`, the `sigterm` channel, the context of a reconnection | first search, its loop, the serving loop, full reconnection, status and refresh goroutines | selector (calls), connector (calls, `FatalError` channel), reconnector (callbacks), client |
| Reconnector (`reconnector.go`) | `attempts`, `lastBackoff`, `isRunning`, `stopCh`, `stoppedCh` under `mu` | `Start`, `Stop`, `Reset`, backoff with jitter | owner (two callbacks and a context) |
| VPNConnector (`vpn_connector.go`) | server list, `currentServerIndex`, `isFailingOver`, context, health checker, `fatalErrCh` | `ConnectWithFallback`, `performFailover`, `Stop` | client (Connect in a goroutine with a timeout, Disconnect), health checker (callback) |
| HealthChecker (`health_checker.go`) | `isHealthy`, consecutive failures, `stopChan` | ticking check, optional E2E check, `Stop` | connector (callback from its own goroutine) |
| Client (`client.go`) | `mu`, `isConnected`, xray instance, TUN, pipe goroutine with context and channel, exception route, local SOCKS5 server, metrics | `Connect`, `Disconnect` | operating system (routes, TUN), xray, SOCKS5 server, kill switch |
| Kill switch (`client.go` 1479-1713) | `killSwitchActive`; in the kernel: the chain, its jumps, its DROP | activate, deactivate | iptables, which may fail command by command; outlives the process |
| SOCKS5 server (`pkg/socks5/server.go`) | listener, context, wait group | accept, handshake, authenticate, request, relay, `Stop` | client, remote peers |
| Server selection (`server_selector.go`, `link_parser.go`) | per call: semaphore, wait group, a slice under a mutex | fetch, parse, probe concurrently, score, sort | network; what follows the merge of the configuration |
| Traffic metrics (`client.go` 773-800, 1169-1300) | `bytesRead`, the totals, gauges, `metricsServer` | sample, update, add up on Disconnect, serve, shut down | client, the kernel's counters, Prometheus |
| Connection killer (`connection_killer.go`) | REJECT rules in the kernel | kill with a timeout, remove the rule three seconds later | Disconnect; outlives it, and dies with the process |
| DNS protection, IPv6 routes (`client.go` 1011-1073, 1303-1445) | routes in the kernel | add with a fallback, remove | Connect and Disconnect |
| Configuration (`config.go`, `main.go` 58-377) | none | defaults, validation, flags over file, choice of mode | selector (timeout, concurrency), client |
| Split tunnelling (`split_tunnel_*.go`) | lists | a pure decision no code path calls | - |
| Logging, interfaces, mocks | files | - | - |

What is hard here, and what makes each part correct:

* **Client.** `Disconnect` frees `c.mu` before it takes anything down and works
  on whatever the fields hold by then; `Connect` calls it with `c.mu` freed and
  does not look again. Every step of `Connect` may fail half-way, `pipe.Copy` may
  hang, a late pipe sends on a later channel. Correct: nothing is held when
  disconnected, exactly one connection when connected, traffic is blocked in
  between, every call ends.
* **Kill switch.** A flag in memory stands for rules in the kernel; commands
  fail; the process may die. Correct: the flag says what the kernel does.
* **Failover.** Up to four goroutines (a checker in its callback, an abandoned
  `Connect`, `ConnectWithFallback`, `Stop`) on shared fields. Correct: the current server is always
  watched by one checker that can still act, a dead one is left, exhaustion is
  reported, every failover ends.
* **Reconnector.** Two counters in one variable, a `select` with several ready
  cases, channels closed and remade. Correct: one loop, no call over budget,
  waits in range, and `Stop` and the context take effect.
* **Supervisor.** Several goroutines receive from one signal channel; contexts
  are variables that are reassigned under goroutines that read them. Correct:
  fatal errors are handled, reconnections end, signals have an effect.
* **SOCKS5 server.** Handlers with phases and deadlines, relays without one, and a
  `Stop` that waits for all. Correct: no handler outlives its deadline, no relay
  dies of it, replies reach the client, `Stop` leaves nothing behind and returns.
* **Metrics.** Goroutines outlive the connection they were started for and look at
  fields that have changed; `Disconnect` may leave before it adds up. Correct: one
  server on the port, the endpoint comes back, no byte is counted twice.
* **Routes and rules.** The kernel keeps what a failed step, a dropped device or a dead
  process has left. Correct: connected means routed, down means nothing is routed
  into a dead device, a REJECT rule goes away.
* **Configuration, selection.** A flag is known only by the value of its variable;
  probes finish in any order. Correct: what a flag said is used (but for
  its default value, which main cannot see), nothing invalid arrives (but for a port of the
  file), a selection is complete, sorted, and ends.

The full list of hazards, line by line, with the properties that cover each, is
in `PROJECT.json`.

## 2. Modules

| Module | Models | Composes |
|---|---|---|
| `Reconnector` | `Start`, `Stop`, `Reset`, backoff | - |
| `OrderedWalk` | what a connector promises to `main` | - |
| `Failover` | connector and health checkers | the Client as its mutex, `isConnected` and server; implements `OrderedWalk` |
| `TunnelClient` | `Connect`, `Disconnect`, kill switch, crash | - |
| `HostState` | the same calls as devices, routes and REJECT rules of the host; connection killer, direct mode's exit | - |
| `TrafficMetrics` | the same calls as counters, gauges and the metrics endpoint | - |
| `Supervisor` | `main` in `--from-raw` mode | Reconnector as its loop, Failover as two ways to run out of servers, TunnelClient as "output is blocked" |
| `AppConfig` | rules of every setting, defaults, validation, precedence, mode | - |
| `ServerSelector` | the parsers, both concurrent selections | - |
| `Startup` | `main` from its arguments to the ordered list of servers | extends `AppConfig` and `ServerSelector` |
| `Socks5Server` | accept loop, handlers, relays, `Stop` of `pkg/socks5` | - |
| `ReconnectorProofs`, `FailoverProofs`, `TunnelClientProofs`, `HostStateProofs`, `TrafficMetricsProofs`, `SupervisorProofs`, `StartupProofs`, `Socks5ServerProofs` | theorems | extend the module they are about |
| `MC...` | constants for TLC | extend the module they check |

`Connect` and `Disconnect` appear in three modules, each with the state that its
properties relate: `TunnelClient` has calls that overlap and everything a call holds,
`HostState` what the kernel keeps after a call, `TrafficMetrics` what the goroutines
of earlier connections do. The latter two have one caller.

Each module's header says what its numbers stand for. Definitions named as in
the source model the function of that name; otherwise `PROJECT.json` "map" gives
the lines. An operator whose comment begins with `Faulty:` is not part of the
model: it is the bug against which a property is tested, and `PROJECT.json`
"mutants" says which property must catch it.

**Reconnector.** One action per stretch of code between two points where another
goroutine gets in (lock, select, callback). Both increments of `attempts` are
there, the jitter is a choice from the range the code's formula yields, and
`SetDefaults` is applied to every raw configuration. A `Start` under a
cancelled context, two `Start`s racing, a `Stop` before `Start` (its close is
lost when `Start` makes a new channel) and the panic of a second close of
`stoppedCh` are behaviours of the model.

**Failover.** Every server has a `Connect` goroutine and a checker with its
context, `stopChan`, counters and `sync.Once`. `CheckCanPass` is what a check
sees: the local proxy answers while xray runs, the E2E check needs the server
too. `FailoverReturn`, the deferred reset of `isFailingOver`, is part of the
step that decides to return: nothing blocks in between and a new checker needs
several ticks before it can call back. `Stop` reads `healthChecker` and
`cancelFunc` as one step.

**OrderedWalk.** A search that offers the servers of the list in order, each at most
once, to somebody who accepts or declines; it ends by serving, by an error or
as exhausted. `Failover` maps a server to "offered" once its `Connect` goroutine was
started, and reads the phase from `fatalErrCh`, `fallback`, `isFailingOver` and
whether somebody waits for a `Connect`. Its liveness, that a search ends, is part
of what `Failover` implements.

**TunnelClient.** `op[c]` is where goroutine `c` is in `Connect` or `Disconnect`.
A call of `Connect` has a number and everything it makes carries it, so that "the
instance of the old connection" can be told from the new one. `Disconnect`
is seven actions, cut where `c.mu` is free. `SetupFails` covers the failing steps
of `Connect` together with what the code takes down for each. A TUN device that
`setupTunnel` drops without a `Close` is in `strayTuns` until its finalizer runs. A
failed `xInst.Start()` is the one error of `Connect` that is not followed by a
`Close` of the instance (`client.go:488-492`). What it leaves running is up to the library, so
the model has both outcomes, and `failedStarts` (history) names the instances.
`killChain` counts the jumps to the chain and says whether it ends in DROP: `-A`
adds a jump, `-D` removes one, and each command may fail by itself and leaves what
was there. No device is 0, also where a failed `setupTunnel` leaves a nil
`*tun.Interface` in `c.tunnel` (`client.go:511`), which a late Disconnect of an overlapping
call would take for a device; removing the exception route is taken to succeed.
`Crash` is the end of the process and its next start.

**Supervisor.** `attempt` is the place in `createConnector` or in the wait before
it. Connectors, monitor goroutines, contexts and reconnections are numbered by
connector. `MonitorWaits` reads the variable `monitorCtx` as it is then, because
the closure does. Returning from `main` ends everything: the deferred calls have
no effect the model could see.

**HostState.** A device has the number of its `Connect`. The kernel takes one route to
a destination, so what an earlier step has left makes a later one fail: that
is how a half-added pair of IPv6 routes meets its fallback, and a device that
`setupTunnel` dropped (`strays`) meets the next `Connect` until its finalizer
runs. A `ConnectionKiller` is a goroutine that may add its rule after `Disconnect` has
given it up, and the one that removes the rule takes away any rule of the same server.
`Exit` is `os.Exit` of direct mode, `Crash` any other end of the process. A `Connect` that
fails before its exception route (`client.go:479-492`) changes nothing of the host's
routes and is not represented.

**TrafficMetrics.** Every call of `startMetricsUpdate` makes a server, a goroutine
that serves whatever `c.metricsServer` is when it runs, and an updater that
never ends; the updater looks at `isConnected` and sets the gauge in two steps. `rx` is
the kernel's counter of the device. Bytes written are treated as bytes
read are. `ListenAndServe` is one step, and the metrics port is configured.
`sampled` and `unsampled` are history: whether `bytesRead` belongs to the current
connection when it is used. `panicked` is the serving goroutine that finds nil.

**AppConfig, ServerSelector, Startup.** A setting is a record of rules: its default, what a
flag may set, what the file's defaults replace, what `Validate` lets through,
what the merge looks at. A value is one of the seven kinds that these rules tell
apart. A line of a list is what the parser and the selector ask of it; a
score or a latency is a rank. `Startup` gives the merged `max_servers` to the semaphore
and the merged timeout to the fetch. `Parsed` says which sequence of lines the parser
returns instead of computing it line by line, so that it can be reasoned about.

**Socks5Server.** `conn[c]` is a connection with its handler (`at`), client and
destination. Input is counted in the units the server parses; what a unit says is
chosen when it is read, and a unit rejected half-way stays unread. `expired` is the
deadline of the connection, in the establishment phase and again in the drain; a
read or write fails once it is set. A reply is `owed` from a parsed CONNECT on and
`lost` if its write comes after the deadline: so it is for a dial that times out,
whose own timeout has the same length and begins later (`server.go:374`). The
failure codes are one value and the octets of a reply are left out. The copying
goroutines, the watcher and the handler are interleaved; the watcher may
outlive the handler.

## 3. Runs

| Run | Instance | Shows |
|---|---|---|
| `reconnector` | 2 starters, 1 stopper, 5 configurations, `Reset` | one loop (`OneLoop`), no call beyond the budget (`AttemptBudget`), waits in range (`BackoffInRange`), one late call after `Stop` at most (`AtMostOneLateCall`), a told loop ends (`LoopEndsWhenTold`) |
| `failover` | 3 servers, 2 failed checks before a failover | the connector implements `OrderedWalk` (`ImplementsOrderedWalk`), no monitoring gap (`MonitoredUnlessLast`), connector and client agree (`AgreeUnlessAbandoned`), exhaustion is real (`FatalMeansExhausted`), a dead server is left (`DeadServerIsLeft`) |
| `client` | 1 goroutine with 2 servers, 3 Connects, failing iptables, 1 crash; a second goroutine that comes in while a call is under way | what is down holds nothing, failed Starts, dropped devices and pipes given up aside (`IdleHoldsNothing`), a reconnection leaves one connection (`ConnectedMeansUp`), no unprotected gap (`KillSwitchGap`), flag and firewall agree (`FlagMatchesRules`), Disconnect waits for its pipe (`DisconnectWaits`), every call ends (`OperationsEnd`) |
| `supervisor` | 2 URLs, up to 3 connectors, kill switch on | fatal errors handled (`FatalIsHandled`), a cancelled search connects nothing (`CancelledMeansNoConnection`), repeated signals stop the program (`PatientOperatorStops`), reconnections that are not blocked end (`ReconnectionEnds`) |
| `socks5` | a client that does anything and one that stays silent, `Stop` at any time | `Stop` leaves nothing behind (`StopWaitsForAll`) and returns (`StopReturns`), handlers are bounded (`EstablishmentEnds`), the timeout ends no relay (`OnlyPeersEndRelays`), requests are answered (`EveryRequestAnswered`) and replies survive the close (`ReplySurvivesClose`) |
| `metrics` | 2 connections, 3 servers made, errors in `Disconnect` | one server on the port (`OnlyCurrentListens`), which comes back (`EndpointComesBack`), and totals that count no byte twice (`NoByteTwice`) |
| `host` | 2 servers, 3 Connects, IPv6 and DNS protection, 1 crash, removals that fail | connected is routed (`ConnectedIsRouted`), down routes nothing (`DownRoutesNothing`), REJECT rules go (`RejectGoes`) |
| `startup` | every setting by flag and file, every combination of sources, lists of up to 3 links | who decides a setting, two exceptions named (`SettingDecided`), exact selections (`SelectionIsExact`) that never panic (`NothingPanics`) and end (`SelectionEnds`) |

Four runs more, each on one property that a comment or a document states and that
the code does not keep; `PROJECT.json` "findings" quotes the line:

| Run | What TLC shows |
|---|---|
| `failover_last` | a dead last server is not reported and not watched any more |
| `client_restart` | the chain outlives the process, the flag does not: connected, and still blocked |
| `supervisor_signal` | a signal taken by a monitor or by the goroutine of a finished reconnection is lost |
| `host_exit` | direct mode exits before the REJECT rule is removed, which then stays |

**Bounds.** `CounterCap` of `Reconnector` saturates `attempts` above every `MaxRetries`; a
larger value is treated by the code in the same way. Three servers let a failover fail,
go on and be exhausted; two failed checks let a failure be reset in between (the
code uses 3). `MaxCalls` allows a first connection, a reconnection and one
after it: what a stale step can hit is the next connection and the one after
that. `MCOverlap` of `MCTunnelClient` makes the second goroutine come in only during a call
of the first, and lets behaviours with overlapping calls have one server, two
Connects, no crash and no failing command; behaviours without overlap have
all of them. `MaxCrashes` is one: a second restart finds what the first found.
`MaxConnectors` allows two full reconnections, so that goroutines of the first
are still around in the second; an exhaustion beyond the bound does not happen.
`MaxUnread` is two: a rejected request header with its address still unread, and
payload behind it. The connections of `Socks5Server` meet only in the accept loop and
the wait group, so one that does anything and one that stalls show what the other
can do to `Stop`. Two connections and two bytes in `TrafficMetrics` let a count be left over,
doubled and replaced, and a stale goroutine meet the next server (three connections
were also run: nothing new); in `MCTrafficMetrics` `focus` lets a behaviour run either
the goroutines that serve or those that count, which share only the calls.
`MaxConnects` of `HostState` is three: two killers of one server under way
together and a connection between them. Three links over one or two tokens make the
semaphore the limit, and two ranks make equal scores and unequal ones.
`MCStartup` varies settings and sources separately: the rules of a setting do not look
at the source. The invariants that are proved hold without these bounds.

**Fairness.** Goroutines inside a call are scheduled (weak fairness on their
steps); `c.mu` is handed on (strong fairness on the steps of a call that need it:
Go's mutex is starvation free); timers of `Disconnect` and of the backoff fire.
No fairness for the 30 s timeout, for `pipe.Copy`, for a server that dies, for
`Stop`, for signals and for crashes. `Supervisor` assumes of the network
that a living list server answers with a usable list some time (strong fairness on
`FetchLinks`, which needs the kill switch open) and that one server accepts
(strong fairness on `ConnectOk`). In `Socks5Server` goroutines run and deadlines
fire (strong fairness on `Expires`, because a client that keeps sending only delays the
drain between its sends); clients, destinations and the call of `Stop`
owe nothing. In `TrafficMetrics` the serving goroutines run, in `HostState` the goroutine
that removes a rule wakes up while its process is there, in `Startup` the selecting
goroutines run and every probe has a timeout. Deadlock is checked for `TunnelClient`; the
other systems may stop: all loops ended, the process has, or the bound is reached.

**What the properties leave out, and what the code does there.**

* `IdleHoldsNothing`, `ConnectedMeansUp`, `KillSwitchGap` and `DisconnectWaits` are for
  calls that do not overlap (`overlapped` is history). The program overlaps calls when
  a timed-out `Connect` goes on (`vpn_connector.go:108`). A `Connect` that ends between the
  two halves of a `Disconnect` then lifts the kill switch, and the VPN goes down
  unprotected.
* `IdleHoldsNothing` and `ConnectedMeansUp` leave out the instances of `failedStarts`: a
  `Connect` whose `xInst.Start()` fails does not close the instance, against
  `CHANGELOG.md:280` ("Proper cleanup of all resources (TUN, routes, Xray instance) on
  any failure"). In the model such an instance may go on for ever. It may hold the local
  port too, which would make later Connects fail; here any step may fail anyway.
* They leave out the TUN devices `setupTunnel` dropped (`strayTuns`) too, which only their
  finalizer closes, and `IdleHoldsNothing` the states after a crash.
* `DisconnectWaits` and part of `IdleHoldsNothing` exclude a pipe that outlived the start
  of a later one (`straggler`): it sends on the channel of the next connection,
  whose `Disconnect` then returns early (`client.go:558`).
* A kill switch command that has failed (`ruleFailed`) switches `KillSwitchGap` and
  `FlagMatchesRules` off: the code accepts partial protection (`client.go:1496`).
* `ReconnectionEnds` is for reconnections that find output open, which with the
  kill switch on means that an iptables command of the failover has failed. With the
  chain in place every fetch is dropped, the reconnection never ends, and only a
  connection would lift the chain (`main.go:490`).
* `AgreeUnlessAbandoned` says nothing once a `Connect` has been abandoned: from then on the
  connector may believe in another server than the client has (`vpn_connector.go:108`).
* `AttemptBudget` is an upper bound. `attempts` is counted in `nextBackoff` and again at
  `reconnector.go:174`, so `MaxRetries` = 3 gives two calls. `Reset` is in the model, and
  nothing in the program calls it.
* `NoByteTwice` holds when `bytesRead` is used as a sample of the current connection.
  Before its first sample a new connection shows the bytes of the one before, which
  are in the total already, and adds them again if it ends so soon.
* `EndpointComesBack` excuses the panic of a serving goroutine that runs after
  `stopMetricsUpdate` (`client.go:1205`).
* After the library has added one of two IPv6 routes and failed, its fallback meets
  that route and fails too: the `Connect` ends, against `client.go:1001`.
* `SettingDecided` names two exceptions: a flag given with its default value loses to the
  file, against `main.go:55` ("CLI arguments override config file values"), and the file's
  `metrics_port` may be a number that is no port, because nothing validates it. No property is
  about a link of the command line, which loses to a list of the file. The
  file's `min_backoff` and `max_backoff` are never parsed. A negative timeout passes and
  fetches nothing.
* `SelectionIsExact` does not say how many servers are probed. All are: `max_servers` is the
  number of probes at a time, as `docs/en/configuration/CLI_FLAGS.md:652` has it, where
  `main.go:30`, `config.yaml.example:57`, `docs/en/features/PERIODIC_REFRESH.md:48` and `:69`
  and `CLI_FLAGS.md:99` call it the number of servers that are checked.

## 4. Proofs

Every theorem is for all values of the constants: any set of goroutines, servers,
connections, lists and configurations, any number of calls, retries and crashes. The
assumptions are those the modules name (`ConfigAssumption`, `FailoverAssumption`, `ClientAssumption`,
...): that bounds are numbers and that constant sets are what they stand for. Each proofs module
begins with its inductive invariant `IInv`, the type invariant and named conjuncts; a lemma per
action or per conjunct shows that a step preserves it, and the theorems follow. TLC has
checked each `IInv` on the instance of the run before it was proved. The theorems are about
`Spec` of the component; a run whose specification is narrower (`MCSpec`, to keep the
instance small) checks a part of what is proved.

**`ReconnectorProofs`** (`TypeCorrect`, `SingleLoop`, `RetriesBounded`,
`StopTakesEffect`, `WaitInRange`, `PanicNeedsSecondLoop`). The budget is not inductive by itself: `BudgetInv`
relates the number of calls to `attempts`, which is incremented before the call and
after it, at each place of the loop. `WaitInRange` is the arithmetic of
`nextBackoff`: what is multiplied by the factor before the jitter takes its
eighth away is large enough for the next time (`BaseAboveMin`, `FloorSound`, `RangeStep`).
`PanicNeedsSecondLoop` says how far the single `stoppedCh` carries: it is closed
exactly when some `Start` has run the loop to its end, `Stop` returns only then, and
the process panics only when two have. `ResultInv` tells those from a rejected `Start`.

**`FailoverProofs`** (`TypeCorrect`, `CurrentIsMonitored`, `ConnectorAgrees`,
`ExhaustionIsReal`, `WalksInOrder`, `EachServerIsOfferedOnce`, `SearchesDoNotOverlap`,
`MutexHeldByConnect`). `FailingInv`: `isFailingOver` stands for exactly one
checker inside `performFailover`. `OnceInv`: every checker but the current server's has
used its `sync.Once`, so a stale one cannot call back. `OfferedInv`: the servers that
were offered are those up to the place of the search. `AgreeInv`: as long as no
`Connect` is abandoned, one that runs is waited for, and the Client is what the connector
believes. `WalksInOrder` is the safety part of the refinement: initial states are initial
states of `OrderedWalk` and each action is the step of the search it stands for or
leaves the search alone. `EachServerIsOfferedOnce` says the same of the detailed
state, of each single `Connect`: `StartsAreNext` shows that the actions that start one
start the server after `Reached`. `MutexHeldByConnect` is inductive with it, because a
server whose `Connect` is started has none that could hold `c.mu`. That a search
ends (`SearchEnds`) is the liveness part, which `ImplementsOrderedWalk` has TLC check.

**`TunnelClientProofs`**:

* `TypeCorrect`, which here carries two facts about the code: `Disconnect` never
  waits on a channel that is not there, and no route is added for an unresolved
  server. It needs `CallInv` (a `Connect` has a number and a server, and past
  `createXrayProxy` an address is known) and `ChannelInv` (a connected client and a
  `Disconnect` that found one have a channel and a context).
* `FlagCorrect`, that is `FlagMatchesRules`: inductive with `FlagInv`, which gives the
  exact chain for each value of the flag and holds however calls overlap.
* `GapClosed`, that is `KillSwitchGap`: `GapInv` says that the flag is set from the
  first step of `Disconnect` on and stays until `ConnectDone`. That needs
  `AloneInv`, at most one call under way unless `overlapped` says otherwise,
  because another call's `ConnectDone` would take the flag away in between.
* `NothingHeldWhenIdle` and `UpWhenConnected`, that is `IdleHoldsNothing` and
  `ConnectedMeansUp`: `SeqInv` says for each place of a call that is alone what the Client
  and the operating system hold there, between `Down` (nothing) and `Up` (one instance, one device, one
  route, one channel, all of one `Connect`). What is said of running instances leaves
  `failedStarts` out, as the two properties do, and dropped devices are in a set of their
  own; both theorems are for calls that do not overlap.
* `AnsweredAfterEnd`, that is `DisconnectWaits`: `PipeInv`, with `FreshInv` for the
  numbers of calls, says that only the pipe of the current channel can be running, and
  that it has not sent yet.
* `MuIsReleased` and `ContextIsItsOwn` need no exclusion of calls that overlap: `c.mu` is
  locked exactly while one `Connect` is between its lock and its unlock, and a connected
  client has the context and the channel of one `Connect`, the context not cancelled.
  `CancelInv` rests on `FreshInv`: a `Disconnect` cancels the current context in the
  section that clears `isConnected`, never one a call under way will install.

**`HostStateProofs`** (`TypeCorrect`, `RoutedWhenConnected`, `NothingRoutedWhenDown`,
`RulesAreOwned`). `DeviceInv` says which devices are open at each place of a call,
`RoutesInv` what the call has routed so far; a device that closes takes along only its own
routes (`CloseOpen`). `RulesAreOwned` is the safety core of `RejectGoes`: a killer may remove the
rule of another killer of the same server, so what is invariant is a count,
`CountInv`: a server has as many rules as it has removers still to come or lost with their process.

**`SupervisorProofs`** (`TypeCorrect`, `FatalReachesMain`, `CancelledConnectsNot`,
`SignalsUseUpGoroutines`).
`CurrentInv` and `StoppedInv`: the closure's variables belong to the connector that was
made last, and every earlier one is stopped. `FatalReachesMain` follows, the
safety core of `FatalIsHandled`: a connector whose fatal error was not taken is
the one `main` listens to. `LateInv` is what a late attempt still has before it: the look at a
context that stays cancelled. `SignalsUseUpGoroutines`: a signal that `main` does not
take ends a monitor or a reconnection's goroutine for good, so no more are lost than
there are such goroutines.

**`TrafficMetricsProofs`** (`TypeCorrect`, `CurrentListens`, `BytesCountedOnce`, `EndpointIsOwned`),
with the serving goroutines and the counters interleaved, which the run keeps apart.
`EndpointInv`: a goroutine holds `nil`, the current server or one that was shut down, and shutting
down is for ever. `BytesInv` bounds the total, the gauge and the sum a sample would make by what the
kernel has counted, with `Live` for the connection that is not over. `EndpointIsOwned`: the
current server listens, or the goroutine that will make it listen has yet to run.

**`StartupProofs`** (`TypeCorrect`, `SettingsDecided`, `SelectionExact`,
`NoSelectionPanics`, `SelectionNotStuck`). `FileWithinFlag` is the fact about the tables of `AppConfig` that
the merge rests on: what of a setting the file may hold and `main` looks at, the flag
could have said, the metrics port excepted. `SettingsDecided` has that exception and the
one of a flag that repeats its default, each with the exact value `main` then goes on with.
`SelectionExact` is for lists of any length: `FoundInv`
says that the slice holds each server that answered once its goroutine appended it,
and `SortedExact` that the sort is a permutation that leaves no better server behind a worse one
(a surjection between sets of the same size repeats nothing). `SemInv` counts the tokens.
`LimitPositive`, from `SettingsDecided`, and `LinksInv`, that the parser passes only what the
selector can take apart, leave nothing that panics. `SelectionNotStuck`: the loop has a
token, or a goroutine is on its way, or all are done; `SemInv` with `MoveInv`.

**`Socks5ServerProofs`** (`TypeCorrect`, `StopWaits`, `ReplyNotReset`, `RequestsAnswered`,
`RelaysKept`, `WaitsAreTimed`). `WgInv`: the wait group is the number of handlers, plus one for the accept
loop; with `StopInv`, that nobody is left in the backlog of a closed listener, `StopWaits`
follows. `ReplyInv`, `RelayInv` and `DrainInv` hold of each connection by itself, which a step of
one handler changes only at its own; only `Stop` touches the others. `WaitsAreTimed`: every
wait for a peer in the establishment and in the drain has its deadline armed, and a relay
has the goroutine that closes it on `Stop`.

Only model-checked are the liveness properties (`LoopEndsWhenTold`, `DeadServerIsLeft`,
`OperationsEnd`, `FatalIsHandled`, `PatientOperatorStops`, `ReconnectionEnds`, `StopReturns`,
`EstablishmentEnds`, `EndpointComesBack`, `RejectGoes`, `SelectionEnds` and the liveness
of `OrderedWalk`), because the provers do not reach fairness. Every
invariant and action property of a passing run is a theorem. What most of the liveness
properties rest on is proved without fairness, as what holds in every state on the way:

| Liveness property | Proved safety core |
|---|---|
| `DeadServerIsLeft` | `CurrentIsMonitored` |
| liveness of `OrderedWalk` | `EachServerIsOfferedOnce`, `SearchesDoNotOverlap`, `MutexHeldByConnect` |
| `OperationsEnd` | `MuIsReleased` |
| `FatalIsHandled` | `FatalReachesMain` |
| `PatientOperatorStops` | `SignalsUseUpGoroutines` |
| `StopReturns`, `EstablishmentEnds` | `WaitsAreTimed` |
| `EndpointComesBack` | `EndpointIsOwned` |
| `RejectGoes` | `RulesAreOwned` |
| `SelectionEnds` | `SelectionNotStuck` |

`LoopEndsWhenTold` and `ReconnectionEnds` have none: their loops have a timer at every
wait, so each is always able to go on, and all they say is that it does. The theorems that
state no property of a run were checked by TLC on the instance of their
component's run before they were proved.

## 5. Not modelled

* The rules of the kill switch chain before its DROP, and the IPv6 chain beside
  the IPv4 one (the same code with another command). An ACCEPT of the chain precedes
  the connection killer's REJECT, which therefore has no effect while the chain is there.
* Split tunnelling: `setupSplitTunneling` and `ShouldRouteThroughVPN` have no
  caller in the program, so its section of the file is validated and then unused. So are
  `health_monitoring` and `tls_allow_insecure`.
* The configuration section of the local SOCKS5 server, whose settings are checked one by one
  by straight-line code.
* The duration gauge, which shows the time since an updater first saw a connection, and the
  informational gauges; status queries of `Client` and the discovery of the gateway.
* The weights of a score: an arithmetic formula over one server.
* Torn reads of unsynchronised fields; the interleavings around them are modelled.
* A keep-alive connection to the list server, which the chain would let pass: the
  server is taken to have closed it by the time of a reconnection.
* The periodic refresh as a loop, which only logs (its selection is in `ServerSelector`),
  logging, interfaces and the generated mocks.

## 6. Plan

The modules, runs and theorems planned for are there. What could follow:

1. `TunnelClient` for calls that overlap: who owns an xray instance or a TUN device then, as
   an invariant of its own instead of the exclusion by `overlapped`. `MuIsReleased`,
   `ContextIsItsOwn` and `FlagCorrect` already hold without it.
2. Variants for the liveness properties (what a step of a search or of a selection brings
   down), so that only the fairness argument is left to TLC.
3. Shorter proofs where one step was taken apart further than it needs.
