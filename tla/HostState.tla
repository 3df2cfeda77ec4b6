------------------------------- MODULE HostState -------------------------------
(***************************************************************************)
(* What Connect and Disconnect of src/pkg/client/client.go and the         *)
(* ConnectionKiller of connection_killer.go do to the operating system:    *)
(* TUN devices, the routes through them, the exception route to the        *)
(* server, and the REJECT rules that reset stale connections.  One         *)
(* goroutine calls (module TunnelClient has calls that overlap and the     *)
(* kill switch); a ConnectionKiller and the goroutine that removes its     *)
(* rule live on after the call that started them, and the process may end  *)
(* under all of them.                                                      *)
(*                                                                         *)
(* A TUN device, and the ConnectionKiller of its Disconnect, has the       *)
(* number of its Connect.                                                  *)
(***************************************************************************)
EXTENDS Integers

CONSTANTS
  Servers,             \* servers a link can name
  NoServer,            \* c.xSrvIP before the first link
  EnableIPv6,          \* cfg.EnableIPv6
  EnableDNSProtection, \* cfg.EnableDNSProtection
  RemovalMayFail,      \* iptables -D may fail: no -w, so another iptables is enough
  MaxConnects,         \* bound: calls of Connect in a behaviour
  MaxCrashes           \* bound: ends of the process without a Disconnect

ASSUME HostAssumption ==
  /\ NoServer \notin Servers
  /\ {EnableIPv6, EnableDNSProtection, RemovalMayFail} \subseteq BOOLEAN
  /\ MaxConnects \in Nat \ {0} /\ MaxCrashes \in Nat

Connects == 1 .. MaxConnects

Halves4 == {"0.0.0.0/1", "128.0.0.0/1"}   \* DefaultRoutesToTUN
Halves6 == {"::/1", "8000::/1"}           \* DefaultRoutesToTUNIPv6
\* DNSRoutesToTUN and DNSPortRoutesToTUN, one for each list.
DNSRoutes ==
  {"dns4", "0.0.0.0/0"} \cup (IF EnableIPv6 THEN {"dns6", "::/0"} ELSE {})
Destinations == Halves4 \cup Halves6 \cup DNSRoutes

VARIABLES
  direct,       \* the program was given a link: it connects once, and ends after Disconnect
  pc,           \* where the goroutine that connects and disconnects is
  connects, crashes,
  xSrvIP, tunnel,
  killer,       \* each ConnectionKiller: "none", "trying", "sleeping" once its rule is
                \* there, "over"
  \* the operating system
  devices,      \* open TUN devices
  routes,       \* routes to a destination through a device
  exceptions,   \* servers routed around the TUN
  rejects,      \* REJECT rules, by the killer that added each
  \* history
  strays,       \* devices setupTunnel dropped, until their finalizer runs
  serverOf,     \* the server of each call of Connect
  orphans       \* killers whose rule nobody will remove

os == <<devices, routes, exceptions, rejects>>
vars == <<direct, pc, connects, crashes, xSrvIP, tunnel, killer, os, strays, serverOf,
          orphans>>
------------------------------------------------------------------------------
Init ==
  /\ direct \in BOOLEAN
  /\ pc = "down" /\ connects = 0 /\ crashes = 0
  /\ xSrvIP = NoServer /\ tunnel = 0
  /\ killer = [k \in Connects |-> "none"]
  /\ devices = {} /\ routes = {} /\ exceptions = {} /\ rejects = {}
  /\ strays = {} /\ orphans = {}
  /\ serverOf = [k \in Connects |-> NoServer]

Goto(from, to) == pc = from /\ pc' = to

Through(dev, dsts) == {[dst |-> d, dev |-> dev] : d \in dsts}

\* The kernel has one route to a destination: adding a second fails.
Free(d) == \A r \in routes : r.dst # d

\* A TUN device that closes takes its routes with it.
Close(devs) ==
  /\ devices' = devices \ devs
  /\ routes' = {r \in routes : r.dev \notin devs}
------------------------------------------------------------------------------
(***************************************************************************)
(* Connect.                                                                *)
(***************************************************************************)
\* The exception route, after what an earlier run may have left of it.
ConnectRoute(s) ==
  /\ Goto("down", "tun")
  /\ connects < MaxConnects
  /\ connects' = connects + 1
  /\ xSrvIP' = s
  /\ serverOf' = [serverOf EXCEPT ![connects + 1] = s]
  /\ exceptions' = exceptions \cup {s}
  /\ UNCHANGED <<direct, crashes, tunnel, killer, devices, routes, rejects, strays, orphans>>

\* It cannot be added: Connect ends.
ConnectRouteFails(s) ==
  /\ pc = "down" /\ connects < MaxConnects
  /\ pc' = IF direct THEN "ended" ELSE "down"
  /\ connects' = connects + 1
  /\ xSrvIP' = s
  /\ serverOf' = [serverOf EXCEPT ![connects + 1] = s]
  /\ exceptions' = exceptions \ {s}
  /\ UNCHANGED <<direct, crashes, tunnel, killer, devices, routes, rejects, strays, orphans>>

\* The end of a Connect that has the exception route; in direct mode the program ends.
Failed ==
  /\ exceptions' = exceptions \ {xSrvIP}
  /\ pc' = IF direct THEN "ended" ELSE "down"
  /\ UNCHANGED <<direct, connects, crashes, xSrvIP, killer, rejects, serverOf, orphans>>

\* setupTunnel returns an error and drops its device without a Close.
Drop == Failed /\ tunnel' = 0 /\ strays' = strays \cup {connects}

\* tun.New fails, or the device comes up, or it does not.
MakeTun ==
  /\ pc = "tun"
  /\ \/ Failed /\ tunnel' = 0 /\ UNCHANGED <<devices, routes, strays>>
     \/ Drop /\ devices' = devices \cup {connects} /\ UNCHANGED routes
     \/ /\ pc' = "routes4"
        /\ devices' = devices \cup {connects}
        /\ UNCHANGED <<direct, connects, crashes, xSrvIP, tunnel, killer, routes, exceptions,
                       rejects, strays, serverOf, orphans>>

\* routes.Add of a list, which stops at the first route that cannot be added.
AddAll(dsts) ==
  /\ \A d \in dsts : Free(d)
  /\ routes' = routes \cup Through(connects, dsts)

AddSome(dsts) ==
  \E some \in (SUBSET dsts) \ {dsts} :
    /\ \A d \in some : Free(d)
    /\ routes' = routes \cup Through(connects, some)

AddRoutes4 ==
  /\ pc = "routes4"
  /\ \/ AddSome(Halves4) /\ Drop
     \/ /\ AddAll(Halves4)
        /\ pc' = IF EnableIPv6 THEN "routes6" ELSE "proxy"
        /\ tunnel' = IF EnableIPv6 THEN tunnel ELSE connects
        /\ UNCHANGED <<direct, connects, crashes, xSrvIP, killer, exceptions, rejects, strays,
                       serverOf, orphans>>
  /\ UNCHANGED devices

\* The library first; when it fails, what it has added so far stays for the fallback.
AddRoutes6 ==
  /\ pc = "routes6"
  /\ \/ AddAll(Halves6) /\ pc' = "proxy" /\ tunnel' = connects
     \/ AddSome(Halves6) /\ pc' = "system" /\ UNCHANGED tunnel
  /\ UNCHANGED <<direct, connects, crashes, xSrvIP, killer, devices, exceptions, rejects,
                 strays, serverOf, orphans>>

\* Faulty: an error of one route is forgotten when the next one can be added.
AddRoutes6SystemLast ==
  /\ pc = "system"
  /\ \E some \in SUBSET Halves6 :
       /\ \A d \in some : Free(d)
       /\ routes' = routes \cup Through(connects, some)
       /\ IF "8000::/1" \in some
          THEN /\ pc' = "proxy" /\ tunnel' = connects
               /\ UNCHANGED <<direct, connects, crashes, xSrvIP, killer, exceptions, rejects,
                              strays, serverOf, orphans>>
          ELSE Drop
  /\ UNCHANGED devices

\* addIPv6RoutesSystem tries every route, and one that is there already is an error too.
AddRoutes6System ==
  /\ pc = "system"
  /\ \E some \in SUBSET Halves6 :
       /\ \A d \in some : Free(d)
       /\ routes' = routes \cup Through(connects, some)
       /\ IF some = Halves6
          THEN /\ pc' = "proxy" /\ tunnel' = connects
               /\ UNCHANGED <<direct, connects, crashes, xSrvIP, killer, exceptions, rejects,
                              strays, serverOf, orphans>>
          ELSE Drop
  /\ UNCHANGED devices

\* Faulty: the device is left open.
ProxyFailsOpen ==
  /\ pc = "proxy"
  /\ Failed
  /\ UNCHANGED <<tunnel, devices, routes, strays>>

\* The SOCKS proxy does not come up: the device is closed.
ProxyFails ==
  /\ pc = "proxy"
  /\ Failed
  /\ Close({tunnel})
  /\ UNCHANGED <<tunnel, strays>>

\* addDNSRoutesThroughTUN adds one route after the other and ignores the errors.
ConnectDone ==
  /\ Goto("proxy", "up")
  /\ \E some \in SUBSET DNSRoutes :
       /\ some # {} => EnableDNSProtection
       /\ \A d \in some : Free(d)
       /\ routes' = routes \cup Through(tunnel, some)
  /\ UNCHANGED <<direct, connects, crashes, xSrvIP, tunnel, killer, devices, exceptions,
                 rejects, strays, serverOf, orphans>>

\* The finalizer of a dropped device closes it.
Finalize(d) ==
  /\ d \in strays
  /\ Close({d})
  /\ strays' = strays \ {d}
  /\ UNCHANGED <<direct, pc, connects, crashes, xSrvIP, tunnel, killer, exceptions, rejects,
                 serverOf, orphans>>
------------------------------------------------------------------------------
(***************************************************************************)
(* Disconnect and the ConnectionKiller.                                    *)
(***************************************************************************)
DisconnectKill ==
  /\ Goto("up", "kill")
  /\ killer' = [killer EXCEPT ![connects] = "trying"]
  /\ UNCHANGED <<direct, connects, crashes, xSrvIP, tunnel, os, strays, serverOf, orphans>>

\* ss and conntrack leave nothing behind; iptables -A adds the rule, or fails.
KillerRejects(k) ==
  /\ killer[k] = "trying"
  /\ killer' = [killer EXCEPT ![k] = "sleeping"]
  /\ rejects' = rejects \cup {k}
  /\ UNCHANGED <<direct, pc, connects, crashes, xSrvIP, tunnel, devices, routes, exceptions,
                 strays, serverOf, orphans>>

KillerFails(k) ==
  /\ killer[k] = "trying"
  /\ killer' = [killer EXCEPT ![k] = "over"]
  /\ UNCHANGED <<direct, pc, connects, crashes, xSrvIP, tunnel, os, strays, serverOf, orphans>>

\* Faulty: the rule that is deleted names no port and matches none.
RemoverMisses(k) ==
  /\ killer[k] = "sleeping"
  /\ killer' = [killer EXCEPT ![k] = "over"]
  /\ UNCHANGED <<direct, pc, connects, crashes, xSrvIP, tunnel, os, strays, serverOf, orphans>>

\* Three seconds later: iptables -D takes away one rule of that server, whoever added it.
RemoverRuns(k) ==
  /\ killer[k] = "sleeping"
  /\ killer' = [killer EXCEPT ![k] = "over"]
  /\ \/ /\ \E j \in rejects : serverOf[j] = serverOf[k] /\ rejects' = rejects \ {j}
        /\ UNCHANGED orphans
     \/ /\ RemovalMayFail
        /\ orphans' = orphans \cup {k}
        /\ UNCHANGED rejects
  /\ UNCHANGED <<direct, pc, connects, crashes, xSrvIP, tunnel, devices, routes, exceptions,
                 strays, serverOf>>

\* The killer has answered, or ten seconds are over and it goes on alone; the device, then
\* the exception route and what else goes through c.tunName.
DisconnectClose ==
  /\ Goto("kill", "clean")
  /\ Close({tunnel})
  /\ UNCHANGED <<direct, connects, crashes, xSrvIP, tunnel, killer, exceptions, rejects,
                 strays, serverOf, orphans>>

DisconnectClean ==
  /\ pc = "clean"
  /\ pc' = IF direct THEN "ended" ELSE "down"
  /\ exceptions' = exceptions \ {xSrvIP}
  /\ routes' = routes \ Through(tunnel, Halves6 \cup DNSRoutes)
  /\ UNCHANGED <<direct, connects, crashes, xSrvIP, tunnel, killer, devices, rejects, strays,
                 serverOf, orphans>>
------------------------------------------------------------------------------
\* The process ends with its goroutines and devices, the routes through them, and nothing
\* else.  The next one may be given a link or a list.
ProcessEnds ==
  /\ direct' \in BOOLEAN
  /\ pc' = "down" /\ xSrvIP' = NoServer /\ tunnel' = 0
  /\ killer' = [k \in Connects |-> IF killer[k] = "none" THEN "none" ELSE "over"]
  /\ orphans' = orphans \cup {k \in Connects : killer[k] = "sleeping"}
  /\ devices' = {} /\ routes' = {} /\ strays' = {}
  /\ UNCHANGED <<connects, exceptions, rejects, serverOf>>

\* os.Exit of direct mode.
Exit == pc = "ended" /\ ProcessEnds /\ UNCHANGED crashes

\* A crash, or the return of main in --from-raw mode, which disconnects nothing.
Crash == pc # "ended" /\ crashes < MaxCrashes /\ crashes' = crashes + 1 /\ ProcessEnds

Call ==
  \/ \E s \in Servers : ConnectRoute(s) \/ ConnectRouteFails(s)
  \/ MakeTun \/ AddRoutes4 \/ AddRoutes6 \/ AddRoutes6System \/ ProxyFails \/ ConnectDone
  \/ DisconnectKill \/ DisconnectClose \/ DisconnectClean

Next ==
  \/ Call
  \/ \E k \in Connects : Finalize(k) \/ KillerRejects(k) \/ KillerFails(k) \/ RemoverRuns(k)
  \/ Exit \/ Crash

\* A goroutine that sleeps three seconds wakes up, if its process is there.
Fairness == \A k \in Connects : WF_vars(RemoverRuns(k))

Spec == Init /\ [][Next]_vars /\ Fairness
------------------------------------------------------------------------------
(***************************************************************************)
(* Properties.                                                             *)
(***************************************************************************)
\* Every variable keeps its type.
TypeOK ==
  /\ direct \in BOOLEAN
  /\ pc \in {"down", "tun", "routes4", "routes6", "system", "proxy", "up", "kill", "clean",
             "ended"}
  /\ connects \in 0 .. MaxConnects /\ crashes \in 0 .. MaxCrashes
  /\ xSrvIP \in Servers \cup {NoServer} /\ tunnel \in 0 .. connects
  /\ killer \in [Connects -> {"none", "trying", "sleeping", "over"}]
  /\ devices \subseteq Connects
  /\ routes \subseteq [dst : Destinations, dev : devices]
  /\ exceptions \subseteq Servers /\ rejects \subseteq Connects
  /\ strays \subseteq devices /\ orphans \subseteq Connects
  /\ serverOf \in [Connects -> Servers \cup {NoServer}]

\* A client that is connected routes both halves of the IPv4 space, and of the IPv6 space
\* when IPv6 is on, through its own device, and its server around it; whatever the library
\* or the fallback had to leave out, and whatever dropped devices were in the way.
\* setupTunnel, addIPv6RoutesSystem.
ConnectedIsRouted ==
  pc = "up" => /\ Through(tunnel, Halves4) \subseteq routes
               /\ EnableIPv6 => Through(tunnel, Halves6) \subseteq routes
               /\ xSrvIP \in exceptions

\* When no call is under way and the client is down, no traffic is routed into a device
\* but one that setupTunnel dropped.  Connect, Disconnect, setupTunnel.
DownRoutesNothing ==
  pc \in {"down", "ended"} => devices = strays /\ \A r \in routes : r.dev \in strays

Rejected(s) == \E k \in rejects : serverOf[k] = s

\* A rule that rejects connections to a server goes, also when its killer was given up by
\* Disconnect and adds it later, or when several killers of the server are under way; unless
\* its removal failed or the process ended before it.  killWithIptablesReject.
RejectGoes ==
  \A s \in Servers : Rejected(s) ~> ~Rejected(s) \/ \E k \in orphans : serverOf[k] = s

\* connection_killer.go:163-164, "adds temporary iptables REJECT rules [...], then removes
\* them after a short delay": a rule that rejects connections to a server goes.
RejectIsTemporary == \A s \in Servers : Rejected(s) ~> ~Rejected(s)
==============================================================================
