---------------------------- MODULE HostStateProofs ----------------------------
(***************************************************************************)
(* Proofs about HostState, for every set of servers, every setting and     *)
(* every number of calls and crashes: what is routed while the client is   *)
(* connected, and what is left when it is not.                             *)
(***************************************************************************)
EXTENDS HostState, FiniteSetTheorems, TLAPS

\* A call of Connect that has the exception route, and one that has its device too.
Calling == {"tun", "routes4", "routes6", "system", "proxy", "up", "kill", "clean"}
Holding == {"routes4", "routes6", "system", "proxy", "up", "kill"}

\* Devices have the number of their Connect; the one of the current call is never dropped
\* while the call goes on.
DeviceInv ==
  /\ strays \subseteq 1 .. connects
  /\ pc \in Calling => connects \in Connects /\ connects \notin strays
  /\ devices = IF pc \in Holding THEN strays \cup {connects} ELSE strays
  /\ pc \in {"proxy", "up", "kill", "clean"} => tunnel = connects

\* The exception route of the current call is there until the call ends.
ServerInv == pc \in Calling => xSrvIP \in Servers /\ xSrvIP \in exceptions

\* What the current call has routed so far.
RoutesInv ==
  /\ pc \in {"routes6", "system", "proxy", "up"} => Through(connects, Halves4) \subseteq routes
  /\ pc \in {"proxy", "up"} /\ EnableIPv6 => Through(connects, Halves6) \subseteq routes

IInv == TypeOK /\ DeviceInv /\ ServerInv /\ RoutesInv
------------------------------------------------------------------------------
(***************************************************************************)
(* Routes and devices.                                                     *)
(***************************************************************************)
\* Routes of known destinations through an open device keep their type.
LEMMA ThroughOpen ==
  ASSUME TypeOK, NEW d \in devices, NEW dsts \in SUBSET Destinations
  PROVE  routes \cup Through(d, dsts) \subseteq [dst : Destinations, dev : devices]
BY DEF TypeOK, Through

LEMMA DestinationsKnown ==
  /\ Halves4 \subseteq Destinations /\ Halves6 \subseteq Destinations
  /\ DNSRoutes \subseteq Destinations
BY DEF Destinations

\* What a device that closes takes along.
LEMMA CloseOpen ==
  ASSUME TypeOK, NEW devs, Close(devs)
  PROVE  /\ devices' = devices \ devs
         /\ routes' \subseteq [dst : Destinations, dev : devices']
         /\ \A d, dsts : d \notin devs /\ Through(d, dsts) \subseteq routes
                           => Through(d, dsts) \subseteq routes'
BY DEF TypeOK, Close, Through

\* The parts of TypeOK that only some actions touch.
CallOK ==
  /\ direct \in BOOLEAN
  /\ pc \in {"down", "tun", "routes4", "routes6", "system", "proxy", "up", "kill", "clean",
             "ended"}
  /\ connects \in 0 .. MaxConnects /\ crashes \in 0 .. MaxCrashes
  /\ xSrvIP \in Servers \cup {NoServer} /\ tunnel \in 0 .. connects

KillerOK ==
  /\ killer \in [Connects -> {"none", "trying", "sleeping", "over"}]
  /\ rejects \subseteq Connects /\ orphans \subseteq Connects
  /\ serverOf \in [Connects -> Servers \cup {NoServer}]

NetworkOK ==
  /\ devices \subseteq Connects
  /\ routes \subseteq [dst : Destinations, dev : devices]
  /\ exceptions \subseteq Servers /\ strays \subseteq devices

LEMMA TypeParts == TypeOK <=> CallOK /\ KillerOK /\ NetworkOK
BY DEF TypeOK, CallOK, KillerOK, NetworkOK

\* The type of a device's number.
LEMMA CurrentCall ==
  ASSUME IInv, pc \in Calling
  PROVE  /\ connects \in Connects /\ connects \in 1 .. connects
         /\ connects \in 0 .. connects /\ 0 \in 0 .. connects
         /\ connects \notin strays
         /\ pc \in Holding => connects \in devices
BY HostAssumption DEF IInv, DeviceInv, Connects
------------------------------------------------------------------------------
(***************************************************************************)
(* Connect.                                                                *)
(***************************************************************************)
LEMMA ConnectRouteStep ==
  ASSUME IInv, NEW s \in Servers, ConnectRoute(s) \/ ConnectRouteFails(s)
  PROVE  IInv'
<1>1. /\ pc = "down" /\ pc' \in {"tun", "ended", "down"} /\ connects' = connects + 1
      /\ xSrvIP' = s /\ serverOf' = [serverOf EXCEPT ![connects + 1] = s]
      /\ UNCHANGED <<direct, crashes, tunnel, killer, devices, routes, rejects, strays,
                     orphans>>
  BY DEF ConnectRoute, ConnectRouteFails, Goto
<1>2. /\ connects \in 0 .. MaxConnects /\ connects < MaxConnects
      /\ connects + 1 \in Connects /\ connects + 1 \in 0 .. MaxConnects
      /\ tunnel \in 0 .. connects + 1
      /\ 1 .. connects \subseteq 1 .. connects + 1 /\ connects + 1 \notin 1 .. connects
  BY HostAssumption DEF IInv, TypeOK, Connects, ConnectRoute, ConnectRouteFails
<1>3. exceptions' \subseteq Servers /\ (pc' = "tun" => s \in exceptions')
  BY DEF IInv, TypeOK, ConnectRoute, ConnectRouteFails
<1>4. CallOK'
  BY <1>1, <1>2 DEF IInv, TypeOK, CallOK
<1>5. KillerOK'
  BY <1>1, <1>2 DEF IInv, TypeOK, KillerOK
<1>6. NetworkOK'
  BY <1>1, <1>3 DEF IInv, TypeOK, NetworkOK
<1>7. DeviceInv'
  BY <1>1, <1>2 DEF IInv, DeviceInv, Calling, Holding
<1>8. ServerInv' /\ RoutesInv'
  BY <1>1, <1>3 DEF ServerInv, RoutesInv, Calling
<1>9. TypeOK'
  BY <1>4, <1>5, <1>6 DEF TypeOK, CallOK, KillerOK, NetworkOK
<1> QED
  BY <1>7, <1>8, <1>9 DEF IInv

\* Connect gives up: the device it had, if any, is a stray or is closed.
LEMMA FailedStep ==
  ASSUME IInv, pc \in Calling, Failed, tunnel' \in {tunnel, 0},
         \/ strays' = strays /\ devices' = strays
         \/ strays' = strays \cup {connects} /\ devices' = strays',
         routes' \subseteq [dst : Destinations, dev : devices']
  PROVE  IInv'
<1>1. /\ pc' \in {"down", "ended"} /\ exceptions' = exceptions \ {xSrvIP}
      /\ UNCHANGED <<direct, connects, crashes, xSrvIP, killer, rejects, serverOf, orphans>>
  BY DEF Failed
<1>2. /\ connects \in Connects /\ connects \in 1 .. connects /\ 0 \in 0 .. connects
  BY CurrentCall
<1>3. CallOK' /\ KillerOK'
  BY <1>1, <1>2 DEF IInv, TypeOK, CallOK, KillerOK
<1>4. NetworkOK'
  BY <1>1, <1>2 DEF IInv, TypeOK, NetworkOK
<1>5. DeviceInv'
  BY <1>1, <1>2 DEF IInv, DeviceInv, Calling, Holding
<1>6. ServerInv' /\ RoutesInv'
  BY <1>1 DEF ServerInv, RoutesInv, Calling
<1>7. TypeOK'
  BY <1>3, <1>4 DEF TypeOK, CallOK, KillerOK, NetworkOK
<1> QED
  BY <1>5, <1>6, <1>7 DEF IInv

\* setupTunnel gives up with a device that is open.
LEMMA DropStep ==
  ASSUME IInv, pc \in Holding, Drop, devices' = devices,
         routes' \subseteq [dst : Destinations, dev : devices]
  PROVE  IInv'
<1>1. pc \in Calling
  BY DEF Calling, Holding
<1>2. strays' = strays \cup {connects} /\ devices' = strays' /\ Failed /\ tunnel' = 0
  BY DEF Drop, IInv, DeviceInv
<1> QED
  BY <1>1, <1>2, FailedStep

\* Connect goes on with its device.
LEMMA GoOnStep ==
  ASSUME IInv, pc \in Holding, pc' \in {"routes6", "system", "proxy", "up"},
         tunnel' \in {tunnel, connects}, pc' \in {"proxy", "up"} => tunnel' = connects,
         UNCHANGED <<direct, connects, crashes, xSrvIP, killer, devices, exceptions, rejects,
                     strays, serverOf, orphans>>,
         routes' \subseteq [dst : Destinations, dev : devices], RoutesInv'
  PROVE  IInv'
<1>1. pc \in Calling
  BY DEF Calling, Holding
<1>2. /\ connects \in Connects /\ connects \in 0 .. connects
  BY <1>1, CurrentCall
<1>3. CallOK' /\ KillerOK'
  BY <1>2 DEF IInv, TypeOK, CallOK, KillerOK
<1>4. NetworkOK'
  BY DEF IInv, TypeOK, NetworkOK
<1>5. DeviceInv'
  BY <1>1 DEF IInv, DeviceInv, Calling, Holding
<1>6. ServerInv'
  BY <1>1 DEF IInv, ServerInv
<1>7. TypeOK'
  BY <1>3, <1>4 DEF TypeOK, CallOK, KillerOK, NetworkOK
<1> QED
  BY <1>5, <1>6, <1>7 DEF IInv

LEMMA MakeTunStep ==
  ASSUME IInv, MakeTun
  PROVE  IInv'
<1>1. pc = "tun" /\ pc \in Calling /\ devices = strays
  BY DEF MakeTun, Calling, Holding, IInv, DeviceInv
<1>2. connects \in Connects /\ connects \notin strays
  BY <1>1, CurrentCall
<1>3. routes \subseteq [dst : Destinations, dev : devices \cup {connects}]
  BY DEF IInv, TypeOK
<1>4. CASE Failed /\ tunnel' = 0 /\ UNCHANGED <<devices, routes, strays>>
  <2>1. routes' \subseteq [dst : Destinations, dev : devices']
    BY <1>4 DEF IInv, TypeOK
  <2> QED
    BY <1>1, <1>4, <2>1, FailedStep
<1>5. CASE Drop /\ devices' = devices \cup {connects} /\ UNCHANGED routes
  <2>1. routes' \subseteq [dst : Destinations, dev : devices']
    BY <1>3, <1>5
  <2> QED
    BY <1>1, <1>5, <2>1, FailedStep DEF Drop
<1>6. CASE /\ pc' = "routes4"
           /\ devices' = devices \cup {connects}
           /\ UNCHANGED <<direct, connects, crashes, xSrvIP, tunnel, killer, routes,
                          exceptions, rejects, strays, serverOf, orphans>>
  <2>1. CallOK' /\ KillerOK'
    BY <1>6 DEF IInv, TypeOK, CallOK, KillerOK
  <2>2. NetworkOK'
    BY <1>2, <1>3, <1>6 DEF IInv, TypeOK, NetworkOK
  <2>3. DeviceInv'
    BY <1>1, <1>2, <1>6 DEF IInv, DeviceInv, Calling, Holding
  <2>4. ServerInv' /\ RoutesInv'
    BY <1>1, <1>6 DEF IInv, ServerInv, RoutesInv
  <2>5. TypeOK'
    BY <2>1, <2>2 DEF TypeOK, CallOK, KillerOK, NetworkOK
  <2> QED
    BY <2>3, <2>4, <2>5 DEF IInv
<1> QED
  BY <1>4, <1>5, <1>6 DEF MakeTun

\* Whatever a list adds goes through the device of the current call.
LEMMA AddStep ==
  ASSUME IInv, pc \in Holding, NEW dsts \in SUBSET Destinations,
         AddAll(dsts) \/ AddSome(dsts)
  PROVE  /\ routes' \subseteq [dst : Destinations, dev : devices]
         /\ routes \subseteq routes'
         /\ AddAll(dsts) => Through(connects, dsts) \subseteq routes'
<1>1. connects \in devices /\ TypeOK
  BY CurrentCall DEF Calling, Holding, IInv
<1>2. CASE AddAll(dsts)
  BY <1>1, <1>2, ThroughOpen DEF AddAll
<1>3. CASE AddSome(dsts) /\ ~AddAll(dsts)
  <2>1. PICK some \in SUBSET Destinations : routes' = routes \cup Through(connects, some)
    BY <1>3 DEF AddSome
  <2> QED
    BY <1>1, <1>3, <2>1, ThroughOpen
<1> QED
  BY <1>2, <1>3

LEMMA AddRoutes4Step ==
  ASSUME IInv, AddRoutes4
  PROVE  IInv'
<1>1. pc = "routes4" /\ pc \in Holding /\ devices' = devices
  BY DEF AddRoutes4, Holding
<1>2. Halves4 \in SUBSET Destinations
  BY DestinationsKnown
<1>3. CASE AddSome(Halves4) /\ Drop
  BY <1>1, <1>2, <1>3, AddStep, DropStep
<1>4. CASE /\ AddAll(Halves4)
           /\ pc' = IF EnableIPv6 THEN "routes6" ELSE "proxy"
           /\ tunnel' = IF EnableIPv6 THEN tunnel ELSE connects
           /\ UNCHANGED <<direct, connects, crashes, xSrvIP, killer, exceptions, rejects,
                          strays, serverOf, orphans>>
  <2>1. /\ routes' \subseteq [dst : Destinations, dev : devices]
        /\ Through(connects, Halves4) \subseteq routes'
    BY <1>1, <1>2, <1>4, AddStep
  <2>2. RoutesInv'
    BY <1>4, <2>1 DEF RoutesInv, Through
  <2> QED
    BY <1>1, <1>4, <2>1, <2>2, GoOnStep
<1> QED
  BY <1>3, <1>4 DEF AddRoutes4

LEMMA AddRoutes6Step ==
  ASSUME IInv, AddRoutes6
  PROVE  IInv'
<1>1. /\ pc = "routes6" /\ pc \in Holding
      /\ UNCHANGED <<direct, connects, crashes, xSrvIP, killer, devices, exceptions, rejects,
                     strays, serverOf, orphans>>
      /\ \/ AddAll(Halves6) /\ pc' = "proxy" /\ tunnel' = connects
         \/ AddSome(Halves6) /\ pc' = "system" /\ tunnel' = tunnel
  BY DEF AddRoutes6, Holding
<1>2. Halves6 \in SUBSET Destinations
  BY DestinationsKnown
<1>3. /\ routes' \subseteq [dst : Destinations, dev : devices]
      /\ routes \subseteq routes'
      /\ AddAll(Halves6) => Through(connects, Halves6) \subseteq routes'
  BY <1>1, <1>2, AddStep
<1>4. Through(connects, Halves4) \subseteq routes
  BY <1>1 DEF IInv, RoutesInv
<1>5. RoutesInv'
  BY <1>1, <1>3, <1>4 DEF RoutesInv, Through
<1> QED
  BY <1>1, <1>3, <1>5, GoOnStep

LEMMA AddRoutes6SystemStep ==
  ASSUME IInv, AddRoutes6System
  PROVE  IInv'
<1>1. pc = "system" /\ pc \in Holding /\ devices' = devices
  BY DEF AddRoutes6System, Holding
<1>2. PICK some \in SUBSET Halves6 :
        /\ routes' = routes \cup Through(connects, some)
        /\ IF some = Halves6
           THEN /\ pc' = "proxy" /\ tunnel' = connects
                /\ UNCHANGED <<direct, connects, crashes, xSrvIP, killer, exceptions, rejects,
                               strays, serverOf, orphans>>
           ELSE Drop
  BY DEF AddRoutes6System
<1>3. some \in SUBSET Destinations
  BY DestinationsKnown
<1>4. connects \in devices /\ TypeOK
  BY <1>1, CurrentCall DEF Calling, Holding, IInv
<1>5. routes' \subseteq [dst : Destinations, dev : devices]
  BY <1>2, <1>3, <1>4, ThroughOpen
<1>6. CASE some = Halves6
  <2>1. Through(connects, Halves4) \subseteq routes
    BY <1>1 DEF IInv, RoutesInv
  <2>2. connects' = connects
    BY <1>2, <1>6
  <2>3. RoutesInv'
    BY <1>2, <1>6, <2>1, <2>2 DEF RoutesInv, Through
  <2> QED
    BY <1>1, <1>2, <1>5, <1>6, <2>3, GoOnStep
<1>7. CASE some # Halves6
  BY <1>1, <1>2, <1>5, <1>7, DropStep
<1> QED
  BY <1>6, <1>7

LEMMA ProxyFailsStep ==
  ASSUME IInv, ProxyFails
  PROVE  IInv'
<1>1. /\ pc = "proxy" /\ pc \in Calling /\ pc \in Holding /\ tunnel = connects
      /\ Failed /\ Close({tunnel}) /\ tunnel' = tunnel /\ strays' = strays
  BY DEF ProxyFails, IInv, DeviceInv, Calling, Holding
<1>2. devices = strays \cup {connects} /\ connects \notin strays /\ TypeOK
  BY <1>1 DEF IInv, DeviceInv
<1>3. devices' = devices \ {tunnel} /\ routes' \subseteq [dst : Destinations, dev : devices']
  BY <1>1, <1>2, CloseOpen
<1>4. devices' = strays
  BY <1>1, <1>2, <1>3
<1> QED
  BY <1>1, <1>3, <1>4, FailedStep

LEMMA ConnectDoneStep ==
  ASSUME IInv, ConnectDone
  PROVE  IInv'
<1>1. /\ pc = "proxy" /\ pc' = "up" /\ pc \in Holding /\ tunnel = connects
      /\ UNCHANGED <<direct, connects, crashes, xSrvIP, tunnel, killer, devices, exceptions,
                     rejects, strays, serverOf, orphans>>
  BY DEF ConnectDone, Goto, IInv, DeviceInv, Holding
<1>2. PICK some \in SUBSET DNSRoutes : routes' = routes \cup Through(tunnel, some)
  BY DEF ConnectDone
<1>3. some \in SUBSET Destinations
  BY DestinationsKnown
<1>4. connects \in devices /\ TypeOK
  BY <1>1, CurrentCall DEF Calling, Holding, IInv
<1>5. routes' \subseteq [dst : Destinations, dev : devices]
  BY <1>1, <1>2, <1>3, <1>4, ThroughOpen
<1>6. RoutesInv'
  BY <1>1, <1>2 DEF IInv, RoutesInv, Through
<1> QED
  BY <1>1, <1>5, <1>6, GoOnStep
------------------------------------------------------------------------------
(***************************************************************************)
(* Disconnect, the goroutines that outlive it, and the end of the process. *)
(***************************************************************************)
LEMMA FinalizeStep ==
  ASSUME IInv, NEW d \in Connects, Finalize(d)
  PROVE  IInv'
<1>1. /\ d \in strays /\ Close({d}) /\ strays' = strays \ {d}
      /\ UNCHANGED <<direct, pc, connects, crashes, xSrvIP, tunnel, killer, exceptions,
                     rejects, serverOf, orphans>>
  BY DEF Finalize
<1>2. /\ devices' = devices \ {d}
      /\ routes' \subseteq [dst : Destinations, dev : devices']
      /\ \A e, dsts : e \notin {d} /\ Through(e, dsts) \subseteq routes
                        => Through(e, dsts) \subseteq routes'
  BY <1>1, CloseOpen DEF IInv
<1>3. CallOK' /\ KillerOK'
  BY <1>1 DEF IInv, TypeOK, CallOK, KillerOK
<1>4. NetworkOK'
  BY <1>1, <1>2 DEF IInv, TypeOK, NetworkOK
<1>5. DeviceInv'
  BY <1>1, <1>2 DEF IInv, DeviceInv, Calling, Holding
<1>6. ServerInv'
  BY <1>1 DEF IInv, ServerInv
<1>7. RoutesInv'
  <2>1. pc \in {"routes6", "system", "proxy", "up"} => connects \notin {d}
    BY <1>1 DEF IInv, DeviceInv, Calling
  <2> QED
    BY <1>1, <1>2, <2>1 DEF IInv, RoutesInv
<1>8. TypeOK'
  BY <1>3, <1>4 DEF TypeOK, CallOK, KillerOK, NetworkOK
<1> QED
  BY <1>5, <1>6, <1>7, <1>8 DEF IInv

LEMMA KillStep ==
  ASSUME IInv, DisconnectKill \/ \E k \in Connects : KillerRejects(k) \/ KillerFails(k)
  PROVE  IInv'
<1>1. /\ UNCHANGED <<direct, connects, crashes, xSrvIP, tunnel, devices, routes, exceptions,
                     strays, serverOf, orphans>>
      /\ pc' = pc \/ (pc = "up" /\ pc' = "kill")
  BY DEF DisconnectKill, KillerRejects, KillerFails, Goto, os
<1>2. KillerOK'
  BY <1>1 DEF IInv, TypeOK, KillerOK, DisconnectKill, KillerRejects, KillerFails, os
<1>3. TypeOK'
  BY <1>1, <1>2 DEF IInv, TypeOK, KillerOK
<1> QED
  BY <1>1, <1>3 DEF IInv, DeviceInv, ServerInv, RoutesInv, Calling, Holding

LEMMA RemoverStep ==
  ASSUME IInv, NEW k \in Connects, RemoverRuns(k)
  PROVE  IInv'
<1>1. /\ UNCHANGED <<direct, pc, connects, crashes, xSrvIP, tunnel, devices, routes,
                     exceptions, strays, serverOf>>
      /\ killer' = [killer EXCEPT ![k] = "over"]
      /\ rejects' \subseteq rejects /\ orphans' \subseteq orphans \cup {k}
  BY DEF RemoverRuns
<1>2. TypeOK'
  BY <1>1 DEF IInv, TypeOK
<1> QED
  BY <1>1, <1>2 DEF IInv, DeviceInv, ServerInv, RoutesInv

LEMMA DisconnectCloseStep ==
  ASSUME IInv, DisconnectClose
  PROVE  IInv'
<1>1. /\ pc = "kill" /\ pc' = "clean" /\ Close({tunnel}) /\ tunnel = connects
      /\ UNCHANGED <<direct, connects, crashes, xSrvIP, tunnel, killer, exceptions, rejects,
                     strays, serverOf, orphans>>
  BY DEF DisconnectClose, Goto, IInv, DeviceInv
<1>2. devices = strays \cup {connects} /\ connects \notin strays /\ TypeOK
  BY <1>1 DEF IInv, DeviceInv, Calling, Holding
<1>3. devices' = devices \ {tunnel} /\ routes' \subseteq [dst : Destinations, dev : devices']
  BY <1>1, <1>2, CloseOpen
<1>4. devices' = strays
  BY <1>1, <1>2, <1>3
<1>5. TypeOK'
  BY <1>1, <1>3, <1>4 DEF IInv, TypeOK
<1>6. DeviceInv'
  BY <1>1, <1>4 DEF IInv, DeviceInv, Calling, Holding
<1> QED
  BY <1>1, <1>5, <1>6 DEF IInv, ServerInv, RoutesInv, Calling

LEMMA DisconnectCleanStep ==
  ASSUME IInv, DisconnectClean
  PROVE  IInv'
<1>1. /\ pc = "clean" /\ pc' \in {"down", "ended"}
      /\ exceptions' = exceptions \ {xSrvIP} /\ routes' \subseteq routes
      /\ UNCHANGED <<direct, connects, crashes, xSrvIP, tunnel, killer, devices, rejects,
                     strays, serverOf, orphans>>
  BY DEF DisconnectClean
<1>2. TypeOK'
  BY <1>1 DEF IInv, TypeOK
<1>3. DeviceInv'
  BY <1>1 DEF IInv, DeviceInv, Calling, Holding
<1> QED
  BY <1>1, <1>2, <1>3 DEF IInv, ServerInv, RoutesInv, Calling

LEMMA ProcessEndsStep ==
  ASSUME IInv, ProcessEnds, crashes' \in 0 .. MaxCrashes
  PROVE  IInv'
<1>1. /\ direct' \in BOOLEAN /\ pc' = "down" /\ xSrvIP' = NoServer /\ tunnel' = 0
      /\ killer' = [k \in Connects |-> IF killer[k] = "none" THEN "none" ELSE "over"]
      /\ orphans' = orphans \cup {k \in Connects : killer[k] = "sleeping"}
      /\ devices' = {} /\ routes' = {} /\ strays' = {}
      /\ UNCHANGED <<connects, exceptions, rejects, serverOf>>
  BY DEF ProcessEnds
<1>2. 0 \in 0 .. connects
  BY DEF IInv, TypeOK
<1>3. CallOK' /\ NetworkOK'
  BY <1>1, <1>2 DEF IInv, TypeOK, CallOK, NetworkOK
<1>4. KillerOK'
  BY <1>1 DEF IInv, TypeOK, KillerOK
<1>5. TypeOK'
  BY <1>3, <1>4 DEF TypeOK, CallOK, KillerOK, NetworkOK
<1> QED
  BY <1>1, <1>5 DEF IInv, DeviceInv, ServerInv, RoutesInv, Calling, Holding

LEMMA EndStep ==
  ASSUME IInv, Exit \/ Crash
  PROVE  IInv'
<1>1. ProcessEnds /\ crashes' \in 0 .. MaxCrashes
  BY HostAssumption DEF Exit, Crash, IInv, TypeOK
<1> QED
  BY <1>1, ProcessEndsStep
------------------------------------------------------------------------------
LEMMA InitInv == Init => IInv
<1> SUFFICES ASSUME Init PROVE IInv
  OBVIOUS
<1>1. 0 \in 0 .. MaxConnects /\ 0 \in 0 .. MaxCrashes /\ 0 \in 0 .. 0
  BY HostAssumption
<1>2. TypeOK
  BY <1>1 DEF Init, TypeOK
<1> QED
  BY <1>2 DEF Init, IInv, DeviceInv, ServerInv, RoutesInv, Calling, Holding

LEMMA NextInv == IInv /\ [Next]_vars => IInv'
<1> SUFFICES ASSUME IInv, [Next]_vars PROVE IInv'
  OBVIOUS
<1>1. CASE Call
  BY <1>1, ConnectRouteStep, MakeTunStep, AddRoutes4Step, AddRoutes6Step,
     AddRoutes6SystemStep, ProxyFailsStep, ConnectDoneStep, KillStep, DisconnectCloseStep,
     DisconnectCleanStep
  DEF Call
<1>2. ASSUME NEW k \in Connects,
             Finalize(k) \/ KillerRejects(k) \/ KillerFails(k) \/ RemoverRuns(k)
      PROVE  IInv'
  BY <1>2, FinalizeStep, KillStep, RemoverStep
<1>3. CASE Exit \/ Crash
  BY <1>3, EndStep
<1>4. CASE UNCHANGED vars
  <2>1. UNCHANGED <<direct, pc, connects, crashes, xSrvIP, tunnel, killer, devices, routes,
                    exceptions, rejects, strays, serverOf, orphans>>
    BY <1>4 DEF vars, os
  <2> QED
    BY <2>1 DEF IInv, TypeOK, DeviceInv, ServerInv, RoutesInv
<1> QED
  BY <1>1, <1>2, <1>3, <1>4 DEF Next

LEMMA Invariance == Spec => []IInv
<1> QED
  BY InitInv, NextInv, PTL DEF Spec
------------------------------------------------------------------------------
\* Every variable keeps its type; in particular a route goes through an open device only,
\* as the kernel has it.
THEOREM TypeCorrect == Spec => []TypeOK
<1>1. IInv => TypeOK
  BY DEF IInv
<1> QED
  BY <1>1, Invariance, PTL

\* A connected client routes all of IPv4, and of IPv6 when it is on, through its own device
\* and its server around it, whatever the library left out, the fallback repaired or a
\* dropped device was in the way of (setupTunnel, addIPv6RoutesSystem).
THEOREM RoutedWhenConnected == Spec => []ConnectedIsRouted
<1>1. IInv => ConnectedIsRouted
  BY DEF IInv, DeviceInv, ServerInv, RoutesInv, ConnectedIsRouted, Calling
<1> QED
  BY <1>1, Invariance, PTL

\* A client that is down routes nothing but into devices that setupTunnel dropped, after any
\* sequence of failed and successful calls, finalizers and crashes (Connect, Disconnect).
THEOREM NothingRoutedWhenDown == Spec => []DownRoutesNothing
<1>1. IInv => DownRoutesNothing
  <2> SUFFICES ASSUME IInv, pc \in {"down", "ended"}
               PROVE  devices = strays /\ \A r \in routes : r.dev \in strays
    BY DEF DownRoutesNothing
  <2>1. devices = strays
    BY DEF IInv, DeviceInv, Holding
  <2>2. routes \subseteq [dst : Destinations, dev : devices]
    BY DEF IInv, TypeOK
  <2> QED
    BY <2>1, <2>2
<1> QED
  BY <1>1, Invariance, PTL
------------------------------------------------------------------------------
(***************************************************************************)
(* The REJECT rules: each is owned by a remover that sleeps, or by one     *)
(* that has failed or ended with its process.                              *)
(***************************************************************************)
\* A killer has the number of its Connect.  Its rule is its own, and once its remover has
\* failed or was killed, nobody sleeps for it.
KillerInv ==
  /\ \A k \in Connects : killer[k] # "none" => k <= connects
  /\ \A k \in rejects : killer[k] \in {"sleeping", "over"}
  /\ \A k \in orphans : killer[k] = "over"
  /\ pc \in Calling \ {"kill", "clean"} => killer[connects] = "none"

\* The rules against a server, and the removers there still are or should have been.
Rules(s) == {k \in rejects : serverOf[k] = s}
Owners(s) == {k \in Connects : serverOf[k] = s /\ (killer[k] = "sleeping" \/ k \in orphans)}

CountInv == \A s \in Servers : Cardinality(Rules(s)) = Cardinality(Owners(s))

\* A rule against a server has a remover of that server to come, or one that failed or was
\* killed.
RuleIsOwned ==
  \A s \in Servers : Rejected(s) =>
    \E k \in Connects : serverOf[k] = s /\ (killer[k] = "sleeping" \/ k \in orphans)

LEMMA RulesFinite ==
  ASSUME TypeOK, NEW s
  PROVE  /\ IsFiniteSet(Rules(s)) /\ IsFiniteSet(Owners(s))
         /\ Cardinality(Rules(s)) \in Nat /\ Cardinality(Owners(s)) \in Nat
<1>1. IsFiniteSet(Connects)
  BY HostAssumption, FS_Interval DEF Connects
<1>2. Rules(s) \subseteq Connects /\ Owners(s) \subseteq Connects
  BY DEF TypeOK, Rules, Owners
<1> QED
  BY <1>1, <1>2, FS_Subset, FS_CardinalityType

\* A step that touches no killer that has begun.
LEMMA KillersAlone ==
  ASSUME TypeOK, KillerInv, CountInv, UNCHANGED <<killer, rejects, serverOf, orphans>>,
         connects' = connects,
         pc' \in Calling \ {"kill", "clean"} => pc \in Calling \ {"kill", "clean"}
  PROVE  KillerInv' /\ CountInv'
<1>1. KillerInv'
  BY DEF KillerInv
<1>2. \A s : Rules(s)' = Rules(s) /\ Owners(s)' = Owners(s)
  BY DEF Rules, Owners
<1> QED
  BY <1>1, <1>2 DEF CountInv

\* The number of a new call is that of no killer and of no rule.
LEMMA NewCallAlone ==
  ASSUME TypeOK, KillerInv, CountInv, NEW s \in Servers,
         ConnectRoute(s) \/ ConnectRouteFails(s)
  PROVE  KillerInv' /\ CountInv'
<1>1. /\ connects < MaxConnects /\ connects' = connects + 1
      /\ serverOf' = [serverOf EXCEPT ![connects + 1] = s]
      /\ UNCHANGED <<killer, rejects, orphans>>
  BY DEF ConnectRoute, ConnectRouteFails
<1>2. connects + 1 \in Connects /\ connects \in Nat
  BY <1>1, HostAssumption DEF TypeOK, Connects
<1>3. killer[connects + 1] = "none"
  BY <1>2 DEF TypeOK, KillerInv, Connects
<1>4. KillerInv'
  <2>1. \A k \in Connects : k <= connects => k <= connects + 1
    BY <1>2 DEF Connects
  <2> QED
    BY <1>1, <1>3, <2>1 DEF KillerInv
<1>5. connects + 1 \notin rejects /\ connects + 1 \notin orphans
  BY <1>3 DEF KillerInv
<1>6. \A k \in Connects \ {connects + 1} : serverOf'[k] = serverOf[k]
  BY <1>1 DEF TypeOK
<1>7. \A t : Rules(t)' = Rules(t)
  BY <1>1, <1>5, <1>6 DEF Rules, TypeOK
<1>8. \A t : Owners(t)' = Owners(t)
  BY <1>1, <1>3, <1>5, <1>6 DEF Owners
<1> QED
  BY <1>4, <1>7, <1>8 DEF CountInv

\* Until its rule is there a killer owns none.
LEMMA KillerBegins ==
  ASSUME IInv, KillerInv, CountInv, DisconnectKill \/ \E k \in Connects : KillerFails(k)
  PROVE  KillerInv' /\ CountInv'
<1>1. PICK k \in Connects, a \in {"trying", "over"} :
        /\ killer[k] \notin {"sleeping", "over"} /\ k <= connects
        /\ killer' = [killer EXCEPT ![k] = a]
        /\ UNCHANGED <<connects, rejects, serverOf, orphans>>
        /\ pc' = pc \/ pc' = "kill"
        /\ (DisconnectKill => pc' = "kill") /\ (~DisconnectKill => killer[k] = "trying")
  <2>1. CASE DisconnectKill
    <3>1. connects \in Connects /\ killer[connects] = "none" /\ connects <= connects
      BY <2>1 DEF DisconnectKill, Goto, IInv, DeviceInv, KillerInv, Calling, Connects
    <3> QED
      BY <2>1, <3>1 DEF DisconnectKill, Goto, os
  <2>2. CASE ~DisconnectKill
    BY <2>2 DEF KillerFails, KillerInv, os
  <2> QED
    BY <2>1, <2>2
<1>2. killer \in [Connects -> {"none", "trying", "sleeping", "over"}]
  BY DEF IInv, TypeOK
<1>3. k \notin rejects /\ k \notin orphans
  BY <1>1 DEF KillerInv
<1>4. /\ killer'[k] \in {"trying", "over"}
      /\ \A j \in Connects \ {k} : killer'[j] = killer[j]
  BY <1>1, <1>2
<1>5. KillerInv'
  <2>1. pc' \in Calling \ {"kill", "clean"} => killer'[connects] = "none"
    <3> SUFFICES ASSUME pc' \in Calling \ {"kill", "clean"}
                 PROVE  killer'[connects] = "none"
      OBVIOUS
    <3>1. pc' = pc /\ killer[k] = "trying" /\ killer[connects] = "none"
      BY <1>1 DEF KillerInv
    <3>2. connects \in Connects
      BY <3>1 DEF IInv, DeviceInv
    <3> QED
      BY <1>4, <3>1, <3>2
  <2> QED
    BY <1>1, <1>3, <1>4, <2>1 DEF KillerInv, IInv, TypeOK
<1>6. \A s : Rules(s)' = Rules(s)
  BY <1>1 DEF Rules
<1>7. \A s : Owners(s)' = Owners(s)
  BY <1>1, <1>3, <1>4 DEF Owners
<1> QED
  BY <1>5, <1>6, <1>7 DEF CountInv

\* One rule more, and one remover more.
LEMMA KillerRejectsCounts ==
  ASSUME IInv, KillerInv, CountInv, NEW k \in Connects, KillerRejects(k)
  PROVE  KillerInv' /\ CountInv'
<1>1. /\ killer[k] = "trying" /\ killer' = [killer EXCEPT ![k] = "sleeping"]
      /\ rejects' = rejects \cup {k}
      /\ UNCHANGED <<pc, connects, serverOf, orphans>>
  BY DEF KillerRejects
<1>2. k \notin rejects /\ k \notin orphans /\ k <= connects
  BY <1>1 DEF KillerInv
<1>3. /\ killer \in [Connects -> {"none", "trying", "sleeping", "over"}]
      /\ rejects \subseteq Connects /\ orphans \subseteq Connects /\ TypeOK
  BY DEF IInv, TypeOK
<1>4. /\ killer'[k] = "sleeping" /\ \A j \in Connects \ {k} : killer'[j] = killer[j]
  BY <1>1, <1>3
<1>5. KillerInv'
  <2>1. pc \in Calling \ {"kill", "clean"} => killer'[connects] = "none"
    BY <1>1, <1>4 DEF KillerInv, IInv, DeviceInv
  <2> QED
    BY <1>1, <1>2, <1>3, <1>4, <2>1 DEF KillerInv
<1>6. ASSUME NEW s \in Servers
      PROVE  Cardinality(Rules(s)') = Cardinality(Owners(s)')
  <2>1. Cardinality(Rules(s)) = Cardinality(Owners(s))
    BY DEF CountInv
  <2>2. CASE serverOf[k] = s
    <3>1. Rules(s)' = Rules(s) \cup {k} /\ k \notin Rules(s)
      BY <1>1, <1>2, <2>2 DEF Rules
    <3>2. Owners(s)' = Owners(s) \cup {k} /\ k \notin Owners(s)
      BY <1>1, <1>2, <1>4, <2>2 DEF Owners
    <3>3. IsFiniteSet(Rules(s)) /\ IsFiniteSet(Owners(s))
      BY <1>3, RulesFinite
    <3>4. /\ Cardinality(Rules(s)') = Cardinality(Rules(s)) + 1
          /\ Cardinality(Owners(s)') = Cardinality(Owners(s)) + 1
      BY <3>1, <3>2, <3>3, FS_AddElement
    <3> QED
      BY <2>1, <3>4
  <2>3. CASE serverOf[k] # s
    <3>1. Rules(s)' = Rules(s) /\ Owners(s)' = Owners(s)
      BY <1>1, <1>4, <2>3 DEF Rules, Owners
    <3> QED
      BY <2>1, <3>1
  <2> QED
    BY <2>2, <2>3
<1> QED
  BY <1>5, <1>6 DEF CountInv

\* One rule less of that server and one remover less; or the remover is one that failed.
LEMMA RemoverCounts ==
  ASSUME IInv, KillerInv, CountInv, NEW k \in Connects, RemoverRuns(k)
  PROVE  KillerInv' /\ CountInv'
<1>1. /\ killer[k] = "sleeping" /\ killer' = [killer EXCEPT ![k] = "over"]
      /\ UNCHANGED <<pc, connects, serverOf>>
  BY DEF RemoverRuns
<1>2. /\ killer \in [Connects -> {"none", "trying", "sleeping", "over"}]
      /\ rejects \subseteq Connects /\ orphans \subseteq Connects /\ TypeOK
  BY DEF IInv, TypeOK
<1>3. /\ killer'[k] = "over" /\ \A j \in Connects \ {k} : killer'[j] = killer[j]
  BY <1>1, <1>2
<1>4. k \notin orphans /\ k <= connects
  BY <1>1 DEF KillerInv
<1>5. pc \in Calling \ {"kill", "clean"} => killer'[connects] = "none"
  BY <1>1, <1>3 DEF KillerInv, IInv, DeviceInv
<1>6. rejects' \subseteq rejects /\ orphans' \subseteq orphans \cup {k}
  BY DEF RemoverRuns
<1>7. KillerInv'
  BY <1>1, <1>2, <1>3, <1>4, <1>5, <1>6 DEF KillerInv
<1>8. CASE \E j \in rejects : /\ serverOf[j] = serverOf[k]
                              /\ rejects' = rejects \ {j} /\ orphans' = orphans
  <2>1. PICK j \in rejects : /\ serverOf[j] = serverOf[k]
                             /\ rejects' = rejects \ {j} /\ orphans' = orphans
    BY <1>8
  <2>2. ASSUME NEW s \in Servers
        PROVE  Cardinality(Rules(s)') = Cardinality(Owners(s)')
    <3>1. Cardinality(Rules(s)) = Cardinality(Owners(s))
      BY DEF CountInv
    <3>2. CASE serverOf[k] = s
      <4>1. Rules(s)' = Rules(s) \ {j} /\ j \in Rules(s)
        BY <1>1, <2>1, <3>2 DEF Rules
      <4>2. Owners(s)' = Owners(s) \ {k} /\ k \in Owners(s)
        BY <1>1, <1>3, <1>4, <2>1, <3>2 DEF Owners
      <4>3. /\ Cardinality(Rules(s)') = Cardinality(Rules(s)) - 1
            /\ Cardinality(Owners(s)') = Cardinality(Owners(s)) - 1
        BY <1>2, <4>1, <4>2, RulesFinite, FS_RemoveElement
      <4> QED
        BY <3>1, <4>3
    <3>3. CASE serverOf[k] # s
      <4>1. Rules(s)' = Rules(s) /\ Owners(s)' = Owners(s)
        BY <1>1, <1>3, <2>1, <3>3 DEF Rules, Owners
      <4> QED
        BY <3>1, <4>1
    <3> QED
      BY <3>2, <3>3
  <2> QED
    BY <1>7, <2>2 DEF CountInv
<1>9. CASE orphans' = orphans \cup {k} /\ rejects' = rejects
  <2>1. \A s : Rules(s)' = Rules(s) /\ Owners(s)' = Owners(s)
    BY <1>1, <1>3, <1>9 DEF Rules, Owners
  <2> QED
    BY <1>7, <2>1 DEF CountInv
<1> QED
  BY <1>8, <1>9 DEF RemoverRuns

\* The removers that slept become those that were killed.
LEMMA EndCounts ==
  ASSUME IInv, KillerInv, CountInv, ProcessEnds
  PROVE  KillerInv' /\ CountInv'
<1>1. /\ pc' = "down"
      /\ killer' = [k \in Connects |-> IF killer[k] = "none" THEN "none" ELSE "over"]
      /\ orphans' = orphans \cup {k \in Connects : killer[k] = "sleeping"}
      /\ UNCHANGED <<connects, rejects, serverOf>>
  BY DEF ProcessEnds
<1>2. /\ killer \in [Connects -> {"none", "trying", "sleeping", "over"}]
      /\ rejects \subseteq Connects /\ orphans \subseteq Connects
  BY DEF IInv, TypeOK
<1>3. \A k \in Connects : killer'[k] = IF killer[k] = "none" THEN "none" ELSE "over"
  BY <1>1
<1>4. KillerInv'
  BY <1>1, <1>2, <1>3 DEF KillerInv, Calling
<1>5. \A s : Rules(s)' = Rules(s)
  BY <1>1 DEF Rules
<1>6. \A s : Owners(s)' = Owners(s)
  BY <1>1, <1>3 DEF Owners
<1> QED
  BY <1>4, <1>5, <1>6 DEF CountInv

\* Whatever the ConnectionKillers, their goroutines and the ends of the process do, in any
\* order, no rule against a server is left without a remover of that server, but for
\* removals that failed or died with the process (killWithIptablesReject,
\* connection_killer.go:163-220).
THEOREM RulesAreOwned == Spec => []RuleIsOwned
<1>1. Init => KillerInv /\ CountInv
  <2> SUFFICES ASSUME Init PROVE KillerInv /\ CountInv
    OBVIOUS
  <2>1. KillerInv
    BY DEF Init, KillerInv, Calling
  <2>2. \A s : Rules(s) = {} /\ Owners(s) = {}
    BY DEF Init, Rules, Owners
  <2> QED
    BY <2>1, <2>2 DEF CountInv
<1>2. IInv /\ KillerInv /\ CountInv /\ [Next]_vars => KillerInv' /\ CountInv'
  <2> SUFFICES ASSUME IInv, KillerInv, CountInv, [Next]_vars
               PROVE  KillerInv' /\ CountInv'
    OBVIOUS
  <2>1. TypeOK
    BY DEF IInv
  <2>2. ASSUME NEW s \in Servers, ConnectRoute(s) \/ ConnectRouteFails(s)
        PROVE  KillerInv' /\ CountInv'
    BY <2>1, <2>2, NewCallAlone
  <2>3. CASE \/ MakeTun \/ AddRoutes4 \/ AddRoutes6 \/ AddRoutes6System \/ ProxyFails
             \/ ConnectDone \/ DisconnectClose \/ DisconnectClean
    <3>1. UNCHANGED <<killer, rejects, serverOf, orphans, connects>>
      BY <2>3 DEF MakeTun, AddRoutes4, AddRoutes6, AddRoutes6System, ProxyFails, ConnectDone,
                  DisconnectClose, DisconnectClean, Failed, Drop
    <3>2. pc' \in Calling \ {"kill", "clean"} => pc \in Calling \ {"kill", "clean"}
      BY <2>3 DEF MakeTun, AddRoutes4, AddRoutes6, AddRoutes6System, ProxyFails, ConnectDone,
                  DisconnectClose, DisconnectClean, Failed, Drop, Goto, Calling
    <3> QED
      BY <2>1, <3>1, <3>2, KillersAlone
  <2>4. CASE DisconnectKill \/ \E k \in Connects : KillerFails(k)
    BY <2>4, KillerBegins
  <2>5. ASSUME NEW k \in Connects, KillerRejects(k)
        PROVE  KillerInv' /\ CountInv'
    BY <2>5, KillerRejectsCounts
  <2>6. ASSUME NEW k \in Connects, RemoverRuns(k)
        PROVE  KillerInv' /\ CountInv'
    BY <2>6, RemoverCounts
  <2>7. CASE (\E k \in Connects : Finalize(k)) \/ UNCHANGED vars
    <3>1. UNCHANGED <<pc, killer, rejects, serverOf, orphans, connects>>
      BY <2>7 DEF Finalize, vars, os
    <3> QED
      BY <2>1, <3>1, KillersAlone
  <2>8. CASE Exit \/ Crash
    BY <2>8, EndCounts DEF Exit, Crash
  <2> QED
    BY <2>2, <2>3, <2>4, <2>5, <2>6, <2>7, <2>8 DEF Next, Call
<1>3. IInv /\ CountInv => RuleIsOwned
  <2> SUFFICES ASSUME IInv, CountInv, NEW s \in Servers, Rejected(s)
               PROVE  Owners(s) # {}
    BY DEF RuleIsOwned, Owners
  <2>1. TypeOK /\ Rules(s) # {} /\ Cardinality(Rules(s)) = Cardinality(Owners(s))
    BY DEF IInv, Rejected, Rules, CountInv
  <2> QED
    BY <2>1, RulesFinite, FS_EmptySet
<1> QED
  BY <1>1, <1>2, <1>3, Invariance, PTL DEF Spec
==============================================================================
