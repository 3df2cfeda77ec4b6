----------------------------- MODULE OrderedWalk -----------------------------
(***************************************************************************)
(* What a VPNConnector promises to main, whatever its goroutines do: the   *)
(* servers of its list are offered to the client one at a time, in the     *)
(* order of the list, each at most once; only an offer that was accepted   *)
(* is served; the end of the list is reached before it gives up; and a     *)
(* search comes to an end.  Module Failover implements it.                 *)
(***************************************************************************)
EXTENDS Integers

CONSTANT N  \* length of the server list

VARIABLES
  offered,  \* servers that have been offered to the client
  phase     \* "searching", "offering", "serving", "failed" or "exhausted"

vars == <<offered, phase>>

Servers == 1 .. N
------------------------------------------------------------------------------
Init ==
  /\ offered = {}
  /\ phase = "searching"

\* The next server in the order of the list.
Offer ==
  /\ phase = "searching" /\ phase' = "offering"
  /\ \E i \in Servers : offered = 1 .. i - 1 /\ offered' = 1 .. i

Accept  == phase = "offering" /\ phase' = "serving" /\ UNCHANGED offered
Decline == phase = "offering" /\ phase' = "searching" /\ UNCHANGED offered

\* The server in use is given up.
Leave == phase = "serving" /\ phase' = "searching" /\ UNCHANGED offered

\* Nothing is left to offer: the last server is kept (performFailover returns without a
\* word), ConnectWithFallback returns an error, or a failover reports on the channel.
EndOfList ==
  /\ offered = Servers
  /\ \/ phase = "searching" /\ phase' \in {"serving", "failed"}
     \/ phase = "offering"  /\ phase' = "exhausted"
  /\ UNCHANGED offered

Next == Offer \/ Accept \/ Decline \/ Leave \/ EndOfList

Safety == Init /\ [][Next]_vars

SearchEnds == phase \in {"searching", "offering"} ~> phase \notin {"searching", "offering"}

Spec == Safety /\ SearchEnds
==============================================================================
