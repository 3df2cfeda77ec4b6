--------------------------- MODULE MCTrafficMetrics ---------------------------
(***************************************************************************)
(* TrafficMetrics for TLC.  The endpoint and the counters share nothing    *)
(* but the calls, so their interleavings are explored one after the other  *)
(* and not multiplied: a behaviour either runs the goroutines that serve   *)
(* or those that count.                                                    *)
(***************************************************************************)
EXTENDS TrafficMetrics

VARIABLE focus

Serve == \E k \in Starts : ServerReads(k) \/ Listens(k)
Count ==
  \/ Transfer \/ UpdaterLooks \/ UpdaterSets
  \/ \E c \in Connections : MonitorTick(c) \/ MonitorEnds(c)

MCInit == Init /\ focus \in {"endpoint", "counters"}
MCNext ==
  /\ ~panicked
  /\ Call \/ (focus = "endpoint" /\ Serve) \/ (focus = "counters" /\ Count)
  /\ UNCHANGED focus
MCSpec == MCInit /\ [][MCNext]_<<vars, focus>> /\ Fairness
==============================================================================
