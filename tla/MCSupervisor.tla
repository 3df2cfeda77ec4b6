----------------------------- MODULE MCSupervisor -----------------------------
(* Supervisor for TLC: two URLs, and connectors enough for two reconnections. *)
EXTENDS Supervisor
==============================================================================
