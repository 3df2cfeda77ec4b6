------------------------------ MODULE MCHostState ------------------------------
(* HostState for TLC: two servers, IPv6 and DNS protection on.                    *)
EXTENDS HostState

CONSTANTS s1, s2
MCServers == {s1, s2}
==============================================================================
