---------------------------- MODULE MCTunnelClient ----------------------------
(* TunnelClient for TLC: two goroutines, two servers, a few calls of Connect.     *)
EXTENDS TunnelClient

CONSTANTS a, b, s1, s2

MCCallers == {a, b}
MCCaller  == {a}
MCServers == {s1, s2}
MCServer  == {s1}

\* One goroutine alone does everything.  The other one comes in while the first is in a
\* call, and as long as calls have overlapped there is one server, no crash, no failed
\* command and one Connect less.
MCOverlap ==
  /\ op[b].pc # "idle" => overlapped
  /\ overlapped => /\ crashes = 0 /\ ~ruleFailed /\ calls < MaxCalls
                   /\ xSrvIP # s2 /\ \A c \in Callers : op[c].server # s2

MCSpec == Init /\ [][Next /\ MCOverlap']_vars /\ Fairness
==============================================================================
