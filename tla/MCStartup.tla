------------------------------- MODULE MCStartup -------------------------------
(***************************************************************************)
(* Startup for TLC.  Every setting and every source of servers is varied,  *)
(* but not both at once, and a setting that selections do not depend on is *)
(* given together with a link.                                             *)
(***************************************************************************)
EXTENDS Startup

Good(scheme) == [scheme |-> scheme, formed |-> TRUE, host |-> TRUE, port |-> TRUE]
Bad == {[Good("vless") EXCEPT !.port = FALSE], [Good("vless") EXCEPT !.host = FALSE],
        [Good("vmess") EXCEPT !.formed = FALSE], Good("other")}
MCLists ==
  {<<>>, <<Good("vless"), Good("vmess")>>, <<Good("vless"), Good("vless"), Good("vmess")>>}
    \cup {<<Good("vless"), line>> : line \in Bad} \cup {<<line>> : line \in Bad}

MCInit ==
  /\ Init
  /\ \/ setting = "maxServers" /\ flag = "absent" /\ file = "absent"
     \/ /\ ~env /\ named = IF hasFile THEN {"from_raw"} ELSE {}
        /\ argLink = FALSE /\ argURL = ~hasFile
        /\ setting \in {"maxServers", "timeout"}
     \/ /\ ~env /\ named = IF hasFile THEN {"link"} ELSE {}
        /\ argLink = TRUE /\ argURL = FALSE

MCSpec == MCInit /\ [][Next]_vars /\ Fairness
==============================================================================
