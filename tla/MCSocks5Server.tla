---------------------------- MODULE MCSocks5Server ----------------------------
(* Socks5Server for TLC: clients that may send every unit of an authenticated request. *)
EXTENDS Socks5Server
==============================================================================
