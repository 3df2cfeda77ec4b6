------------------------------ MODULE MCFailover ------------------------------
(* The instance of Failover that TLC checks: three servers, so that a failover    *)
(* can fail, go on and be exhausted, and two failed checks before a failover.     *)
EXTENDS Failover
==============================================================================
