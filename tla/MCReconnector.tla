---------------------------- MODULE MCReconnector ----------------------------
(* The instance of Reconnector that TLC checks, and the faulty variants its     *)
(* properties are tested against.                                               *)
EXTENDS Reconnector

\* Unlimited and limited retries; a cap below the minimum, values SetDefaults
\* replaces, and a range wide enough for the backoff to grow, jitter and be capped.
MCRawConfigs ==
  { [MaxRetries |-> 0,  MinBackoff |-> 8,  MaxBackoff |-> 20, BackoffFactor |-> 200],
    [MaxRetries |-> 1,  MinBackoff |-> 8,  MaxBackoff |-> 3,  BackoffFactor |-> 115],
    [MaxRetries |-> 3,  MinBackoff |-> 8,  MaxBackoff |-> 20, BackoffFactor |-> 100],
    [MaxRetries |-> 4,  MinBackoff |-> 9,  MaxBackoff |-> 12, BackoffFactor |-> 110],
    [MaxRetries |-> -1, MinBackoff |-> 0,  MaxBackoff |-> 4,  BackoffFactor |-> 150] }
==============================================================================
