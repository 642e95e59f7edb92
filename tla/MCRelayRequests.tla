--------------------------- MODULE MCRelayRequests ---------------------------
(* TLC instance of RelayRequests: two challenges, which a hostile relay may  *)
(* alternate for ever, and two attempts, so that a stale one is in flight    *)
(* while the next signs.                                                     *)
EXTENDS RelayRequests
=============================================================================
