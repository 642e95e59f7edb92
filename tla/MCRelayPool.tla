------------------------------ MODULE MCRelayPool ------------------------------
(* TLC instance of RelayPool: two URLs compete for a pool of one relay.      *)
(* Callers are interchangeable, but liveness properties rule out symmetry.   *)
EXTENDS RelayPool
=============================================================================
