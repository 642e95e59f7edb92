------------------------- MODULE MCRelayConnection -------------------------
(* TLC instance of RelayConnection: three connection names leave room for   *)
(* an orphan, a closing socket and a fresh attempt at the same time.        *)
EXTENDS RelayConnection
=============================================================================
