------------------------ MODULE MCRelaySubscriptions ------------------------
(* TLC instances of RelaySubscriptions.  Events a and b share a second, c   *)
(* is one second later and thus in the future at first, forged fails        *)
(* verification; handle h2 has event b from elsewhere.                      *)
EXTENDS RelaySubscriptions

CONSTANTS h2, b, c

MCAt == [e \in Events |-> IF e = c THEN 2 ELSE 1]
MCKnown == {<<h2, b>>} \cap (Handles \X Events)
=============================================================================
