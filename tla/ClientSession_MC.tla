------------------------- MODULE ClientSession_MC -------------------------
(* The client for the model checker.                                       *)
EXTENDS ClientSession

CONSTANTS news, alerts
============================================================================
