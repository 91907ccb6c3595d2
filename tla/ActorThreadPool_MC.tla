------------------------- MODULE ActorThreadPool_MC -------------------------
(* The pool for the model checker.                                         *)
EXTENDS ActorThreadPool

CONSTANTS h0, h1, w0, w1
=============================================================================
