--------------------------- MODULE MCBackendQueue ---------------------------
(* Model-checking instance of BackendQueue.                                *)
EXTENDS BackendQueue

CONSTANTS h1, h2, out

MCHybis == {h1, h2}
=============================================================================
