----------------------------- MODULE MCRxVring -----------------------------
(* Model checking of the receive ring.                                      *)
EXTENDS RxVring
=============================================================================
