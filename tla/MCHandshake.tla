---------------------------- MODULE MCHandshake ----------------------------
(* Model checking of the RDMA handshake.                                    *)
EXTENDS RdmaHandshake
=============================================================================
