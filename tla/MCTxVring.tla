----------------------------- MODULE MCTxVring -----------------------------
(* Instances of TxVring for TLC.                                           *)
EXTENDS TxVringQueue

\* Header and payload in one descriptor or in two, a header that is itself in
\* two, a packet whose payload is too large and of which only the header is
\* copied; and the two that are too short: one of less than a header, and one
\* of which only a part of the header is copied.
Chains == {<<3>>, <<2, 1>>, <<1, 2>>, <<2, 2>>, <<1>>, <<1, 3>>}
=============================================================================
