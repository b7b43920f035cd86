----------------------------- MODULE MCControl -----------------------------
(* The control channel for TLC: its constants are numbers.                 *)
EXTENDS ControlChannel, FiniteSetsExt

Budget == 6    \* bound: what may happen in one behaviour, all in all

\* Connections, starts, messages on their own and buffers published are traded
\* for each other.
Within == 2 * cur + starts + asides + MapThenSumSet(LAMBDA c : avail[c], ConnIds) <= Budget
=============================================================================
