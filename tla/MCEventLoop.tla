---------------------------- MODULE MCEventLoop ----------------------------
(* Instances of EventLoop for TLC.                                         *)
EXTENDS EventLoop

\* The descriptors after standard input, output and error.
FourFds == 3..6
=============================================================================
