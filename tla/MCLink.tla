------------------------------- MODULE MCLink -------------------------------
(* VhostUserLink for TLC; the .cfg files give the constants.               *)
EXTENDS VhostUserLink
=============================================================================
