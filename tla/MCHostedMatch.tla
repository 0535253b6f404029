--------------------------- MODULE MCHostedMatch ---------------------------
(* Instances of HostedMatch for TLC; the constants are in the .cfg files.   *)
EXTENDS HostedMatch
=============================================================================
