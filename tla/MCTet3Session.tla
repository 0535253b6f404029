--------------------------- MODULE MCTet3Session ---------------------------
(* Instances of Tet3Session for TLC; the constants are in the .cfg files.   *)
EXTENDS Tet3Session
=============================================================================
