----------------------------- MODULE MCInstall -----------------------------
(* Instances of Install for TLC; the constants are in the .cfg files.       *)
EXTENDS Install
=============================================================================
