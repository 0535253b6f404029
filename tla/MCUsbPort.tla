------------------------------ MODULE MCUsbPort ------------------------------
(* Instances of UsbPort for TLC; the constants are in the .cfg files.       *)
EXTENDS UsbPort
=============================================================================
