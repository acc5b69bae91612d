----------------------------- MODULE MCLogServer -----------------------------
(* Instances of LogServer for TLC: readStep is scaled down to 3 bytes. *)
EXTENDS LogServer
==============================================================================
