-------------------------- MODULE MCRequestBridge --------------------------
(* Instances of RequestBridge for TLC.                                     *)
EXTENDS RequestBridge

CONSTANTS e1, w1
=============================================================================
