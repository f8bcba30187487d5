--------------------------- MODULE MCFfiTransport ---------------------------
(* Instances of FfiTransport for TLC.                                      *)
EXTENDS FfiTransport

CONSTANTS k1, k2
=============================================================================
