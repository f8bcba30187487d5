------------------------ MODULE MCLifecycleHandlers ------------------------
(* Instances of LifecycleHandlers for TLC.                                 *)
EXTENDS LifecycleHandlers

CONSTANTS a, b, c
=============================================================================
