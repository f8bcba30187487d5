-------------------------- MODULE MCSessionEvents --------------------------
(* Instances of SessionEvents for TLC.                                     *)
EXTENDS SessionEvents, TLC

CONSTANTS w1, w2, p1

\* The waits are interchangeable; the run checks no liveness property.
Symmetry == Permutations(Waits)
=============================================================================
