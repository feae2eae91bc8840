---------------------------- MODULE MCJobWriter ----------------------------
(* TLC instance of JobWriter; without symmetry, which liveness forbids.     *)
EXTENDS JobWriter, TLC
=============================================================================
