----------------------------- MODULE MCJobEvents -----------------------------
(* TLC instance of JobEvents.                                              *)
EXTENDS JobEvents, TLC

Symmetry == Permutations(Updaters) \cup Permutations(Subscribers)
=============================================================================
