-------------------------- MODULE MCRangeDownload --------------------------
(* TLC instance of RangeDownload; without symmetry, which liveness forbids. *)
EXTENDS RangeDownload, TLC
=============================================================================
