--------------------------- MODULE MCSabrDownload ---------------------------
(* TLC instance of SabrDownload; without symmetry, which liveness forbids.  *)
EXTENDS SabrDownload, TLC
=============================================================================
