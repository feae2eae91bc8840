------------------------------ MODULE MCS3Purge ------------------------------
(* TLC instance of S3Purge: the .cfg gives every constant its value.       *)
EXTENDS S3Purge
=============================================================================
