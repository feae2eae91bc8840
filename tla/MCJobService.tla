---------------------------- MODULE MCJobService ----------------------------
(* TLC instance of JobService: the .cfg gives every constant its value.    *)
EXTENDS JobService
=============================================================================
