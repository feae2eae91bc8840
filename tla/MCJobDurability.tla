--------------------------- MODULE MCJobDurability ---------------------------
(* TLC instance of JobDurability.                                          *)
EXTENDS JobDurability, TLC

Symmetry == Permutations(Ids) \cup Permutations(Clients)

\* Bound: one deleted job, one job with a missed snapshot and one cancel of a
\* running job per behaviour; the jobs may differ.
FewExceptions ==
    /\ Cardinality(deleted) <= 1
    /\ Cardinality(missed) <= 1
    /\ Cardinality(cancelled) <= 1
=============================================================================
