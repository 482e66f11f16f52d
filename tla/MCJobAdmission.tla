--------------------------- MODULE MCJobAdmission ---------------------------
(* TLC instance of JobAdmission: interchangeable processes and keys.       *)
EXTENDS JobAdmission, TLC

CONSTANTS p1, p2, k1, k2

MCRunners == {p1, p2}
MCKeys    == {k1, k2}

Symmetry == Permutations(MCRunners) \cup Permutations(MCKeys)
=============================================================================
