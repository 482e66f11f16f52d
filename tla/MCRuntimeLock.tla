--------------------------- MODULE MCRuntimeLock ---------------------------
(* TLC instances of RuntimeLock: two or three process ids.                 *)
EXTENDS RuntimeLock

CONSTANTS p1, p2, p3

MCRunners == {p1, p2, p3}

MCTwoRunners == {p1, p2}
=============================================================================
