--------------------------- MODULE MCEventOutbox ---------------------------
(* TLC instance of EventOutbox: two interchangeable flush-outbox processes. *)
EXTENDS EventOutbox, TLC

CONSTANTS f1, f2

MCFlushers == {f1, f2}

FlusherSymmetry == Permutations(MCFlushers)
=============================================================================
