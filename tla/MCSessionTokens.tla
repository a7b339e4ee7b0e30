--------------------------- MODULE MCSessionTokens ---------------------------
(* Small instances of SessionTokens. *)
EXTENDS SessionTokens

CONSTANTS p1, p2, t1, t2

\* two goroutines of one process, next to another process
TwoOfOne == [t \in {t1, t2} |-> p1]
=============================================================================
