----------------------------- MODULE MCItemsKeys -----------------------------
(* Small instances of ItemsKeys. *)
EXTENDS ItemsKeys, TLC

CONSTANTS k1, k2, u1, u2

\* names that nothing has at first are interchangeable
Names == Permutations(UUID)
=============================================================================
