------------------------------ MODULE Positions ------------------------------
(* What a loop over a list leaves that keeps some of its elements. *)
EXTENDS Naturals, Sequences, FiniteSets

\* The k-th smallest of a set of positions.
Nth(S, k) == CHOOSE i \in S : Cardinality({j \in S : j <= i}) = k

\* The elements of a list at the positions S, in their order.
At(s, S) == [k \in 1..Cardinality(S) |-> s[Nth(S, k)]]

ElementsOf(s) == {s[k] : k \in DOMAIN s}

=============================================================================
