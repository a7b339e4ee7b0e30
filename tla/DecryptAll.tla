----------------------------- MODULE DecryptAll -----------------------------
(***************************************************************************)
(* What DecryptItems promises, whether it works item by item or with a     *)
(* pool: an answer, which is the plaintexts of all items that are not      *)
(* deleted, in their order, or the failure of one of them.                 *)
(***************************************************************************)
EXTENDS Naturals, Sequences

CONSTANTS Works(_), Plain(_)    \* whether an item decrypts, and to what

VARIABLES batch, answer

Unanswered == [status |-> "none"]
Wanted == {i \in DOMAIN batch : ~batch[i].deleted}

\* The positions of the wanted items, in their order.
InOrder(at) ==
    /\ \A k \in DOMAIN at : at[k] \in Wanted
    /\ \A i \in Wanted : \E k \in DOMAIN at : at[k] = i
    /\ \A j, k \in DOMAIN at : j < k => at[j] < at[k]

AllOfThem ==
    /\ \A i \in Wanted : Works(batch[i])
    /\ \E n \in 0..Len(batch) : \E at \in [1..n -> DOMAIN batch] :
          /\ InOrder(at)
          /\ answer' = [status |-> "ok", items |-> [k \in 1..n |-> Plain(batch[at[k]])]]

OneFailure ==
    \E i \in Wanted :
        /\ ~Works(batch[i])
        /\ answer' = [status |-> "failed", item |-> batch[i]]

Answer ==
    /\ answer = Unanswered
    /\ AllOfThem \/ OneFailure
    /\ UNCHANGED batch

\* At most one answer, and a true one ...
AllSafety ==
    /\ answer = Unanswered
    /\ [][Answer]_<<batch, answer>>

\* ... and there is one.
AllSpec == AllSafety /\ WF_<<batch, answer>>(Answer)
=============================================================================
