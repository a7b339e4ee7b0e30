------------------------------ MODULE EditLedger ------------------------------
(***************************************************************************)
(* What an offline cache promises to the person who edits in it.  Every    *)
(* edit has a number.  `mine` holds, per item, the last edit the cache     *)
(* shows; an item is `pending` until its edit is settled; an edit is       *)
(* settled once the account stored it, under whatever name, or refused it. *)
(* A refusal may be lost on its way: the edit is then `lost`, and only an  *)
(* edit that is pending can be.  The cache may stop tracking an edit, or   *)
(* show another in its place, only when it is settled or lost.             *)
(***************************************************************************)
EXTENDS Naturals

CONSTANTS Items, NoEdit

VARIABLES mine, pending, settled, lost

ledger == <<mine, pending, settled, lost>>

LedgerInit ==
    /\ mine = [u \in Items |-> NoEdit]
    /\ pending = {}
    /\ settled \subseteq Nat
    /\ lost = {}

\* the person edits: at any time, over anything
Write(u) ==
    /\ mine' \in [Items -> Nat \cup {NoEdit}]
    /\ mine'[u] # NoEdit
    /\ \A v \in Items \ {u} : mine'[v] = mine[v]
    /\ pending' = pending \cup {u}
    /\ UNCHANGED <<settled, lost>>

\* edits, from here or from elsewhere, are settled; what is lost was pending
Settle ==
    /\ settled \subseteq settled' /\ lost \subseteq lost'
    /\ \A e \in lost' \ (lost \cup settled') : \E u \in pending : mine[u] = e
    /\ UNCHANGED <<mine, pending>>

\* the cache moves on: the items of U show something else, or nothing, or are
\* no longer pending
MoveOn(U) ==
    /\ mine' \in [Items -> Nat \cup {NoEdit}]
    /\ \A u \in Items \ U : mine'[u] = mine[u]
    /\ \A u \in U \cap pending : mine[u] \in settled \cup lost
    /\ \A u \in U : mine'[u] \in settled \cup lost \cup {NoEdit}
    /\ pending' = pending \ U
    /\ UNCHANGED <<settled, lost>>

LedgerNext ==
    \/ \E u \in Items : Write(u)
    \/ Settle
    \/ \E U \in SUBSET Items : MoveOn(U)

LedgerSpec == LedgerInit /\ [][LedgerNext]_ledger
=============================================================================
