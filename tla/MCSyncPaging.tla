----------------------------- MODULE MCSyncPaging -----------------------------
(* Small instances of SyncPaging. *)
EXTENDS SyncPaging, TLC

CONSTANTS a, b, c, d, e    \* five items

Five == {a, b, c, d, e}
PushThree == <<a, b, c>>
\* c is new: the others were stored in the order b, a, d, e
FiveStored == (a :> 2) @@ (b :> 1) @@ (c :> 0) @@ (d :> 3) @@ (e :> 4)
Halves == (0 :> 0) @@ (1 :> 3) @@ (2 :> 2)
=============================================================================
