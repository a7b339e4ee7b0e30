----------------------------- MODULE MCCacheSync -----------------------------
(* Instances of CacheSync for TLC. *)
EXTENDS CacheSync

CONSTANTS n1, n2, n3, n4, n5, p1

At(k) == [kind |-> k, val |-> 0, ts |-> 1, del |-> FALSE]

OneNote == [u \in UUID |-> IF u = n1 THEN At("Note") ELSE None]
NoteAndPrefs ==
    [u \in UUID |-> IF u = n1 THEN At("Note")
                    ELSE IF u = p1 THEN At("UserPreferences") ELSE None]
=============================================================================
