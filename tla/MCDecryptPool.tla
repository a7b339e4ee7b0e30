---------------------------- MODULE MCDecryptPool ----------------------------
(* Small batches for DecryptPool. *)
EXTENDS DecryptPool

K1 == [uuid |-> "k1", secret |-> "s1"]
K2 == [uuid |-> "k2", secret |-> "s2"]      \* the session lacks it
Keys == <<K1>>

Plain(u, kind, content) ==
    [uuid |-> u, kind |-> kind, ts |-> 1, deleted |-> FALSE, content |-> content]

Good(u) == EncryptItem(Plain(u, "Note", "text"), K1, u)
Orphan(u) == EncryptItem(Plain(u, "Note", "text"), K2, u)
Deleted(u) == [Good(u) EXCEPT !.deleted = TRUE]
Keyless(u) == [Good(u) EXCEPT !.itemsKeyID = None]
Garbled(u) == EncryptItem(Plain(u, "Note", None), K1, u)
Foreign(u) == EncryptItem(Plain(u, "Unheard", "text"), K1, u)
Key(u) == EncryptItemsKey([uuid |-> u, secret |-> "s3"], 1, u)

Any(u) == {Good(u), Orphan(u), Deleted(u), Keyless(u), Garbled(u), Foreign(u), Key(u)}
Some(u) == {Good(u), Orphan(u), Deleted(u)}

\* up to two items of any sort, and longer lists of the sorts that matter to a
\* pool
Lists ==
    {<<>>}
    \cup {<<e>> : e \in Any("u1")}
    \cup {<<e, f>> : e \in Any("u1"), f \in Any("u2")}
    \cup {<<e, f, g>> : e \in Some("u1"), f \in Some("u2"), g \in Some("u3")}
    \cup {<<e, f, g, h>> : e \in {Good("u1"), Deleted("u1")}, f \in {Good("u2")},
                           g \in {Good("u3"), Orphan("u3")}, h \in {Good("u4"), Orphan("u4")}}
=============================================================================
