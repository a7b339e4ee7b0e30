----------------------------- MODULE ItemCipher -----------------------------
(***************************************************************************)
(* Items as plaintext and encrypted, and the choice of keys.  Encryption   *)
(* is symbolic: what is sealed with a key opens with that key only.  An    *)
(* item's content is sealed with a key of its own, and that key with an    *)
(* items key, whose UUID the item names, or with the master key.           *)
(***************************************************************************)
EXTENDS Naturals, Sequences

CONSTANTS
    None,           \* an absent value: no key, no UUID, no content
    MasterKey,      \* Session.MasterKey
    SessionKeys,    \* Session.ItemsKeys, a list of [uuid, secret]
    ParsedKinds     \* content types that ParseItem knows, beside SN|ItemsKey

(* crypto: EncryptString and DecryptCipherText *)
Seal(key, plain) == [key |-> key, plain |-> plain]
Opens(sealed, key) == sealed.key = key

\* EncryptItem and DecryptedItem.Encrypt: neither copies DuplicateOf
EncryptItem(item, ik, itemKey) ==
    [uuid |-> item.uuid, kind |-> item.kind, ts |-> item.ts, deleted |-> item.deleted,
     duplicateOf |-> None,
     itemsKeyID |-> ik.uuid,
     encItemKey |-> Seal(ik.secret, itemKey),
     content |-> Seal(itemKey, item.content)]

\* EncryptItemsKey: under the master key, and no ItemsKeyID
EncryptItemsKey(ik, ts, itemKey) ==
    [uuid |-> ik.uuid, kind |-> "ItemsKey", ts |-> ts, deleted |-> FALSE,
     duplicateOf |-> None,
     itemsKeyID |-> None,
     encItemKey |-> Seal(MasterKey, itemKey),
     content |-> Seal(itemKey, ik.secret)]

IsEncryptedWithMasterKey(kind) == kind = "ItemsKey"

\* the secret of the first key in the list with that UUID
GetMatchingItem(uuid, iks) ==
    LET found == {i \in DOMAIN iks : iks[i].uuid = uuid} IN
    IF found = {} THEN None ELSE iks[CHOOSE i \in found : \A j \in found : i <= j].secret

\* a key of the list that is passed, the master key, or a key of the session
KeyFor(e, iks) ==
    IF GetMatchingItem(e.itemsKeyID, iks) # None THEN GetMatchingItem(e.itemsKeyID, iks)
    ELSE IF IsEncryptedWithMasterKey(e.kind) THEN MasterKey
    ELSE IF e.itemsKeyID = None THEN None
    ELSE GetMatchingItem(e.itemsKeyID, SessionKeys)

\* DecryptItemOnly: first the item's key, then the content
Decryptable(e, iks) ==
    /\ ~e.deleted
    /\ KeyFor(e, iks) # None
    /\ Opens(e.encItemKey, KeyFor(e, iks))
    /\ Opens(e.content, e.encItemKey.plain)

DecryptItem(e) ==
    [uuid |-> e.uuid, kind |-> e.kind, ts |-> e.ts, deleted |-> e.deleted,
     duplicateOf |-> e.duplicateOf,
     itemsKeyID |-> e.itemsKeyID,
     content |-> e.content.plain]

\* parseNote and its like panic over content that is not what they expect
Readable(d) == d.content # None

\* DecryptedItems.Parse: one item that cannot be parsed and there is no list
Parsable(d) == d.kind \in ParsedKinds /\ Readable(d)
Unparsed(ds) == {i \in DOMAIN ds : ds[i].kind # "ItemsKey" /\ ~Parsable(ds[i])}
Kept(ds) == {i \in DOMAIN ds : ds[i].kind # "ItemsKey"}

\* The items at the positions that are kept, in their order.
InOrder(at, kept) ==
    /\ \A i \in kept : \E k \in DOMAIN at : at[k] = i
    /\ \A j, k \in DOMAIN at : j < k => at[j] < at[k]

Parsed(ds) ==
    {[k \in DOMAIN at |-> ds[at[k]]] :
        at \in {a \in UNION {[1..n -> Kept(ds)] : n \in 0..Len(ds)} : InOrder(a, Kept(ds))}}

ParseFailure(ds) ==
    LET first == CHOOSE i \in Unparsed(ds) : \A j \in Unparsed(ds) : i <= j IN
    IF ds[first].kind \in ParsedKinds THEN "panic" ELSE "unhandled type"

=============================================================================
