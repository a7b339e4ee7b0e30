---------------------------- MODULE ConflictRefs ----------------------------
(***************************************************************************)
(* How items.Sync turns the conflicts of an answer into the items of the   *)
(* second request (src/items/sync.go: processConflicts and what it calls): *)
(* which version of each item is sent, under which id and items key, and   *)
(* where references to an item with a new id point.                        *)
(*                                                                         *)
(* CacheSync has the same conflicts with the state they change; here are   *)
(* the keys and references it leaves out.  An item is                      *)
(*   [uuid, type, key, refs, deleted, stamp, content, duplicateOf, parses] *)
(* where content says whose version it is, "mine" or "theirs", and parses  *)
(* whether its content, once decrypted, makes an item: it does not if the  *)
(* type is unknown, the schema refuses the content or it cannot be read.   *)
(***************************************************************************)
EXTENDS Positions

CONSTANTS Fresh,      \* the ids GenUUID may return
          Default,    \* the session's default items key
          SessionKeys,\* the items keys the session has
          None,       \* no item, no id
          Exchanges   \* what may be pushed and answered: [pushed, conflicts]

IsItem(i) ==
    i \in [uuid : {i.uuid}, type : {i.type}, key : {i.key}, refs : {i.refs}, deleted : BOOLEAN,
          stamp : Nat, content : {"mine", "theirs"}, duplicateOf : {i.duplicateOf}, parses : BOOLEAN]

\* The database has an item under an id once; the server names an item that was
\* pushed and has another version of it under the same id, for all conflicts
\* about that item or for none, and always for a sync_conflict.
Legal(items, found) ==
    /\ items \in Seq(ElementsOf(items)) /\ found \in Seq(ElementsOf(found))
    /\ \A i \in ElementsOf(items) : i # None /\ IsItem(i) /\ i.content = "mine" /\ i.uuid \notin Fresh
    /\ \A i, j \in ElementsOf(items) : i.uuid = j.uuid => i = j
    /\ \A c \in ElementsOf(found) :
          /\ c.unsaved \in ElementsOf(items)
          /\ c.server = None => c.type # "sync_conflict"
          /\ c.server # None => /\ IsItem(c.server)
                                /\ c.server.uuid = c.unsaved.uuid
                                /\ c.server.type = "ItemsKey" <=> c.unsaved.type = "ItemsKey"
    /\ \A c, d \in ElementsOf(found) :
          c.unsaved.uuid = d.unsaved.uuid => (c.server = None <=> d.server = None)

ASSUME ExchangesAssumption ==
    /\ Default \in SessionKeys
    /\ \A e \in Exchanges : Legal(e.pushed, e.conflicts)

VARIABLES pushed,     \* input.Items
          conflicts,  \* syncOutput.Conflicts
          next,       \* the conflict that is processed next
          refReMap,   \* the new id of each item that was given one
          resolved,   \* conflictsToSync
          outcome     \* "duplicates" until these are removed, "running", "push",
                      \* "nothing" (all conflicts skipped) or "failed" (with an
                      \* error or a panic: nothing is sent)

conflictVars == <<pushed, conflicts, next, refReMap, resolved, outcome>>

IsEncryptedWithMasterKey(item) == item.type = "ItemsKey"

\* DecryptAndParseItem returns an item.  For an items key it returns none and no
\* error, so that what its caller does with the item panics.
DecryptAndParseItem(item) == /\ ~IsEncryptedWithMasterKey(item)
                             /\ item.key \in SessionKeys
                             /\ item.parses

-----------------------------------------------------------------------------
ConflictInit == /\ \E e \in Exchanges : /\ pushed = e.pushed
                                        /\ conflicts = e.conflicts
                /\ next = 1
                /\ refReMap = <<>>
                /\ resolved = <<>>
                /\ outcome = "duplicates"

\* What two conflicts have in common if DeDupe keeps only the first of them.
Identity(c) == IF c.server # None THEN <<"server", c.server.uuid>> ELSE <<"unsaved", c.unsaved.uuid>>

DeDupeConflicts == /\ outcome = "duplicates"
          /\ outcome' = "running"
          /\ conflicts' = At(conflicts, {k \in DOMAIN conflicts :
                                           \A j \in 1..(k - 1) :
                                              Identity(conflicts[j]) # Identity(conflicts[k])})
          /\ UNCHANGED <<pushed, next, refReMap, resolved>>

Conflict == conflicts[next]

Is(types) == outcome = "running" /\ next <= Len(conflicts) /\ Conflict.type \in types

\* The item of input.Items with an id.
Pushed(uuid) == {k \in DOMAIN pushed : pushed[k].uuid = uuid}
Local(uuid) == pushed[CHOOSE k \in Pushed(uuid) : \A other \in Pushed(uuid) : k <= other]

Send(item) == /\ resolved' = Append(resolved, item)
              /\ next' = next + 1
              /\ UNCHANGED <<pushed, conflicts, refReMap, outcome>>

Fail == /\ outcome' = "failed"
        /\ UNCHANGED <<pushed, conflicts, next, refReMap, resolved>>

KeepServers ==
    /\ \/ Is({"sync_conflict"}) /\ Conflict.server.type = "ItemsKey"
       \/ Is({"content_type_error", "content_error", "readonly_error"}) /\ Conflict.server # None
    /\ Send(Conflict.server)

Skip == /\ \/ Is({"uuid_error", "invalid_server_item"})
           \/ Is({"content_type_error", "content_error", "readonly_error"}) /\ Conflict.server = None
        /\ next' = next + 1
        /\ UNCHANGED <<pushed, conflicts, refReMap, resolved, outcome>>

Unhandled == outcome = "running" /\ Is({"unknown"}) /\ Fail

InSync == Is({"sync_conflict"}) /\ Conflict.server.type # "ItemsKey"

DeletedAtServer == InSync /\ Conflict.server.deleted

KeepDeletedAtServer ==
    /\ DeletedAtServer
    /\ Send([Local(Conflict.server.uuid) EXCEPT !.stamp = Conflict.server.stamp])

\* Variant: the server's version is sent although the local one is newer.
KeepOlder == /\ InSync /\ ~Conflict.server.deleted
             /\ Conflict.unsaved.stamp > Conflict.server.stamp
             /\ Send(Conflict.server)

KeepNewer ==
    /\ InSync /\ ~Conflict.server.deleted
    /\ Conflict.unsaved.stamp > Conflict.server.stamp
    /\ Send([Conflict.unsaved EXCEPT !.stamp = Conflict.server.stamp])

\* The conflicts after which there are two items, and the id they share.
Duplicating == \/ Is({"uuid_conflict"})
               \/ /\ InSync /\ ~Conflict.server.deleted
                  /\ Conflict.unsaved.stamp <= Conflict.server.stamp

Shared == IF Is({"uuid_conflict"}) THEN Conflict.unsaved.uuid ELSE Conflict.server.uuid

DeletionWins ==
    /\ Duplicating /\ Local(Shared).deleted
    /\ Send([(IF Is({"uuid_conflict"}) THEN Conflict.unsaved ELSE Conflict.server)
               EXCEPT !.deleted = TRUE])

NewIds == {refReMap[u] : u \in DOMAIN refReMap}

\* EncryptItem: a new version under the default key that is nobody's duplicate.
Encrypted(item) == [item EXCEPT !.key = Default, !.duplicateOf = None]

\* The pointer to the original is set on an element of a slice after the item
\* that is sent was copied from it, and so is lost.
Duplicate(item, uuid) == Encrypted([item EXCEPT !.uuid = uuid])

DuplicateLocal ==
    /\ Duplicating /\ ~Local(Shared).deleted /\ DecryptAndParseItem(Local(Shared))
    /\ \E uuid \in Fresh \ NewIds :
         /\ refReMap' = [u \in DOMAIN refReMap \cup {Shared} |->
                            IF u = Shared THEN uuid ELSE refReMap[u]]
         /\ resolved' = Append(resolved, Duplicate(Local(Shared), uuid))
    /\ next' = next + 1
    /\ UNCHANGED <<pushed, conflicts, outcome>>

CannotDuplicate ==
    /\ Duplicating /\ ~Local(Shared).deleted /\ ~DecryptAndParseItem(Local(Shared))
    /\ Fail

-----------------------------------------------------------------------------
(* updateEncryptedItemRefs, when every conflict has its item.              *)

Untouched(item) == item.deleted \/ IsEncryptedWithMasterKey(item)

Renamed(uuid) == IF uuid \in DOMAIN refReMap THEN refReMap[uuid] ELSE uuid

\* Variant: what was given a new id keeps its references.
RemappedOthers(item) ==
    IF item.uuid \in NewIds THEN item
    ELSE Encrypted([item EXCEPT !.refs = {Renamed(u) : u \in item.refs}])

\* Encrypted again, and without its original, only if a reference changed.
Remapped(item) ==
    IF Untouched(item) \/ item.refs \cap DOMAIN refReMap = {} THEN item
    ELSE Encrypted([item EXCEPT !.refs = {Renamed(u) : u \in item.refs}])

Remappable(item) == Untouched(item) \/ (item.key = Default /\ DecryptAndParseItem(item))

AllProcessed == outcome = "running" /\ next > Len(conflicts)

updateEncryptedItemRefs ==
    /\ AllProcessed
    /\ \A k \in DOMAIN resolved : Remappable(resolved[k])
    /\ resolved' = [k \in DOMAIN resolved |-> Remapped(resolved[k])]
    /\ outcome' = IF resolved = <<>> THEN "nothing" ELSE "push"
    /\ UNCHANGED <<pushed, conflicts, next, refReMap>>

CannotRemap == /\ AllProcessed
               /\ \E k \in DOMAIN resolved : ~Remappable(resolved[k])
               /\ Fail

ConflictNext == \/ DeDupeConflicts \/ Skip \/ KeepServers \/ KeepDeletedAtServer \/ KeepNewer
                \/ DeletionWins \/ DuplicateLocal \/ CannotDuplicate \/ Unhandled
                \/ updateEncryptedItemRefs \/ CannotRemap

-----------------------------------------------------------------------------
Resolved == {resolved[k] : k \in DOMAIN resolved}

\* When the second request is sent, no item in it refers to an id whose local
\* item has a new one, in whichever order the conflicts came; and the items
\* that were given new ids are in it (src/items/sync.go:612, "to remap any
\* references to existing items with new uuids").
ReferencesFollow ==
    outcome = "push" =>
        /\ \A item \in Resolved : ~Untouched(item) => item.refs \cap DOMAIN refReMap = {}
        /\ \A u \in DOMAIN refReMap : \E item \in Resolved : item.uuid = refReMap[u]

\* The local change of a conflict is to be sent.
Sent(c) == \E item \in Resolved : /\ Renamed(c.unsaved.uuid) = item.uuid
                                  /\ item.deleted = c.unsaved.deleted
                                  /\ ~item.deleted => item.content = "mine"

\* A local change that is in conflict is in the second request, under its id or
\* a new one, unless the server refuses the item or the change is to an items
\* key, and no two items of the request share an id (src/items/sync.go:383-605).
EveryConflictAnswered ==
    outcome = "push" =>
        /\ \A c \in ElementsOf(conflicts) :
              (c.type \in {"sync_conflict", "uuid_conflict"} /\ c.unsaved.type # "ItemsKey") => Sent(c)
        /\ \A j, k \in DOMAIN resolved : resolved[j].uuid = resolved[k].uuid => j = k

-----------------------------------------------------------------------------
(* The inductive invariant behind these two: what has become of the          *)
(* conflicts before next.                                                    *)

Processed == {conflicts[j] : j \in 1..(next - 1)}

StepInv == /\ outcome \in {"duplicates", "running", "push", "nothing", "failed"}
           /\ next \in 1..(Len(conflicts) + 1)
           /\ outcome = "duplicates" => next = 1 /\ resolved = <<>> /\ refReMap = <<>>
           /\ outcome # "duplicates" =>
                 \A j, k \in DOMAIN conflicts :
                    conflicts[j].unsaved.uuid = conflicts[k].unsaved.uuid => j = k

\* new ids are given to processed items, each its own
NewIdsInv == /\ DOMAIN refReMap \subseteq {c.unsaved.uuid : c \in Processed}
             /\ NewIds \subseteq Fresh
             /\ \A u, v \in DOMAIN refReMap : refReMap[u] = refReMap[v] => u = v

\* what is to be sent is of a processed conflict, and under its id
ResolvedInv ==
    /\ resolved \in Seq(Resolved)
    /\ \A item \in Resolved : /\ IsItem(item)
                              /\ \E c \in Processed : item.uuid = Renamed(c.unsaved.uuid)
    /\ \A j, k \in DOMAIN resolved : resolved[j].uuid = resolved[k].uuid => j = k

SentInv ==
    /\ \A c \in Processed :
          c.type \in {"sync_conflict", "uuid_conflict"} /\ c.unsaved.type # "ItemsKey" => Sent(c)
    /\ \A u \in DOMAIN refReMap : \E item \in Resolved : item.uuid = refReMap[u]

ConflictInv ==
    /\ Legal(pushed, conflicts)
    /\ StepInv
    /\ outcome \in {"duplicates", "running"} =>
          NewIdsInv /\ ResolvedInv /\ SentInv
    /\ ReferencesFollow
    /\ EveryConflictAnswered

-----------------------------------------------------------------------------
\* An item that was given a new id says of which item it is the duplicate
\* (src/items/sync.go:429, "set it as 'duplicate_of' original").
DuplicatesNamed ==
    \A u \in DOMAIN refReMap : \A item \in Resolved :
        item.uuid = refReMap[u] => item.duplicateOf = u

=============================================================================
