------------------------------ MODULE ItemsKeys ------------------------------
(***************************************************************************)
(* The items keys: the server's items SN|ItemsKey, their copies in the     *)
(* database and the list of decrypted keys in the session, from which the  *)
(* default key is chosen.  Every other item is encrypted under one of the  *)
(* keys.  Other clients rotate the key while this one edits and syncs.     *)
(*                                                                         *)
(* cache.Sync is followed from the request on in the steps in which keys,  *)
(* database and token move; CacheSync has the rest of it (deletions made   *)
(* here, refusals, batches).  A key is never deleted.                      *)
(***************************************************************************)
EXTENDS Naturals

CONSTANTS
    Key,            \* names of items keys
    UUID,           \* names of other items
    None,
    FirstKey,       \* the key of the account when the model starts
    MaxClock, MaxFaults    \* bounds of the model

Name == Key \cup UUID

\* an encrypted item: the key it is under (None: the master key), created_at and
\* updated_at timestamps, and for a key the isDefault of its content
Item == [under : Key \cup {None}, made : Nat, ts : Nat, marked : BOOLEAN, del : BOOLEAN]
ItemMap == [Name -> Item \cup {None}]
NoItems == [n \in Name |-> None]

\* SessionItemsKey, without the key itself
SessionKey == [made : Nat, ts : Nat, marked : BOOLEAN]

ASSUME KeysAssumption ==
    /\ None \notin Item /\ None \notin SessionKey /\ None \notin Name
    /\ Key \cap UUID = {}
    /\ FirstKey \in Key
    /\ MaxClock \in Nat /\ MaxFaults \in Nat

VARIABLES
    server, clock,         \* the account, tombstones included, and its time
    db, dirty, token,      \* the database
    keys, default,         \* Session.ItemsKeys, Session.DefaultItemsKey
    \* a running cache.Sync
    pc, push, sent, theirs, resolved, saved, got, newToken,
    \* history
    synced,                \* the last sync of this session has succeeded
    faults

serverVars == <<server, clock>>
dbVars == <<db, dirty, token>>
sessionVars == <<keys, default>>
runVars == <<push, sent, theirs, resolved, saved, got, newToken>>
vars == <<serverVars, dbVars, sessionVars, pc, runVars, synced, faults>>

Held(f) == {n \in DOMAIN f : f[n] # None}
Over(old, new) == [n \in Name |-> IF new[n] # None THEN new[n] ELSE old[n]]
Newest(f, g) == [n \in Name |-> IF g[n] = None \/ (f[n] # None /\ f[n].ts >= g[n].ts)
                                THEN f[n] ELSE g[n]]

Init ==
    /\ server = [NoItems EXCEPT ![FirstKey] =
          [under |-> None, made |-> 1, ts |-> 1, marked |-> TRUE, del |-> FALSE]]
    /\ clock = 1
    /\ db = NoItems /\ dirty = {} /\ token = 0
    /\ keys = [k \in Key |-> None] /\ default = None
    /\ pc = "idle" /\ push = NoItems /\ sent = 0 /\ theirs = NoItems
    /\ resolved = NoItems /\ saved = NoItems /\ got = NoItems /\ newToken = 0
    /\ synced = FALSE /\ faults = 0

---------------------------------------------------------------------------
(* The keys of the session. *)

Unmarked(i) == [made |-> i.made, ts |-> i.ts, marked |-> FALSE]

AsSessionKey(i) == [made |-> i.made, ts |-> i.ts, marked |-> i.marked]

KeysIn(f) == {k \in Key : f[k] # None}

\* Variant: a session that has keys takes no others over.
KeptKeys(f) ==
    IF Held(keys) # {} THEN keys
    ELSE [k \in Key |-> IF f[k] = None THEN None ELSE Unmarked(f[k])]

\* mergeItemsKeysSlices: the newer wins, the session's when they are equally old
\* (the keys of f lose their mark on the way)
MergedKeys(f) ==
    [k \in Key |-> IF f[k] = None \/ (keys[k] # None /\ keys[k].ts >= f[k].ts)
                   THEN keys[k] ELSE Unmarked(f[k])]

Marked(ks) == {k \in Held(ks) : ks[k].marked}

\* Variant: only a marked key becomes the default.
MergeMarkedOnly(f) ==
    /\ keys' = MergedKeys(f)
    /\ IF Marked(keys') = {} THEN UNCHANGED default ELSE default' \in Marked(keys')

\* processCachedItemsKeys: a marked key, else the one created last
MergeKeys(f) ==
    /\ keys' = MergedKeys(f)
    /\ IF Held(keys') = {} THEN UNCHANGED default
       ELSE IF Marked(keys') # {} THEN default' \in Marked(keys')
       ELSE default' \in {k \in Held(keys') :
                            \A j \in Held(keys') : keys'[j].made <= keys'[k].made}

\* Variant: the keys are replaced and the default key is not chosen anew.
ReplaceListOnly(f) ==
    IF KeysIn(f) = {} THEN UNCHANGED sessionVars
    ELSE /\ keys' = [k \in Key |-> IF f[k] = None THEN None ELSE AsSessionKey(f[k])]
         /\ UNCHANGED default

\* processSessionItemsKeysInSavedItems: the keys of the saved items, else of the
\* retrieved ones, replace those of the session; a marked one is the default,
\* else the one updated last
ReplaceKeys(f) ==
    IF KeysIn(f) = {} THEN UNCHANGED sessionVars
    ELSE /\ keys' = [k \in Key |-> IF f[k] = None THEN None ELSE AsSessionKey(f[k])]
         /\ IF Marked(keys') # {} THEN default' \in Marked(keys')
            ELSE default' \in {k \in Held(keys') :
                                 \A j \in Held(keys') : keys'[j].ts <= keys'[k].ts}

---------------------------------------------------------------------------
(* Other clients (external). *)

RemoteKeys == KeysIn(server)

\* they rotate the key: a new default, and the marks of the old keys are
\* removed with it, or later, or never
RemoteRotate(k, olds) ==
    /\ clock < MaxClock
    /\ server[k] = None
    /\ olds \subseteq RemoteKeys
    /\ server' = [n \in Name |->
          IF n = k THEN [under |-> None, made |-> clock + 1, ts |-> clock + 1,
                         marked |-> TRUE, del |-> FALSE]
          ELSE IF n \in olds THEN [server[n] EXCEPT !.marked = FALSE, !.ts = clock + 1]
          ELSE server[n]]
    /\ clock' = clock + 1
    /\ UNCHANGED <<dbVars, sessionVars, pc, runVars, synced, faults>>

\* they create, edit or delete an item
RemoteSave(u, k, del) ==
    /\ clock < MaxClock
    /\ k \in RemoteKeys
    /\ server[u] = None => ~del /\ db[u] = None /\ resolved[u] = None
    /\ server' = [server EXCEPT ![u] =
          [under |-> k, made |-> 0, ts |-> clock + 1, marked |-> FALSE, del |-> del]]
    /\ clock' = clock + 1
    /\ UNCHANGED <<dbVars, sessionVars, pc, runVars, synced, faults>>

---------------------------------------------------------------------------
(* The application, between syncs. *)

\* SaveItems: encrypts under the default key what it has decrypted, or something new
SaveItem(u) ==
    /\ pc = "idle"
    /\ default # None
    /\ clock < MaxClock    \* no edit that could not be pushed within the bound
    /\ db[u] = None => server[u] = None
    /\ db[u] # None => keys[db[u].under] # None
    /\ db' = [db EXCEPT ![u] =
          [under |-> default, made |-> 0, ts |-> IF db[u] = None THEN 0 ELSE db[u].ts,
           marked |-> FALSE, del |-> FALSE]]
    /\ dirty' = dirty \cup {u}
    /\ UNCHANGED <<serverVars, token, sessionVars, pc, runVars, synced, faults>>

---------------------------------------------------------------------------
(* The sync endpoint (external), as in CacheSync. *)

Stale(f) == {n \in Held(f) : server[n] # None /\ server[n].ts # f[n].ts}
Now(f) == IF Held(f) = Stale(f) THEN clock ELSE clock + 1
SavedOf(f) == [n \in Name |-> IF n \in Held(f) \ Stale(f)
                              THEN [f[n] EXCEPT !.ts = Now(f)] ELSE None]
ChangedSince(t, f) == [n \in Name |-> IF /\ server[n] # None /\ server[n].ts > t
                                         /\ n \notin Stale(f)
                                      THEN server[n] ELSE None]
Stores(f) ==
    /\ Now(f) <= MaxClock
    /\ server' = Over(server, SavedOf(f))
    /\ clock' = Now(f)

---------------------------------------------------------------------------
(* cache.Sync and items.Sync *)

\* without a default key everything is asked for again
TokenSent(d) == IF d = None THEN 0 ELSE token

\* the keys of the database are merged into the session, when it has any items
Begin ==
    /\ pc = "idle"
    /\ IF Held(db) = {} THEN UNCHANGED sessionVars ELSE MergeKeys(db)
    /\ push' = [n \in Name |-> IF n \in dirty THEN db[n] ELSE None]
    /\ sent' = TokenSent(default')
    /\ synced' = FALSE
    /\ pc' = "request"
    /\ UNCHANGED <<serverVars, dbVars, theirs, resolved, saved, got, newToken, faults>>

Return(next) ==
    /\ pc' = next
    /\ push' = (IF next = "idle" THEN NoItems ELSE push)
    /\ sent' = (IF next = "idle" THEN 0 ELSE sent)
    /\ theirs' = NoItems /\ resolved' = NoItems
    /\ saved' = NoItems /\ got' = NoItems /\ newToken' = 0

\* nothing to push and a token younger than MinSyncInterval
Skip ==
    /\ pc = "request"
    /\ push = NoItems /\ sent # 0
    /\ synced' = TRUE
    /\ Return("idle")
    /\ UNCHANGED <<serverVars, dbVars, sessionVars, faults>>

Request ==
    /\ pc = "request"
    /\ Stores(push)
    /\ saved' = SavedOf(push)
    /\ got' = ChangedSince(sent, push)
    /\ newToken' = Now(push)
    /\ theirs' = [n \in Name |-> IF n \in Stale(push) THEN server[n] ELSE None]
    /\ ReplaceKeys(IF Held(saved') # {} THEN saved' ELSE got')
    /\ pc' = "resolve"
    /\ UNCHANGED <<dbVars, push, sent, resolved, synced, faults>>

NoConflict ==
    /\ pc = "resolve"
    /\ Held(theirs) = {}
    /\ got' = Newest(got, saved)
    /\ pc' = "saveSaved"
    /\ UNCHANGED <<serverVars, dbVars, sessionVars, push, sent, theirs, resolved,
                   saved, newToken, synced, faults>>

\* processSyncConflict: the local item is pushed again, over the server's
KeepsLocal(u) == theirs[u].del \/ push[u].ts > theirs[u].ts

\* DecryptItem, and in updateEncryptedItemRefs "not encrypted with default key"
CanResolve(u) ==
    /\ default # None /\ keys[default] # None
    /\ IF KeepsLocal(u) THEN push[u].under = default ELSE keys[push[u].under] # None

Resolve ==
    /\ pc = "resolve"
    /\ LET c == Held(theirs)
           dups == {u \in c : ~KeepsLocal(u)}
       IN /\ c # {}
          /\ \A u \in c : CanResolve(u)
          /\ \E name \in [dups -> {u \in UUID : db[u] = None /\ server[u] = None}] :
                /\ \A u, v \in dups : name[u] = name[v] => u = v
                /\ resolved' = [n \in Name |->
                      IF \E u \in dups : name[u] = n
                      THEN [push[CHOOSE u \in dups : name[u] = n] EXCEPT !.under = default]
                      ELSE IF n \in c \ dups THEN [push[n] EXCEPT !.ts = theirs[n].ts]
                      ELSE None]
    /\ pc' = "resync"
    /\ UNCHANGED <<serverVars, dbVars, sessionVars, push, sent, theirs, saved, got,
                   newToken, synced, faults>>

\* an item in conflict cannot be decrypted, or is not under the default key: an
\* error, after which cache.Sync returns or tries items.Sync again
CannotResolve ==
    /\ pc = "resolve"
    /\ \E u \in Held(theirs) : ~CanResolve(u)
    /\ \E next \in {"idle", "request"} : Return(next)
    /\ UNCHANGED <<serverVars, dbVars, sessionVars, synced, faults>>

\* the second request; saved items keep what cache.Sync passed
Resync ==
    /\ pc = "resync"
    /\ Stores(resolved)
    /\ IF Stale(resolved) # {}
       THEN /\ \E next \in {"idle", "request"} : Return(next)
            /\ UNCHANGED sessionVars
       ELSE LET both == Newest(saved, SavedOf(resolved))
                mine == [n \in Name |-> IF both[n] # None /\ push[n] # None
                                        THEN [push[n] EXCEPT !.ts = both[n].ts] ELSE None]
                items == Newest(got, ChangedSince(sent, resolved))
            IN /\ saved' = mine
               /\ got' = Newest(items, mine)
               /\ ReplaceKeys(IF Held(mine) # {} THEN mine ELSE items)
               /\ pc' = "saveSaved"
               /\ UNCHANGED <<push, sent, theirs, resolved, newToken>>
    /\ UNCHANGED <<dbVars, synced, faults>>

\* SaveCacheItems and DeleteCacheItems
Written(f, b) ==
    [n \in Name |-> IF n \in b /\ f[n] # None
                    THEN IF f[n].del THEN None ELSE f[n]
                    ELSE db[n]]

SaveSaved ==
    /\ pc = "saveSaved"
    /\ db' = Written(saved, Name)
    /\ dirty' = dirty \ Held(push)
    /\ pc' = "saveItems"
    /\ UNCHANGED <<serverVars, token, sessionVars, runVars, synced, faults>>

\* Variant: items keys are kept in the session only.
SaveItemsOnly ==
    /\ pc = "saveItems"
    /\ db' = Written(got, UUID)
    /\ dirty' = dirty \ Held(got)
    /\ pc' = "mergeKeys"
    /\ UNCHANGED <<serverVars, token, sessionVars, runVars, synced, faults>>

SaveItems ==
    /\ pc = "saveItems"
    /\ db' = Written(got, Name)
    /\ dirty' = dirty \ Held(got)
    /\ pc' = "mergeKeys"
    /\ UNCHANGED <<serverVars, token, sessionVars, runVars, synced, faults>>

\* the keys among the items are merged into the session once more
MergeRetrieved ==
    /\ pc = "mergeKeys"
    /\ IF KeysIn(got) = {} THEN UNCHANGED sessionVars ELSE MergeKeys(got)
    /\ pc' = "dropToken"
    /\ UNCHANGED <<serverVars, dbVars, runVars, synced, faults>>

DropToken ==
    /\ pc = "dropToken"
    /\ token' = 0
    /\ pc' = "saveToken"
    /\ UNCHANGED <<serverVars, db, dirty, sessionVars, runVars, synced, faults>>

SaveToken ==
    /\ pc = "saveToken"
    /\ token' = newToken
    /\ synced' = TRUE
    /\ Return("idle")
    /\ UNCHANGED <<serverVars, db, dirty, sessionVars, faults>>

---------------------------------------------------------------------------
(* Faults. *)

\* what of the current bulk write is committed
Committed ==
    \E b \in SUBSET Name :
        \/ pc = "saveSaved" /\ db' = Written(saved, b) /\ dirty' = dirty \ (b \cap Held(saved))
        \/ pc = "saveItems" /\ db' = Written(got, b) /\ dirty' = dirty \ (b \cap Held(got))
        \/ pc \notin {"saveSaved", "saveItems"} /\ b = {} /\ UNCHANGED <<db, dirty>>

\* cache.Sync returns an error: the session lives on with the keys it has
Fail ==
    /\ pc # "idle" /\ faults < MaxFaults
    /\ Committed
    /\ Return("idle")
    /\ faults' = faults + 1
    /\ UNCHANGED <<serverVars, token, sessionVars, synced>>

\* the process ends, with or without a sync running, and a session is imported
\* again (ImportSession), which takes no keys over
Restart ==
    /\ faults < MaxFaults
    /\ Committed
    /\ Return("idle")
    /\ keys' = [k \in Key |-> None] /\ default' = None
    /\ synced' = FALSE
    /\ faults' = faults + 1
    /\ UNCHANGED <<serverVars, token>>

Next ==
    \/ \E k \in Key, olds \in {{}, {j \in RemoteKeys : server[j].marked}} : RemoteRotate(k, olds)
    \/ \E u \in UUID, k \in Key, del \in BOOLEAN : RemoteSave(u, k, del)
    \/ \E u \in UUID : SaveItem(u)
    \/ Begin \/ Skip \/ Request \/ NoConflict \/ Resolve \/ CannotResolve \/ Resync
    \/ SaveSaved \/ SaveItems \/ MergeRetrieved \/ DropToken \/ SaveToken
    \/ Fail \/ Restart

Spec == Init /\ [][Next]_vars

---------------------------------------------------------------------------
(* Properties. *)

\* Every variable has its type.
TypeOK ==
    /\ server \in ItemMap /\ clock \in Nat
    /\ db \in ItemMap /\ dirty \subseteq Name /\ token \in Nat
    /\ keys \in [Key -> SessionKey \cup {None}] /\ default \in Key \cup {None}
    /\ pc \in {"idle", "request", "resolve", "resync", "saveSaved", "saveItems",
               "mergeKeys", "dropToken", "saveToken"}
    /\ push \in ItemMap /\ sent \in Nat /\ theirs \in ItemMap /\ resolved \in ItemMap
    /\ saved \in ItemMap /\ got \in ItemMap /\ newToken \in Nat
    /\ synced \in BOOLEAN /\ faults \in Nat

\* a key the next answer brings when the token t is sent
Coming(k, t) == server[k] # None /\ server[k].ts > t

\* No item in the database is orphaned: the key it is under is in the database
\* too, or the next sync brings it, whatever bulk write was cut short and whatever
\* key the session had when the item was encrypted.
NoItemOrphaned ==
    \A u \in UUID : db[u] # None => db[db[u].under] # None \/ Coming(db[u].under, token)

\* When a sync starts, the session has the key of everything in the database, or
\* the answer to its request brings it.
StartsDecryptable ==
    [][pc = "idle" /\ pc' = "request" => \A u \in UUID : db[u] # None =>
        keys'[db[u].under] # None \/ Coming(db[u].under, sent')]_vars

\* After a successful sync, also after one that was skipped, ToItems and SaveItems
\* do not panic: there is a default key, and it is one of the session's.
UsableAfterSync == synced => default # None /\ keys[default] # None

---------------------------------------------------------------------------
(* The inductive invariant behind them. *)

Asking == {"request", "resolve", "resync"}
Writing == {"saveSaved", "saveItems"}
Stored == {"mergeKeys", "dropToken", "saveToken"}

\* keys stay on the server, and FirstKey is one of them
KeysStay ==
    /\ server[FirstKey] # None
    /\ \A k \in Key : server[k] # None => ~server[k].del /\ server[k].ts \in 1..clock
    /\ \A k \in Key : got[k] # None => ~got[k].del /\ server[k] # None

\* this client pushes none, and conflicts are about what it pushed
NoKeyPushed ==
    /\ dirty \subseteq UUID
    /\ \A k \in Key : push[k] = None /\ theirs[k] = None /\ resolved[k] = None /\ saved[k] = None
    /\ pc = "resolve" => \A u \in UUID : theirs[u] # None => push[u] # None

\* whatever is encrypted anywhere is under a key of the server
UnderKnown(f) == \A u \in UUID : f[u] # None => f[u].under \in Key /\ server[f[u].under] # None
KeysKnown ==
    /\ UnderKnown(server) /\ UnderKnown(db) /\ UnderKnown(push) /\ UnderKnown(theirs)
    /\ UnderKnown(resolved) /\ UnderKnown(saved) /\ UnderKnown(got)
    /\ \A k \in Key : db[k] # None \/ keys[k] # None => server[k] # None
    /\ default # None => keys[default] # None

\* the database has every key up to the token, and what the answer brings
\* makes up for what it lacks up to the new one
KeysUpTo(t, f) == \A k \in Key : server[k] # None /\ server[k].ts <= t =>
                                   db[k] # None \/ f[k] # None
KeysCovered ==
    /\ token <= clock /\ KeysUpTo(token, NoItems)
    /\ pc \in Asking => sent <= token
    /\ pc # "idle" /\ pc # "request" => newToken <= clock /\ KeysUpTo(newToken, got)
    /\ pc \in Stored => KeysUpTo(newToken, NoItems)

\* where a default key comes from
DefaultComing ==
    /\ pc # "idle" /\ sent # 0 => default # None
    /\ pc \in {"resolve", "resync", "mergeKeys"} \cup Writing => default # None \/ KeysIn(got) # {}
    /\ pc \in {"dropToken", "saveToken"} \/ synced => default # None

KeyInv == TypeOK /\ KeysStay /\ NoKeyPushed /\ KeysKnown /\ KeysCovered /\ DefaultComing
=============================================================================
