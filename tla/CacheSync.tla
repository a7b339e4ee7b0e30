------------------------------ MODULE CacheSync ------------------------------
(***************************************************************************)
(* cache.Sync and the item database it keeps.  One client (a storm/bolt    *)
(* file, locked for as long as a sync has it open) pushes its dirty items  *)
(* to a server and takes over what other clients stored there.             *)
(*                                                                         *)
(* An item is [kind, val, ts, del]: `val` names one edit of its content    *)
(* (every edit makes a fresh one), `ts` is UpdatedAtTimestamp, the server  *)
(* version the edit is based on, 0 until the item was first stored.        *)
(* A collection of items is a total map UUID -> Item \cup {None}.          *)
(***************************************************************************)
EXTENDS Naturals, FiniteSets

CONSTANTS
    UUID,                  \* names of items, in use or still to be generated
    None,                  \* no item
    InitialItems,          \* what the account holds at first: [UUID -> Item \cup {None}]
    CreatedKinds,          \* kinds of the items that are created
    Refusals,              \* answers of the server other than saved and sync_conflict
    BatchSize,             \* items per database transaction (batchSize, 500)
    PageLimit,             \* items per page of an answer
    MaxEdits, MaxFaults, MaxClock    \* bounds of the model

Kinds == {"Note", "ItemsKey", "UserPreferences"}
Item == [kind : Kinds, val : Nat, ts : Nat, del : BOOLEAN]
ItemMap == [UUID -> Item \cup {None}]
NoItems == [u \in UUID |-> None]

\* conflict types that are no save and no sync_conflict (items/sync.go)
RefusalTypes == {"uuid_conflict", "content_type_error", "content_error",
                 "readonly_error", "uuid_error", "invalid_server_item"}
Answers == {"none", "saved", "sync_conflict"} \cup RefusalTypes

ASSUME ConstantsAssumption ==
    /\ None \notin Item /\ None \notin Nat
    /\ InitialItems \in ItemMap
    /\ \A u \in UUID : InitialItems[u] # None => InitialItems[u].ts = 1
    /\ CreatedKinds \subseteq Kinds
    /\ Refusals \subseteq RefusalTypes
    /\ BatchSize \in Nat \ {0} /\ PageLimit \in Nat \ {0}
    /\ MaxEdits \in Nat /\ MaxFaults \in Nat /\ MaxClock \in Nat

VARIABLES
    \* the database file: survives a crash
    db,          \* the Item bucket
    flagged,     \* the items whose Dirty field is true
    token,       \* the SyncToken bucket, 0 when it is empty
    \* the server
    server,      \* the items it stores, tombstones included
    clock,       \* its latest timestamp
    \* a running cache.Sync: lost in a crash
    pc,          \* what it does next
    dirty,       \* the items it found dirty
    push,        \* dirtyItemsToPush
    sent,        \* the sync token it sends
    answer,      \* per pushed item: what the server answered
    theirs,      \* ServerItem of the conflicts
    resolved,    \* resolvedConflictsToSync
    saved,       \* SavedItems of the output
    got,         \* Items of the output
    newToken,    \* SyncToken of the output
    done,        \* items of the current bulk write already committed
    \* history, read by no action's guard but for the bounds
    edits, faults,
    taken,       \* edits the server has stored at some time
    refused,     \* edits the server, or a safeguard, refused to store
    copyOf,      \* for a generated UUID, the item it duplicates
    disturbed,   \* items another client changed, whose answer was lost, or that
                 \* one exchange put twice
    overlooked,  \* edits whose conflict a retried exchange dropped
    again        \* items that were put again with a further page of an answer

dbVars == <<db, flagged, token>>
serverVars == <<server, clock>>
runVars == <<pc, dirty, push, sent, answer, theirs, resolved, saved, got,
             newToken, done>>
mishaps == <<disturbed, overlooked, again>>
history == <<edits, faults, taken, refused, copyOf, mishaps>>
vars == <<dbVars, serverVars, runVars, history>>

---------------------------------------------------------------------------
(* Deletions and changes the code never lets through. *)

\* Variant: only items keys are protected.
ItemsKeyDeletion(i) == i.del /\ i.kind = "ItemsKey"

\* filterProtectedItems, and the same test before a push and before a removal
ProtectedDeletion(i) == i.del /\ i.kind \in {"ItemsKey", "UserPreferences"}

\* what Sync leaves out of dirtyItemsToPush; UpdatedAt is set iff ts # 0
Blocked(i) == ProtectedDeletion(i) \/ (i.kind = "ItemsKey" /\ i.ts # 0)

\* items as they are written to the database, one map over another
Store(old, new, S) == [u \in UUID |-> IF u \in S THEN new[u] ELSE old[u]]

\* Variant: the first of two items with one name is kept, not the newest.
FirstOf(f, g) == [u \in UUID |-> IF f[u] # None THEN f[u] ELSE g[u]]

\* EncryptedItems.DeDupe of a list that is f followed by g
Newest(f, g) ==
    [u \in UUID |-> IF \/ g[u] = None
                       \/ f[u] # None /\ f[u].ts >= g[u].ts
                    THEN f[u] ELSE g[u]]

Held(f) == {u \in UUID : f[u] # None}

\* what one transaction writes: items[i:j]
Batches(S) ==
    {b \in SUBSET S : Cardinality(b) = BatchSize \/ (b = S /\ Cardinality(S) < BatchSize)}

Init ==
    /\ db = NoItems /\ flagged = {} /\ token = 0
    /\ server = InitialItems /\ clock = 1
    /\ pc = "idle" /\ dirty = {} /\ push = NoItems /\ sent = 0
    /\ answer = [u \in UUID |-> "none"] /\ theirs = NoItems
    /\ resolved = NoItems /\ saved = NoItems /\ got = NoItems
    /\ newToken = 0 /\ done = {}
    /\ edits = 0 /\ faults = 0
    /\ taken = {InitialItems[u].val : u \in Held(InitialItems)}
    /\ refused = {}
    /\ copyOf = [u \in UUID |-> None]
    /\ disturbed = {} /\ overlooked = {} /\ again = {}

---------------------------------------------------------------------------
(* The application, between syncs: the open database excludes a sync. *)

\* GenUUID: a name nobody uses
Fresh == {u \in UUID : db[u] = None /\ server[u] = None /\ resolved[u] = None}

\* SaveItems, SaveNotes, SaveTags, SaveEncryptedItems of one item: dirty, and
\* not written at all when it is the deletion of a protected item
SaveLocally(u, i) ==
    /\ pc = "idle"
    /\ edits < MaxEdits
    /\ ~ProtectedDeletion(i)
    /\ db' = [db EXCEPT ![u] = i]
    /\ flagged' = flagged \cup {u}
    /\ edits' = edits + 1
    /\ UNCHANGED <<token, serverVars, runVars, faults, taken, refused, copyOf, mishaps>>

Create(u, k) ==
    /\ u \in Fresh
    /\ SaveLocally(u, [kind |-> k, val |-> edits + 1, ts |-> 0, del |-> FALSE])

Edit(u) ==
    /\ db[u] # None /\ ~db[u].del
    /\ SaveLocally(u, [db[u] EXCEPT !.val = edits + 1])

Delete(u) ==
    /\ db[u] # None /\ ~db[u].del
    /\ SaveLocally(u, [db[u] EXCEPT !.val = edits + 1, !.del = TRUE])

---------------------------------------------------------------------------
(* Other clients of the account, through the server (external). *)

StoreRemotely(u, i) ==
    /\ edits < MaxEdits
    /\ server' = [server EXCEPT ![u] = [i EXCEPT !.ts = clock + 1]]
    /\ clock' = clock + 1
    /\ edits' = edits + 1
    /\ taken' = taken \cup {i.val}
    /\ disturbed' = disturbed \cup {u}
    /\ UNCHANGED <<dbVars, runVars, faults, refused, copyOf, overlooked, again>>

RemoteCreate(u, k) ==
    /\ u \in Fresh
    /\ StoreRemotely(u, [kind |-> k, val |-> edits + 1, ts |-> 0, del |-> FALSE])

RemoteEdit(u) ==
    /\ server[u] # None /\ ~server[u].del
    /\ StoreRemotely(u, [server[u] EXCEPT !.val = edits + 1])

RemoteDelete(u) ==
    /\ server[u] # None /\ ~server[u].del
    /\ StoreRemotely(u, [server[u] EXCEPT !.val = edits + 1, !.del = TRUE])

---------------------------------------------------------------------------
(* The sync endpoint (external): it stores what is based on the version it *)
(* has, answers sync_conflict to what is not, and returns what changed     *)
(* since the sync token without the items it reports in a sync_conflict    *)
(* (SERVER_CONSECUTIVE_SYNC_ANALYSIS.md).                                  *)

Stale(i, u) == server[u] # None /\ server[u].ts # i.ts

\* the answers it may give to the items of p
Replies(p) ==
    {a \in [Held(p) -> {"saved", "sync_conflict"} \cup Refusals] :
        \A u \in Held(p) :
            /\ (a[u] = "sync_conflict") <=> Stale(p[u], u)
            /\ (a[u] = "uuid_conflict") => server[u] = None}

SavedIn(a) == {u \in DOMAIN a : a[u] = "saved"}
ConflictsIn(a) == DOMAIN a \ SavedIn(a)

\* the time of the answer: SyncToken, and the timestamp of what it stores
Now(a) == IF SavedIn(a) = {} THEN clock ELSE clock + 1

\* UpdatedAtTimestamp of the answer on the item that was pushed
SavedItems(p, a) ==
    [u \in UUID |-> IF u \in SavedIn(a) THEN [p[u] EXCEPT !.ts = Now(a)] ELSE None]

\* what changed after the token t; t = 0 asks for everything
Changed(t, a) ==
    [u \in UUID |-> IF /\ server[u] # None /\ server[u].ts > t
                       /\ ~(u \in DOMAIN a /\ a[u] = "sync_conflict")
                    THEN server[u] ELSE None]

ServerStores(p, a) ==
    /\ server' = Store(server, SavedItems(p, a), SavedIn(a))
    /\ Now(a) <= MaxClock
    /\ clock' = Now(a)
    /\ taken' = taken \cup {p[u].val : u \in SavedIn(a)}

---------------------------------------------------------------------------
(* cache.Sync *)

\* Variant: the dirty flags are unset when the push starts.
BeginCleaning(age) ==
    /\ pc = "idle"
    /\ dirty' = flagged /\ flagged' = {}
    /\ push' = [u \in UUID |-> IF u \in flagged /\ ~Blocked(db[u]) THEN db[u] ELSE None]
    /\ refused' = refused \cup {db[u].val : u \in {v \in flagged : Blocked(db[v])}}
    /\ token' = IF age = "expired" THEN 0 ELSE token
    /\ sent' = IF age = "valid" THEN token ELSE 0
    /\ pc' = "exchange"
    /\ UNCHANGED <<db, serverVars, answer, theirs, resolved, saved, got,
                   newToken, done, edits, faults, taken, copyOf, mishaps>>

\* Open and lock the database, read the dirty items and the sync token.  The
\* age of the token decides: beyond SyncTokenMaxAge it is dropped; without a
\* default items key in the session it is kept but not sent.  Within
\* MinSyncInterval a sync with nothing to push returns at once, changing
\* nothing: that is a stuttering step.
Begin(age) ==
    /\ pc = "idle"
    /\ dirty' = flagged
    /\ push' = [u \in UUID |-> IF u \in flagged /\ ~Blocked(db[u]) THEN db[u] ELSE None]
    /\ refused' = refused \cup {db[u].val : u \in {v \in flagged : Blocked(db[v])}}
    /\ token' = IF age = "expired" THEN 0 ELSE token
    /\ sent' = IF age = "valid" THEN token ELSE 0
    /\ pc' = "exchange"
    /\ UNCHANGED <<db, flagged, serverVars, answer, theirs, resolved, saved, got,
                   newToken, done, edits, faults, taken, copyOf, mishaps>>

\* the answer to the items of p comes in more than one page
Paged(t) == Cardinality({u \in Held(server) : server[u].ts > t}) > PageLimit

\* input.NextItem is not advanced when finalItem is 0: a single item is put with
\* every page, and from the second page on it is in conflict with itself
PutAgain(p, t, a) == IF Cardinality(Held(p)) = 1 /\ Paged(t) THEN SavedIn(a) ELSE {}

\* The items `own` are put with every page of the attempt that succeeds.  A page
\* that fails makes for another attempt, with smaller pages and empty lists, from
\* LastItemPut on, the last item of the first page: what the server answered to the
\* items `drop` before it is not in the output; what it stored of the rest, the
\* items `redo`, is put again and is in conflict with itself, and so is the item at
\* LastItemPut if it was stored.  With LastItemPut 0 nothing is dropped.
Attempts(p, t, a, drop, redo, own) ==
    \/ drop = {} /\ redo = {} /\ own = PutAgain(p, t, a) /\ UNCHANGED faults
    \/ /\ faults < MaxFaults /\ faults' = faults + 1
       /\ redo \cap drop = {} /\ own \cap (drop \cup redo) = {}
       /\ drop # {} => \E u \in Held(p) \ drop : u \in SavedIn(a) => u \in redo
       /\ PutAgain(p, t, a) \subseteq redo \cup own
       /\ own # {} => Cardinality(Held(p)) = 1

\* what the output says of each item: `twice` are those in conflict with themselves
Reported(a, drop, twice) ==
    [u \in UUID |-> IF u \in drop \/ u \notin DOMAIN a THEN "none"
                    ELSE IF u \in twice THEN "sync_conflict" ELSE a[u]]

\* the items of the output: what an earlier attempt stored or found in conflict is
\* retrieved by the last one
Retrieved(t, p, a, drop, redo) ==
    LET after == Store(server, SavedItems(p, a), SavedIn(a))
    IN  [u \in UUID |-> IF u \in redo THEN None
                        ELSE IF u \notin drop THEN Changed(t, a)[u]
                        ELSE IF after[u] # None /\ after[u].ts > t THEN after[u] ELSE None]

\* edits whose conflict is dropped are taken for synced; a dropped refusal is one
Overlooks(p, a, drop) ==
    LET lost == {u \in drop : a[u] \in {"sync_conflict", "uuid_conflict"}}
    IN  /\ overlooked' = overlooked \cup {p[u].val : u \in lost}
        /\ refused' = refused \cup {p[u].val : u \in (drop \ SavedIn(a)) \ lost}

\* items.Sync: the first syncItems, its pages and its attempts.  Where a page
\* before that of a conflict has retrieved the item, the second request does so too.
Exchange ==
    /\ pc = "exchange"
    /\ \E a \in Replies(push), drop \in SUBSET Held(push) :
       \E redo \in SUBSET SavedIn(a), own \in SUBSET SavedIn(a) :
        /\ Attempts(push, sent, a, drop, redo, own)
        /\ ServerStores(push, a)
        /\ saved' = Store(SavedItems(push, a), NoItems, drop \cup redo)
        /\ got' = Retrieved(sent, push, a, drop, redo)
        /\ answer' = Reported(a, drop, redo \cup own)
        /\ Overlooks(push, a, drop)
        /\ disturbed' = disturbed \cup drop \cup redo \cup own
        /\ again' = again \cup own
        /\ newToken' = Now(a)
    /\ theirs' = Store(NoItems, server', {u \in UUID : answer'[u] \notin {"none", "saved"}})
    /\ pc' = "resolve"
    /\ UNCHANGED <<dbVars, dirty, push, sent, resolved, done, edits, copyOf>>

Conflicts == {u \in UUID : answer[u] \notin {"none", "saved"}}

\* processConflict: the server's version is pushed back
ServerWins(u) ==
    /\ theirs[u] # None
    /\ \/ answer[u] \in {"content_type_error", "content_error", "readonly_error"}
       \/ answer[u] = "sync_conflict" /\ theirs[u].kind = "ItemsKey"

\* processSyncConflict: the local version is pushed on top of the server's
LocalWins(u) ==
    /\ answer[u] = "sync_conflict" /\ ~ServerWins(u)
    /\ theirs[u].del \/ push[u].ts > theirs[u].ts

\* a local deletion is pushed again, of what the server has
DeletionWins(u) ==
    /\ push[u].del /\ ~LocalWins(u) /\ ~ServerWins(u)
    /\ answer[u] \in {"sync_conflict", "uuid_conflict"}

\* a local change is pushed under a new name
Duplicated(u) ==
    /\ ~push[u].del /\ ~LocalWins(u) /\ ~ServerWins(u)
    /\ answer[u] \in {"sync_conflict", "uuid_conflict"}

\* Variant: the server's version is pushed back whenever there is one.
ServersVersion(u) == IF u \in Conflicts /\ ~Duplicated(u) THEN theirs[u] ELSE None

\* what is pushed again under the same name
Resolution(u) ==
    IF u \notin Conflicts THEN None
    ELSE IF ServerWins(u) THEN theirs[u]
    ELSE IF ~LocalWins(u) /\ ~DeletionWins(u) THEN None
    ELSE IF theirs[u] = None THEN push[u] ELSE [push[u] EXCEPT !.ts = theirs[u].ts]

\* the edits that a conflict gives up
GivenUp == {u \in Conflicts : ~LocalWins(u) /\ ~DeletionWins(u) /\ ~Duplicated(u)}

\* processSyncOutput of an output without conflicts
NoConflict ==
    /\ pc = "resolve"
    /\ Conflicts = {}
    /\ got' = Newest(got, saved)
    /\ pc' = "saveSaved"
    /\ UNCHANGED <<dbVars, serverVars, dirty, push, sent, answer, theirs, resolved,
                   saved, newToken, done, history>>

\* processConflicts: what is left to sync again, duplicates under new names
Resolve ==
    /\ pc = "resolve"
    /\ Conflicts # {}
    /\ LET dups == {u \in Conflicts : Duplicated(u)} IN
       \E name \in [dups -> Fresh] :
        LET named == {name[u] : u \in dups}
            origin(n) == CHOOSE u \in dups : name[u] = n
            next == [u \in UUID |-> IF u \in named THEN push[origin(u)] ELSE Resolution(u)]
        IN /\ \A u, v \in dups : name[u] = name[v] => u = v
           /\ Held(next) # {}
           /\ resolved' = next
           /\ copyOf' = [u \in UUID |-> IF u \in named THEN origin(u) ELSE copyOf[u]]
    /\ refused' = refused \cup {push[u].val : u \in GivenUp}
    /\ pc' = "resync"
    /\ UNCHANGED <<dbVars, serverVars, dirty, push, sent, answer, theirs, saved, got,
                   newToken, done, edits, faults, taken, mishaps>>

\* every conflict was skipped: processSyncOutput returns an empty output
AllSkipped ==
    /\ pc = "resolve"
    /\ Conflicts # {}
    /\ \A u \in Conflicts : ~Duplicated(u) /\ Resolution(u) = None
    /\ refused' = refused \cup {push[u].val : u \in GivenUp}
    /\ saved' = NoItems /\ got' = NoItems /\ newToken' = 0
    /\ pc' = "saveSaved"
    /\ UNCHANGED <<dbVars, serverVars, dirty, push, sent, answer, theirs, resolved,
                   done, edits, faults, taken, copyOf, mishaps>>

Idle ==
    /\ pc' = "idle" /\ dirty' = {} /\ push' = NoItems /\ sent' = 0
    /\ answer' = [u \in UUID |-> "none"] /\ theirs' = NoItems
    /\ resolved' = NoItems /\ saved' = NoItems /\ got' = NoItems
    /\ newToken' = 0 /\ done' = {}

\* Variant: conflicts of the second syncItems are ignored.
NeverUnresolved(report) == FALSE

\* "unexpected conflicts during conflict resolution"
Unresolved(report) == \E u \in UUID : report[u] \notin {"none", "saved"}

\* the second syncItems, with the token of the first: any conflict is an error
\* and the output of both is dropped; otherwise the saved items of both keep
\* the content that cache.Sync passed, new names are dropped, and they are
\* merged into the items
Resync ==
    /\ pc = "resync"
    /\ \E a \in Replies(resolved), drop \in SUBSET Held(resolved) :
       \E redo \in SUBSET SavedIn(a), own \in SUBSET SavedIn(a) :
        LET both == Newest(saved, Store(SavedItems(resolved, a), NoItems, drop \cup redo))
            mine == [u \in UUID |-> IF both[u] # None /\ push[u] # None
                                    THEN [push[u] EXCEPT !.ts = both[u].ts]
                                    ELSE None]
        IN /\ Attempts(resolved, sent, a, drop, redo, own)
           /\ ServerStores(resolved, a)
           /\ Overlooks(resolved, a, drop)
           /\ again' = again \cup own
           /\ IF Unresolved(Reported(a, drop, redo \cup own))
              THEN /\ Idle
                   /\ disturbed' = disturbed \cup Held(push) \cup Held(resolved)
              ELSE /\ saved' = mine
                   /\ got' = Newest(Newest(got, Retrieved(sent, resolved, a, drop, redo)), mine)
                   /\ disturbed' = disturbed \cup drop
                   /\ pc' = "saveSaved"
                   /\ UNCHANGED <<dirty, push, sent, answer, theirs, resolved,
                                  newToken, done>>
    /\ UNCHANGED <<dbVars, edits, copyOf>>

---------------------------------------------------------------------------
(* Writing the output to the database, a transaction at a time. *)

\* one transaction over a batch of S in the phase `here`, then `next`
Transaction(here, S, next, b) ==
    /\ pc = here
    /\ b \in Batches(S \ done)
    /\ IF done \cup b = S
       THEN pc' = next /\ done' = {}
       ELSE pc' = here /\ done' = done \cup b
    /\ UNCHANGED <<token, serverVars, dirty, push, sent, answer, theirs, resolved,
                   saved, got, newToken, history>>

\* Variant: deletions are not carried out.
NothingRemovable(f) == {}

Live(f) == {u \in Held(f) : ~f[u].del}
Gone(f) == {u \in Held(f) : f[u].del}
Removable(f) == {u \in Gone(f) : ~ProtectedDeletion(f[u])}

\* Variant: a written item keeps the version it had.
PutUnstamped(f, b) ==
    /\ db' = [u \in UUID |-> IF u \in b /\ db[u] # None THEN [f[u] EXCEPT !.ts = db[u].ts]
                             ELSE IF u \in b THEN f[u] ELSE db[u]]
    /\ flagged' = flagged \ b

\* SaveCacheItems writes clean items, DeleteCacheItems removes them
Put(f, b) == db' = Store(db, f, b) /\ flagged' = flagged \ b
Remove(b) == db' = Store(db, NoItems, b) /\ flagged' = flagged \ b

SaveSaved == \E b \in SUBSET UUID :
    Transaction("saveSaved", Live(saved), "deleteSaved", b) /\ Put(saved, b)

DeleteSaved == \E b \in SUBSET UUID :
    Transaction("deleteSaved", Removable(saved), "clean", b) /\ Remove(b)

\* CleanCacheItems of every item found dirty, by its UUID
Clean == \E b \in SUBSET UUID :
    /\ Transaction("clean", dirty, "saveItems", b)
    /\ flagged' = flagged \ b
    /\ UNCHANGED db

SaveItems == \E b \in SUBSET UUID :
    Transaction("saveItems", Live(got), "deleteItems", b) /\ Put(got, b)

DeleteItems == \E b \in SUBSET UUID :
    Transaction("deleteItems", Removable(got), "dropToken", b) /\ Remove(b)

DropToken ==
    /\ pc = "dropToken"
    /\ token' = 0
    /\ pc' = "saveToken"
    /\ UNCHANGED <<db, flagged, serverVars, dirty, push, sent, answer, theirs,
                   resolved, saved, got, newToken, done, history>>

\* Variant: the token of the moment it is saved.
SaveTokenOfNow ==
    /\ pc = "saveToken"
    /\ token' = clock
    /\ Idle
    /\ UNCHANGED <<db, flagged, serverVars, history>>

\* an empty token is no valid id: db.Save fails and the bucket stays empty
SaveToken ==
    /\ pc = "saveToken"
    /\ token' = newToken
    /\ Idle
    /\ UNCHANGED <<db, flagged, serverVars, history>>

\* A crash, or an error return: a request or its answer lost, a failed
\* decryption, a failed transaction (rolled back).  What is committed stays.
Abort ==
    /\ pc # "idle"
    /\ faults < MaxFaults
    /\ faults' = faults + 1
    /\ disturbed' = IF pc = "exchange" THEN disturbed
                    ELSE disturbed \cup Held(push) \cup Held(resolved)
    /\ Idle
    /\ UNCHANGED <<dbVars, serverVars, edits, taken, refused, copyOf, overlooked, again>>

---------------------------------------------------------------------------
Ages == {"valid", "expired", "noDefaultKey"}

Application == \E u \in UUID :
    \/ \E k \in CreatedKinds : Create(u, k)
    \/ Edit(u)
    \/ Delete(u)

OtherClients == \E u \in UUID :
    \/ \E k \in CreatedKinds : RemoteCreate(u, k)
    \/ RemoteEdit(u)
    \/ RemoteDelete(u)

SyncStep ==
    \/ Exchange \/ NoConflict \/ Resolve \/ AllSkipped \/ Resync
    \/ SaveSaved \/ DeleteSaved \/ Clean \/ SaveItems \/ DeleteItems
    \/ DropToken \/ SaveToken

Next ==
    \/ Application
    \/ OtherClients
    \/ \E age \in Ages : Begin(age)
    \/ SyncStep
    \/ Abort

Spec == Init /\ [][Next]_vars


\* The application syncs again and again, and a running sync goes on: its
\* requests end in an answer or an error (timeouts of the HTTP client).  No one
\* has to edit, and nothing has to fail.
FairSpec == Spec /\ WF_vars(\E age \in Ages : Begin(age)) /\ WF_vars(SyncStep)

---------------------------------------------------------------------------
(* Properties *)

Writing == {"saveSaved", "deleteSaved", "clean", "saveItems", "deleteItems",
            "dropToken", "saveToken"}
Phases == {"idle", "exchange", "resolve", "resync"} \cup Writing

\* The type invariant: the database holds items, the run's variables hold what
\* cache.Sync and items.Sync keep in them.
TypeOK ==
    /\ db \in ItemMap /\ flagged \subseteq UUID /\ token \in Nat
    /\ server \in ItemMap /\ clock \in Nat
    /\ pc \in Phases /\ dirty \subseteq UUID /\ push \in ItemMap /\ sent \in Nat
    /\ answer \in [UUID -> Answers] /\ theirs \in ItemMap
    /\ resolved \in ItemMap /\ saved \in ItemMap /\ got \in ItemMap
    /\ newToken \in Nat /\ done \subseteq UUID
    /\ edits \in Nat /\ faults \in Nat
    /\ taken \subseteq Nat /\ refused \subseteq Nat
    /\ copyOf \in [UUID -> UUID \cup {None}]
    /\ disturbed \subseteq UUID /\ overlooked \subseteq Nat /\ again \subseteq UUID

\* an edit is settled when the server stored it, when it was refused, or when its
\* conflict was overlooked
Settled == taken \cup refused \cup overlooked

\* No edit is forgotten: the content of an item that is not marked dirty was
\* stored by the server, perhaps under a new name, or refused by it or by a
\* safeguard; or its conflict was overlooked, which takes a page that failed and
\* was asked for again (src/items/sync.go:107-155).  Saving the output and cleaning
\* the dirty items are separate transactions.
EditsAccounted ==
    /\ \A u \in Held(db) \ flagged : db[u].val \in taken \cup refused \cup overlooked
    /\ faults = 0 => overlooked = {}

\* What incremental sync rests on: every version the server stored up to the
\* saved sync token is in the database, as content and as base of the next
\* push, unless a local change of it is pending or was refused; what the server
\* deleted is gone, protected items excepted.
TokenCovers ==
    token # 0 =>
        \A u \in Held(server) : server[u].ts <= token =>
            \/ u \in flagged
            \/ /\ server[u].del
               /\ db[u] = None \/ db[u].kind \in {"ItemsKey", "UserPreferences"}
            \/ /\ ~server[u].del
               /\ db[u] # None
               /\ db[u].val \in refused \/ db[u] = server[u]

\* A duplicate is only made of an item that another client changed, whose answer
\* was lost, or that one exchange put twice: because a page was asked for again, or
\* because it was the only item and the answer had several pages
\* (src/items/sync.go:1020-1045).  The base version in the database is never wrong
\* otherwise.
NoSpuriousDuplicate ==
    \A n \in UUID : copyOf[n] # None => copyOf[n] \in disturbed

\* no step loses a protected item of the database, or deletes one on the server
DatabaseKept ==
    \A u \in Held(db) : db[u].kind # "Note" => db'[u] # None /\ ~db'[u].del
ServerKept ==
    \A u \in Held(server) : server[u].kind # "Note" /\ ~server[u].del => ~server'[u].del

\* Protected items (items keys, user preferences) never leave the database, and
\* no step of the sync deletes one on the server.
ProtectedKept == [][DatabaseKept /\ (pc' # pc => ServerKept)]_vars

\* What cache.Sync's comment says of the items it cleans: "anything that has now
\* been synced back to SN".
CleanIsSynced == \A u \in Held(db) \ flagged : db[u].val \in taken

InSync ==
    /\ flagged = {}
    /\ \A u \in UUID :
        IF server[u] = None \/ server[u].del THEN db[u] = None ELSE db[u] = server[u]

\* "Sync will push any dirty items to SN and make database cache consistent with
\* SN": once nobody edits and nothing fails, the database becomes equal to the
\* server and stays so, whatever conflicts, crashes, retries and lost answers came
\* before; unless at some time a single item was put with every page of an answer:
\* as the second request of a sync that is an "unexpected conflict"
\* (src/items/sync.go:308), in every later sync that has as much to retrieve.
Convergence == <>[]InSync \/ <>(again # {})

\* The promise of EditLedger, kept by the database: an edit that is pending in
\* the cache is dropped or replaced only once it is settled.
Ledger == INSTANCE EditLedger WITH
    Items <- UUID,
    NoEdit <- None,
    mine <- [u \in UUID |-> IF db[u] = None THEN None ELSE db[u].val],
    pending <- flagged,
    settled <- taken \cup refused,
    lost <- overlooked
LedgerKept == Ledger!LedgerSpec

---------------------------------------------------------------------------
(* The inductive invariant behind EditsAccounted and LedgerKept: where the  *)
(* edits are that a running sync has in hand.                              *)

AllSettled(f) == \A u \in Held(f) : f[u].val \in Settled

\* what the server has it has taken
ServerTaken == \A u \in Held(server) : server[u].val \in taken

\* dirty items exist, and a sync sees no other dirty items than those it found
DirtyExist == flagged \subseteq Held(db)
DirtyKnown == pc # "idle" => flagged \subseteq dirty

\* until it writes, what it pushes is what the database holds and is dirty, and
\* what it holds back was refused
PushCurrent ==
    pc \in {"exchange", "resolve", "resync"} =>
        /\ \A u \in Held(push) : push[u] = db[u] /\ u \in flagged
        /\ \A u \in flagged : push[u] = None => db[u].val \in Settled

\* a conflict is about an item that was pushed, and a sync_conflict about one
\* that the server has
ConflictsKnown ==
    pc = "resolve" => \A u \in Conflicts :
        push[u] # None /\ (answer[u] = "sync_conflict" => theirs[u] # None)

\* every pushed item got an answer
Answered ==
    pc = "resolve" =>
        /\ \A u \in Held(theirs) : theirs[u].val \in taken
        /\ AllSettled(saved)
        /\ AllSettled(got)
        /\ \A u \in Held(push) \ Conflicts : push[u].val \in Settled

\* an edit in conflict is pushed again or given up
Reconciled ==
    pc = "resync" =>
        /\ AllSettled(saved)
        /\ AllSettled(got)
        /\ \A u \in Held(push) :
              \/ push[u].val \in Settled
              \/ \E n \in Held(resolved) : resolved[n].val = push[u].val
        /\ \A n \in Held(resolved) :
              \/ resolved[n].val \in taken \cup refused
              \/ \E u \in Held(push) : resolved[n].val = push[u].val

\* from the first write on, every edit in hand is settled
WritesSettled ==
    pc \in Writing =>
        /\ AllSettled(saved)
        /\ AllSettled(got)
        /\ \A u \in flagged : db[u].val \in Settled

IInv ==
    /\ TypeOK
    /\ ServerTaken
    /\ EditsAccounted
    /\ DirtyExist
    /\ DirtyKnown
    /\ PushCurrent
    /\ ConflictsKnown
    /\ Answered
    /\ Reconciled
    /\ WritesSettled

---------------------------------------------------------------------------
(* The inductive invariant behind TokenCovers and ProtectedKept: what a sync *)
(* has in hand, against the versions on the server.                        *)

\* timestamps come from the server's clock
ClockInv ==
    /\ \A u \in Held(server) : 0 < server[u].ts /\ server[u].ts <= clock
    /\ token <= clock /\ sent <= clock /\ newToken <= clock

\* a name has one kind, wherever it is used, and only one use
KindsAgree ==
    /\ \A u \in Held(db) \cap Held(server) : db[u].kind = server[u].kind
    /\ \A f \in {theirs, saved, got} : \A u \in Held(f) :
          server[u] # None /\ f[u].kind = server[u].kind
    /\ pc = "resync" => \A u \in Held(resolved) :
          /\ db[u] # None => resolved[u].kind = db[u].kind
          /\ server[u] # None => resolved[u].kind = server[u].kind

\* the database has the server's version: as the base of the next push, and as
\* content unless a change of it is pending or was refused
Current(u) ==
    IF server[u].del THEN db[u] = None \/ db[u].kind # "Note"
    ELSE /\ db[u] # None /\ db[u].ts = server[u].ts
         /\ u \in flagged \/ db[u].val \in refused \/ db[u] = server[u]

CoveredTo(t) == \A u \in Held(server) : server[u].ts <= t => Current(u)

\* up to both tokens: the one in the database, and the one that was sent
Horizons == {token, sent}
BothCovered == \A t \in Horizons : CoveredTo(t)

\* a version that is later than the answers of this sync speak of
Later(u) == server[u].ts > token /\ server[u].ts > sent /\ server[u].ts > newToken

Answering == {"resolve", "resync"}

\* what was saved is a new version, of what was pushed
SavedNew ==
    /\ \A u \in Held(saved) : \A t \in Horizons : server[u].ts > t
    /\ pc \in Answering => \A u \in Held(saved) :
          /\ push[u] # None
          /\ saved[u] = [push[u] EXCEPT !.ts = saved[u].ts]
          /\ saved[u] = server[u] \/ Later(u)

\* what was retrieved is the server's version, if that has not changed since
GotCurrent ==
    \A u \in Held(got) :
        \/ got[u] = server[u]
        \/ Later(u)
        \/ pc \in Answering /\ saved[u] # None /\ got[u].ts < saved[u].ts

\* every version up to the new token was retrieved, saved, known before, or is
\* in a conflict, which the second request retrieves
AllRetrieved ==
    pc = "resolve" => \A u \in Held(server) : server[u].ts <= newToken =>
        \/ server[u].ts <= sent
        \/ got[u] = server[u]
        \/ saved[u] = server[u]
        \/ answer[u] = "sync_conflict"

\* in the end it is in the output, and from its transaction on in the database
Written(u) ==
    /\ /\ ~server[u].del
       /\ \/ pc \in {"deleteItems", "dropToken", "saveToken"}
          \/ pc = "saveItems" /\ u \in done
       => db[u] = server[u]
    /\ /\ server[u].del /\ server[u].kind = "Note"
       /\ \/ pc \in {"dropToken", "saveToken"}
          \/ pc = "deleteItems" /\ u \in done
       => db[u] = None

AllWritten ==
    pc \in Writing => \A u \in Held(server) : server[u].ts <= newToken =>
        server[u].ts <= sent \/ (got[u] = server[u] /\ Written(u))

\* a change of a covered item is based on its version, so that the server stores
\* it or refuses it
Based(u) == /\ server[u] # None /\ ~server[u].del
            /\ \E t \in Horizons : server[u].ts <= t

BasedRefused ==
    /\ pc \in {"exchange"} \cup Answering =>
          \A u \in flagged : push[u] = None => db[u].val \in refused
    /\ pc = "resolve" => \A u \in Held(push) :
          Based(u) => \/ answer[u] \in RefusalTypes \ {"uuid_conflict"}
                      \/ push[u].val \in refused
    /\ pc = "resync" => \A u \in Held(push) : Based(u) => push[u].val \in refused
    /\ pc \in Writing => \A u \in flagged : Based(u) => db[u].val \in refused

\* cleaning reaches every dirty item
AllCleaned ==
    /\ pc = "clean" => flagged \cap done = {}
    /\ pc \in {"saveItems", "deleteItems", "dropToken", "saveToken"} => flagged = {}

\* nothing protected is deleted by a push, and what the server deleted stays so
NoProtectedPushed ==
    /\ \A u \in Held(db) : db[u].kind # "Note" => ~db[u].del
    /\ pc \in {"exchange"} \cup Answering =>
          \A u \in Held(push) : ~ProtectedDeletion(push[u])
    /\ pc = "resolve" => \A u \in Held(theirs) :
          ProtectedDeletion(theirs[u]) => server[u].del
    /\ pc = "resync" => \A u \in Held(resolved) :
          ProtectedDeletion(resolved[u]) => server[u] # None /\ server[u].del

TokenInv ==
    /\ ClockInv
    /\ KindsAgree
    /\ BothCovered
    /\ SavedNew
    /\ GotCurrent
    /\ AllRetrieved
    /\ AllWritten
    /\ BasedRefused
    /\ AllCleaned
    /\ NoProtectedPushed

SyncInv == IInv /\ TokenInv

---------------------------------------------------------------------------
(* The inductive invariant behind NoSpuriousDuplicate, for a server that    *)
(* answers saved or sync_conflict: what no one disturbed has the version of *)
(* the server, or a stamp of it that is still to be written.                *)

NothingAnswered ==
    /\ pc \in {"idle", "exchange"} => Held(saved) = {} /\ Held(got) = {}
    /\ pc \notin Writing => done = {}

\* the next push of it is based on what the server has
Agreed(u) == db[u] = None \/ server[u] = None \/ db[u].ts = server[u].ts

\* its new stamp is not yet in the database
Unwritten(u) ==
    /\ saved[u] # None
    /\ \/ pc \in Answering
       \/ pc = "saveSaved" /\ (saved[u].del \/ u \notin done)
       \/ pc = "deleteSaved" /\ saved[u].del /\ u \notin done

BasesKnown == \A u \in UUID \ disturbed : Agreed(u) \/ Unwritten(u)

\* the stamps in hand are of what this sync pushed, and of the server
StampsKnown ==
    /\ \A u \in Held(saved) : push[u] # None /\ ~ProtectedDeletion(saved[u])
    /\ \A u \in Held(saved) \ disturbed : saved[u].ts = server[u].ts
    /\ \A u \in Held(got) \ disturbed :
          \/ got[u].ts = server[u].ts
          \/ pc \in Answering /\ saved[u] # None /\ got[u].ts < saved[u].ts

\* conflicts are about disturbed items, the rest of a resync about new names
ConflictsDisturbed ==
    /\ pc = "resolve" => \A u \in Conflicts : answer[u] = "sync_conflict" /\ u \in disturbed
    /\ pc = "resync" => \A u \in Held(resolved) \ disturbed :
          db[u] = None /\ server[u] = None /\ got[u] = None

DuplicateInv ==
    /\ NothingAnswered
    /\ BasesKnown
    /\ StampsKnown
    /\ ConflictsDisturbed
    /\ NoSpuriousDuplicate

---------------------------------------------------------------------------
(* Where Convergence ends, for an account of notes and a server that answers *)
(* saved or sync_conflict.                                                   *)

\* the server has what is clean and what was ever stamped; what is dirty it gets
\* with the first request
StoredInv ==
    /\ \A u \in Held(db) \ flagged : server[u] # None
    /\ \A u \in Held(db) : db[u].ts # 0 => server[u] # None
    /\ pc = "exchange" => \A u \in dirty : push[u] # None \/ server[u] # None
    /\ pc \in Answering \cup Writing => \A u \in dirty : server[u] # None

\* no conflict about notes gives an edit up
AllNotes(f) == \A u \in Held(f) : f[u].kind = "Note"
NotesOnly ==
    /\ \A f \in {db, server, push, theirs, resolved, saved, got} : AllNotes(f)
    /\ refused = {}

\* What cache.Sync promises ("make database cache consistent with SN") of every
\* state, not only in the end: a database without dirty items, whose token is of
\* the server's last change, is equal to the server.  What differs is still known
\* by a dirty flag or an older token, so that the next sync finds it.
CaughtUp == flagged = {} /\ token = clock => InSync

---------------------------------------------------------------------------
(* Why a sync comes to its end.                                            *)

\* what its transactions have written is part of what the phase has to write
DoneKnown ==
    /\ pc = "saveSaved" => done \subseteq Live(saved)
    /\ pc = "deleteSaved" => done \subseteq Removable(saved)
    /\ pc = "clean" => done \subseteq dirty
    /\ pc = "saveItems" => done \subseteq Live(got)
    /\ pc = "deleteItems" => done \subseteq Removable(got)
    /\ pc \in {"idle", "exchange", "resolve", "resync", "dropToken", "saveToken"}
       => done = {}

\* the phases a sync has before it, this one included
PhasesLeft ==
    [idle |-> 0, saveToken |-> 1, dropToken |-> 2, deleteItems |-> 3, saveItems |-> 4,
     clean |-> 5, deleteSaved |-> 6, saveSaved |-> 7, resync |-> 8, resolve |-> 9,
     exchange |-> 10][pc]

\* Each step of a sync leaves fewer phases, or more items written in this one; what
\* other clients do changes neither (src/cache/cache.go:1405-1518).
SyncRunsOut ==
    [][pc # "idle" => \/ PhasesLeft' < PhasesLeft
                      \/ PhasesLeft' = PhasesLeft /\ done \subseteq done' /\ done # done'
                      \/ OtherClients /\ UNCHANGED runVars]_vars

=============================================================================
