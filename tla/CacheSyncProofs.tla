--------------------------- MODULE CacheSyncProofs ---------------------------
(* Theorems about CacheSync, for every value of its constants. *)
EXTENDS CacheSync, TLAPS, FiniteSetTheorems

---------------------------------------------------------------------------
(* What the operators on item maps return. *)

\* Writing items over a map gives a map.
LEMMA StoreType ==
    ASSUME NEW old \in ItemMap, NEW new \in ItemMap, NEW S
    PROVE  Store(old, new, S) \in ItemMap
  BY DEF Store, ItemMap

\* Merging two maps gives a map.
LEMMA NewestType ==
    ASSUME NEW f \in ItemMap, NEW g \in ItemMap
    PROVE  Newest(f, g) \in ItemMap
  BY DEF Newest, ItemMap

\* The empty map is a map, and holds nothing.
LEMMA NoItemsType == NoItems \in ItemMap /\ Held(NoItems) = {}
  BY DEF NoItems, ItemMap, Held

\* The held entries of a map are items.
LEMMA HeldType ==
    ASSUME NEW f \in ItemMap, NEW u \in Held(f)
    PROVE  u \in UUID /\ f[u] \in Item
  BY DEF Held, ItemMap

\* The time of an answer is a timestamp.
LEMMA NowType ==
    ASSUME clock \in Nat, NEW a
    PROVE  Now(a) \in Nat
  BY DEF Now

\* An answer map: which items it covers, and what it says of them.
LEMMA RepliesType ==
    ASSUME ConstantsAssumption, NEW p, NEW a \in Replies(p)
    PROVE  /\ DOMAIN a = Held(p)
           /\ SavedIn(a) \subseteq Held(p)
           /\ ConflictsIn(a) = Held(p) \ SavedIn(a)
           /\ \A u \in Held(p) : a[u] \in Answers \ {"none"}
  <1>1. a \in [Held(p) -> {"saved", "sync_conflict"} \cup Refusals]
    BY DEF Replies
  <1>2. DOMAIN a = Held(p)
    BY <1>1
  <1>3. \A u \in Held(p) : a[u] \in Answers \ {"none"}
    BY <1>1 DEF ConstantsAssumption, Answers, RefusalTypes
  <1>4. QED
    BY <1>2, <1>3 DEF SavedIn, ConflictsIn

\* The items the server reports as saved are items.
LEMMA SavedItemsType ==
    ASSUME ConstantsAssumption, clock \in Nat,
           NEW p \in ItemMap, NEW a \in Replies(p)
    PROVE  /\ SavedItems(p, a) \in ItemMap
           /\ Held(SavedItems(p, a)) = SavedIn(a)
           /\ \A u \in SavedIn(a) : SavedItems(p, a)[u].val = p[u].val
  <1>1. ASSUME NEW u \in SavedIn(a)
        PROVE  /\ u \in UUID /\ [p[u] EXCEPT !.ts = Now(a)] \in Item
               /\ [p[u] EXCEPT !.ts = Now(a)].val = p[u].val
    <2>1. u \in UUID /\ p[u] \in Item
      BY RepliesType, HeldType
    <2>2. QED
      BY <2>1, NowType DEF Item
  <1>2. None \notin Item
    BY DEF ConstantsAssumption
  <1>3. SavedItems(p, a) \in ItemMap
    BY <1>1 DEF SavedItems, ItemMap
  <1>4. QED
    BY <1>1, <1>2, <1>3 DEF SavedItems, Held

\* What changed since a token are items.
LEMMA ChangedType ==
    ASSUME server \in ItemMap, NEW t, NEW a
    PROVE  Changed(t, a) \in ItemMap
  BY DEF Changed, ItemMap

\* One exchange of the items p with the server: what was answered, what a retry
\* dropped or put again, and what was put again with every page.
Exchanged(p, t, a, drop, redo, own) ==
    /\ a \in Replies(p) /\ drop \in SUBSET Held(p)
    /\ redo \in SUBSET SavedIn(a) /\ own \in SUBSET SavedIn(a)
    /\ Attempts(p, t, a, drop, redo, own)
    /\ ServerStores(p, a) /\ Overlooks(p, a, drop) /\ again' = again \cup own

\* The items that its output reports as saved, and those it leaves out.
Stamped(p, a, out) == Store(SavedItems(p, a), NoItems, out)

\* The first of a sync.
FirstExchange(a, drop, redo, own) ==
    /\ Exchanged(push, sent, a, drop, redo, own)
    /\ saved' = Stamped(push, a, drop \cup redo)
    /\ got' = Retrieved(sent, push, a, drop, redo)
    /\ answer' = Reported(a, drop, redo \cup own)
    /\ disturbed' = disturbed \cup drop \cup redo \cup own
    /\ newToken' = Now(a)
    /\ theirs' = Store(NoItems, server', {u \in UUID : answer'[u] \notin {"none", "saved"}})
    /\ pc = "exchange" /\ pc' = "resolve"
    /\ UNCHANGED <<db, flagged, token, dirty, push, sent, resolved, done, edits, copyOf>>

LEMMA ExchangeSplit ==
    ASSUME Exchange PROVE \E a, drop, redo, own : FirstExchange(a, drop, redo, own)
  BY Zenon DEF Exchange, FirstExchange, Exchanged, Stamped, dbVars

\* What the second one saves of the items that were pushed.
Mine(a, drop, redo) ==
    LET both == Newest(saved, Stamped(resolved, a, drop \cup redo))
    IN  [u \in UUID |-> IF both[u] # None /\ push[u] # None
                        THEN [push[u] EXCEPT !.ts = both[u].ts] ELSE None]

\* The second of a sync, with conflicts and without.
SecondExchange(a, drop, redo, own) ==
    /\ Exchanged(resolved, sent, a, drop, redo, own)
    /\ pc = "resync"
    /\ UNCHANGED <<db, flagged, token, edits, copyOf>>

LEMMA ResyncSplit ==
    ASSUME Resync
    PROVE  \E a, drop, redo, own :
              /\ SecondExchange(a, drop, redo, own)
              /\ \/ /\ Unresolved(Reported(a, drop, redo \cup own))
                    /\ Idle
                    /\ disturbed' = disturbed \cup Held(push) \cup Held(resolved)
                 \/ /\ ~Unresolved(Reported(a, drop, redo \cup own))
                    /\ saved' = Mine(a, drop, redo)
                    /\ got' = Newest(Newest(got, Retrieved(sent, resolved, a, drop, redo)),
                                     Mine(a, drop, redo))
                    /\ disturbed' = disturbed \cup drop
                    /\ pc' = "saveSaved"
                    /\ UNCHANGED <<dirty, push, sent, answer, theirs, resolved,
                                   newToken, done>>
  <1>1. PICK a \in Replies(resolved), drop \in SUBSET Held(resolved) :
        \E redo \in SUBSET SavedIn(a), own \in SUBSET SavedIn(a) :
          /\ Attempts(resolved, sent, a, drop, redo, own)
          /\ ServerStores(resolved, a)
          /\ Overlooks(resolved, a, drop)
          /\ again' = again \cup own
          /\ IF Unresolved(Reported(a, drop, redo \cup own))
             THEN /\ Idle
                  /\ disturbed' = disturbed \cup Held(push) \cup Held(resolved)
             ELSE /\ saved' = Mine(a, drop, redo)
                  /\ got' = Newest(Newest(got, Retrieved(sent, resolved, a, drop, redo)),
                                   Mine(a, drop, redo))
                  /\ disturbed' = disturbed \cup drop
                  /\ pc' = "saveSaved"
                  /\ UNCHANGED <<dirty, push, sent, answer, theirs, resolved,
                                 newToken, done>>
    BY Zenon DEF Resync, Stamped, Mine
  <1>2. pc = "resync" /\ UNCHANGED <<db, flagged, token, edits, copyOf>>
    BY Zenon DEF Resync, dbVars
  <1>3. QED
    BY <1>1, <1>2, Zenon DEF SecondExchange, Exchanged

\* The items of an exchange, and its faults.
LEMMA ExchangedShape ==
    ASSUME ConstantsAssumption, TypeOK, NEW p \in ItemMap, NEW t,
           NEW a, NEW drop, NEW redo, NEW own, Exchanged(p, t, a, drop, redo, own)
    PROVE  /\ a \in Replies(p) /\ DOMAIN a = Held(p)
           /\ drop \subseteq Held(p) /\ Held(p) \subseteq UUID
           /\ SavedIn(a) \subseteq Held(p)
           /\ redo \subseteq SavedIn(a) /\ own \subseteq SavedIn(a)
           /\ redo \cap drop = {} /\ own \cap (drop \cup redo) = {}
           /\ faults' \in Nat /\ (faults' = 0 => faults = 0 /\ drop = {})
  <1>1. /\ a \in Replies(p) /\ drop \subseteq Held(p)
        /\ redo \subseteq SavedIn(a) /\ own \subseteq SavedIn(a)
        /\ Attempts(p, t, a, drop, redo, own)
    BY DEF Exchanged
  <1>2. DOMAIN a = Held(p) /\ SavedIn(a) \subseteq Held(p) /\ Held(p) \subseteq UUID
    BY <1>1, RepliesType DEF Held
  <1>3. faults \in Nat
    BY DEF TypeOK
  <1>4. /\ redo \cap drop = {} /\ own \cap (drop \cup redo) = {}
        /\ faults' \in Nat /\ (faults' = 0 => faults = 0 /\ drop = {})
    BY <1>1, <1>3 DEF Attempts
  <1>5. QED
    BY <1>1, <1>2, <1>4

\* What a retry overlooks are edits of the items whose answer it dropped, the rest
\* of which the server stored or refused.
LEMMA OverlooksShape ==
    ASSUME ConstantsAssumption, TypeOK, NEW p \in ItemMap, NEW t,
           NEW a, NEW drop, NEW redo, NEW own, Exchanged(p, t, a, drop, redo, own)
    PROVE  /\ overlooked \subseteq overlooked' /\ overlooked' \subseteq Nat
           /\ refused \subseteq refused' /\ refused' \subseteq Nat
           /\ \A e \in overlooked' \ overlooked : \E u \in drop : e = p[u].val
           /\ \A u \in drop \ SavedIn(a) : p[u].val \in refused' \cup overlooked'
           /\ \A u \in drop \ SavedIn(a) :
                 a[u] \notin {"sync_conflict", "uuid_conflict"} => p[u].val \in refused'
           /\ drop = {} => overlooked' = overlooked /\ refused' = refused
  <1> DEFINE lost == {u \in drop : a[u] \in {"sync_conflict", "uuid_conflict"}}
             plain == (drop \ SavedIn(a)) \ lost
  <1>1. /\ overlooked' = overlooked \cup {p[u].val : u \in lost}
        /\ refused' = refused \cup {p[u].val : u \in plain}
    BY DEF Exchanged, Overlooks
  <1>2. \A u \in drop : p[u].val \in Nat
    <2>1. \A u \in drop : p[u] \in Item
      BY ExchangedShape, HeldType
    <2>2. QED
      BY <2>1 DEF Item
  <1>3. overlooked \subseteq Nat /\ refused \subseteq Nat
    BY DEF TypeOK
  <1>4. QED
    BY <1>1, <1>2, <1>3

\* What is reported as saved, as the server has it.
LEMMA StampedShape ==
    ASSUME ConstantsAssumption, TypeOK, NEW p \in ItemMap, NEW t,
           NEW a, NEW drop, NEW redo, NEW own, Exchanged(p, t, a, drop, redo, own)
    PROVE  /\ Stamped(p, a, drop \cup redo) \in ItemMap
           /\ Held(Stamped(p, a, drop \cup redo)) = SavedIn(a) \ (drop \cup redo)
           /\ \A u \in UUID : Stamped(p, a, drop \cup redo)[u] =
                 IF u \in drop \cup redo THEN None ELSE SavedItems(p, a)[u]
  <1>1. SavedItems(p, a) \in ItemMap /\ Held(SavedItems(p, a)) = SavedIn(a)
    BY ExchangedShape, SavedItemsType DEF TypeOK
  <1>2. Stamped(p, a, drop \cup redo) \in ItemMap
    BY <1>1, StoreType, NoItemsType DEF Stamped
  <1>3. \A u \in UUID : Stamped(p, a, drop \cup redo)[u] =
                 IF u \in drop \cup redo THEN None ELSE SavedItems(p, a)[u]
    BY DEF Stamped, Store, NoItems
  <1>4. QED
    BY <1>1, <1>2, <1>3 DEF Held

\* What is retrieved are versions of the server: of what was dropped those it has
\* afterwards.
LEMMA RetrievedShape ==
    ASSUME ConstantsAssumption, TypeOK, NEW p \in ItemMap, NEW t,
           NEW a, NEW drop, NEW redo, NEW own, Exchanged(p, t, a, drop, redo, own)
    PROVE  /\ Retrieved(t, p, a, drop, redo) \in ItemMap
           /\ server' \in ItemMap
           /\ \A u \in redo : Retrieved(t, p, a, drop, redo)[u] = None
           /\ \A u \in drop : Retrieved(t, p, a, drop, redo)[u] =
                 IF server'[u] # None /\ server'[u].ts > t THEN server'[u] ELSE None
           /\ \A u \in UUID \ (drop \cup redo) :
                 Retrieved(t, p, a, drop, redo)[u] = Changed(t, a)[u]
  <1>1. server' = Store(server, SavedItems(p, a), SavedIn(a))
    BY DEF Exchanged, ServerStores
  <1>2. \A u \in UUID : Retrieved(t, p, a, drop, redo)[u] =
            IF u \in redo THEN None
            ELSE IF u \notin drop THEN Changed(t, a)[u]
            ELSE IF server'[u] # None /\ server'[u].ts > t THEN server'[u] ELSE None
    BY <1>1 DEF Retrieved
  <1>3. redo \cap drop = {} /\ drop \subseteq UUID /\ redo \subseteq UUID
    BY ExchangedShape
  <1>4. server' \in ItemMap /\ Changed(t, a) \in ItemMap
    BY <1>1, ExchangedShape, SavedItemsType, StoreType, ChangedType DEF TypeOK
  <1>5. Retrieved(t, p, a, drop, redo) \in ItemMap
    <2>1. \A u \in UUID : Retrieved(t, p, a, drop, redo)[u] \in Item \cup {None}
      BY <1>2, <1>4 DEF ItemMap
    <2>2. QED
      BY <2>1 DEF Retrieved, ItemMap
  <1>6. QED
    BY <1>2, <1>3, <1>4, <1>5

\* The server has what it saved, and keeps what it found in conflict.
LEMMA SavedStored ==
    ASSUME ConstantsAssumption, TypeOK, NEW p \in ItemMap, NEW t,
           NEW a, NEW drop, NEW redo, NEW own, Exchanged(p, t, a, drop, redo, own),
           NEW u \in SavedIn(a)
    PROVE  server'[u] = SavedItems(p, a)[u] /\ server'[u] # None
  <1>1. Held(SavedItems(p, a)) = SavedIn(a) /\ SavedIn(a) \subseteq UUID
    BY ExchangedShape, SavedItemsType DEF TypeOK
  <1>2. server' = Store(server, SavedItems(p, a), SavedIn(a))
    BY DEF Exchanged, ServerStores
  <1>3. server'[u] = SavedItems(p, a)[u]
    BY <1>1, <1>2 DEF Store
  <1>4. QED
    BY <1>1, <1>3 DEF Held

LEMMA StaleStays ==
    ASSUME ConstantsAssumption, TypeOK, NEW p \in ItemMap, NEW t,
           NEW a, NEW drop, NEW redo, NEW own, Exchanged(p, t, a, drop, redo, own),
           NEW u \in Held(p), a[u] = "sync_conflict"
    PROVE  server'[u] = server[u] /\ server[u] # None
  <1>1. u \in UUID /\ u \notin SavedIn(a) /\ a \in Replies(p)
    BY ExchangedShape DEF SavedIn
  <1>2. server' = Store(server, SavedItems(p, a), SavedIn(a))
    BY DEF Exchanged, ServerStores
  <1>3. Stale(p[u], u)
    BY <1>1 DEF Replies
  <1>4. QED
    BY <1>1, <1>2, <1>3 DEF Store, Stale

\* What is reported as saved is what the server has.
LEMMA StampedAt ==
    ASSUME ConstantsAssumption, TypeOK, NEW p \in ItemMap, NEW t,
           NEW a, NEW drop, NEW redo, NEW own, Exchanged(p, t, a, drop, redo, own),
           NEW u \in UUID
    PROVE  /\ u \in SavedIn(a) \ (drop \cup redo)
              => Stamped(p, a, drop \cup redo)[u] = server'[u]
           /\ u \notin SavedIn(a) \ (drop \cup redo)
              => Stamped(p, a, drop \cup redo)[u] = None
  <1>1. Stamped(p, a, drop \cup redo)[u] =
            IF u \in drop \cup redo THEN None ELSE SavedItems(p, a)[u]
    BY DEF Stamped, Store, NoItems
  <1>2. u \in SavedIn(a) => server'[u] = SavedItems(p, a)[u]
    BY SavedStored
  <1>3. u \notin SavedIn(a) => SavedItems(p, a)[u] = None
    BY DEF SavedItems
  <1>4. QED
    BY <1>1, <1>2, <1>3

---------------------------------------------------------------------------
(* Type correctness. *)

\* The initial state has the types.
LEMMA InitType == ASSUME ConstantsAssumption, Init PROVE TypeOK
  <1>1. \A u \in Held(InitialItems) : InitialItems[u].val \in Nat
    BY HeldType DEF ConstantsAssumption, Item
  <1>2. NoItems \in ItemMap
    BY NoItemsType
  <1>3. [u \in UUID |-> "none"] \in [UUID -> Answers]
    BY DEF Answers
  <1>4. [u \in UUID |-> None] \in [UUID -> UUID \cup {None}]
    OBVIOUS
  <1>5. {InitialItems[u].val : u \in Held(InitialItems)} \subseteq Nat
    BY <1>1
  <1>6. QED
    BY <1>2, <1>3, <1>4, <1>5 DEF Init, TypeOK, ConstantsAssumption, Phases

\* A sync that ends leaves its variables in their types.
LEMMA IdleType ==
    ASSUME Idle
    PROVE  /\ pc' \in Phases /\ dirty' \subseteq UUID /\ push' \in ItemMap /\ sent' \in Nat
           /\ answer' \in [UUID -> Answers] /\ theirs' \in ItemMap
           /\ resolved' \in ItemMap /\ saved' \in ItemMap /\ got' \in ItemMap
           /\ newToken' \in Nat /\ done' \subseteq UUID
  <1>1. [u \in UUID |-> "none"] \in [UUID -> Answers]
    BY DEF Answers
  <1>2. QED
    BY <1>1, NoItemsType DEF Idle, Phases

\* Saving an item in the database, whatever the edit.
LEMMA SaveLocallyType ==
    ASSUME TypeOK, NEW u \in UUID, NEW i \in Item, SaveLocally(u, i)
    PROVE  TypeOK'
  <1>1. db' \in ItemMap
    BY DEF TypeOK, SaveLocally, ItemMap
  <1>2. flagged' \subseteq UUID /\ edits' \in Nat
    BY DEF TypeOK, SaveLocally
  <1>3. QED
    BY <1>1, <1>2 DEF TypeOK, SaveLocally, serverVars, runVars, mishaps

\* Storing an item on the server, whatever the edit.
LEMMA StoreRemotelyType ==
    ASSUME TypeOK, NEW u \in UUID, NEW i \in Item, StoreRemotely(u, i)
    PROVE  TypeOK'
  <1>1. [i EXCEPT !.ts = clock + 1] \in Item
    BY DEF Item, TypeOK
  <1>2. server' \in ItemMap
    BY <1>1 DEF TypeOK, StoreRemotely, ItemMap
  <1>3. clock' \in Nat /\ edits' \in Nat /\ taken' \subseteq Nat /\ disturbed' \subseteq UUID
    BY DEF TypeOK, StoreRemotely, Item
  <1>4. QED
    BY <1>2, <1>3 DEF TypeOK, StoreRemotely, dbVars, runVars

\* The items an application or another client makes are items.
LEMMA EditedItemType ==
    ASSUME TypeOK, ConstantsAssumption, NEW f \in ItemMap, NEW u \in Held(f)
    PROVE  /\ [f[u] EXCEPT !.val = edits + 1] \in Item
           /\ [f[u] EXCEPT !.val = edits + 1, !.del = TRUE] \in Item
  <1>1. f[u] \in Item /\ edits + 1 \in Nat
    BY HeldType DEF TypeOK
  <1>2. QED
    BY <1>1 DEF Item

\* So are the items they create.
LEMMA CreatedItemType ==
    ASSUME TypeOK, ConstantsAssumption, NEW k \in CreatedKinds
    PROVE  [kind |-> k, val |-> edits + 1, ts |-> 0, del |-> FALSE] \in Item
  <1>1. edits + 1 \in Nat /\ k \in Kinds
    BY DEF TypeOK, ConstantsAssumption
  <1>2. QED
    BY <1>1 DEF Item

\* What an exchange leaves on the server and in the history has its types.
LEMMA ExchangedType ==
    ASSUME ConstantsAssumption, TypeOK, NEW p \in ItemMap, NEW t,
           NEW a, NEW drop, NEW redo, NEW own, Exchanged(p, t, a, drop, redo, own)
    PROVE  /\ server' \in ItemMap /\ clock' \in Nat /\ taken' \subseteq Nat /\ faults' \in Nat
           /\ refused' \subseteq Nat /\ overlooked' \subseteq Nat /\ again' \subseteq UUID
  <1>1. \A u \in SavedIn(a) : p[u].val \in Nat
    <2>1. \A u \in SavedIn(a) : p[u] \in Item
      BY ExchangedShape, HeldType
    <2>2. QED
      BY <2>1 DEF Item
  <1>2. taken' \subseteq Nat /\ clock' \in Nat
    BY <1>1, NowType DEF TypeOK, Exchanged, ServerStores
  <1>3. again' \subseteq UUID
    BY ExchangedShape DEF TypeOK, Exchanged
  <1>4. QED
    BY <1>2, <1>3, ExchangedShape, OverlooksShape, RetrievedShape

\* The exchange with the server keeps the types.
LEMMA ExchangeType == ASSUME ConstantsAssumption, TypeOK, Exchange PROVE TypeOK'
  <1>1. PICK a, drop, redo, own : FirstExchange(a, drop, redo, own)
    BY ExchangeSplit
  <1>2. Exchanged(push, sent, a, drop, redo, own) /\ push \in ItemMap
    BY <1>1 DEF FirstExchange, TypeOK
  <1>3. /\ server' \in ItemMap /\ clock' \in Nat /\ taken' \subseteq Nat /\ faults' \in Nat
        /\ refused' \subseteq Nat /\ overlooked' \subseteq Nat /\ again' \subseteq UUID
    BY <1>2, ExchangedType
  <1>4. saved' \in ItemMap /\ got' \in ItemMap /\ newToken' \in Nat
    <2>1. Stamped(push, a, drop \cup redo) \in ItemMap
      BY <1>2, StampedShape
    <2>2. Retrieved(sent, push, a, drop, redo) \in ItemMap
      BY <1>2, RetrievedShape
    <2>3. Now(a) \in Nat
      BY NowType DEF TypeOK
    <2>4. QED
      BY <1>1, <2>1, <2>2, <2>3 DEF FirstExchange
  <1>5. theirs' \in ItemMap
    BY <1>1, <1>3, StoreType, NoItemsType DEF FirstExchange
  <1>6. answer' \in [UUID -> Answers]
    <2>1. \A u \in Held(push) : a[u] \in Answers
      BY <1>2, ExchangedShape, RepliesType
    <2>2. DOMAIN a = Held(push)
      BY <1>2, ExchangedShape
    <2>3. QED
      BY <1>1, <2>1, <2>2 DEF FirstExchange, Reported, Answers
  <1>7. disturbed' \subseteq UUID
    BY <1>1, <1>2, ExchangedShape DEF FirstExchange, TypeOK
  <1>8. QED
    BY <1>1, <1>3, <1>4, <1>5, <1>6, <1>7 DEF FirstExchange, TypeOK, Phases

\* What a conflict leaves to push again under its name is an item, if anything.
LEMMA ResolutionType ==
    ASSUME TypeOK, ConflictsKnown, pc = "resolve", NEW u \in UUID
    PROVE  Resolution(u) \in Item \cup {None}
  <1> DEFINE rebased == [push[u] EXCEPT !.ts = theirs[u].ts]
  <1>1. push[u] \in Item \cup {None} /\ theirs[u] \in Item \cup {None}
    BY DEF TypeOK, ItemMap
  <1>2. ASSUME push[u] # None, theirs[u] # None PROVE rebased \in Item
    BY <1>1, <1>2 DEF Item
  <1>3. CASE u \notin Conflicts
    BY <1>3 DEF Resolution
  <1>4. CASE u \in Conflicts
    <2>1. push[u] # None
      BY <1>4 DEF ConflictsKnown
    <2>2. ServerWins(u) => theirs[u] # None
      BY DEF ServerWins
    <2>3. QED
      BY <1>1, <1>2, <1>4, <2>1, <2>2, Zenon DEF Resolution
  <1>5. QED
    BY <1>3, <1>4

\* Resolving conflicts keeps the types.
LEMMA ResolveType ==
    ASSUME ConstantsAssumption, TypeOK, ConflictsKnown, Resolve
    PROVE  TypeOK'
  <1> DEFINE dups == {u \in Conflicts : Duplicated(u)}
  <1>1. PICK name \in [dups -> Fresh] :
          LET named == {name[u] : u \in dups}
              origin(n) == CHOOSE u \in dups : name[u] = n
              next == [u \in UUID |-> IF u \in named THEN push[origin(u)] ELSE Resolution(u)]
          IN /\ \A u, v \in dups : name[u] = name[v] => u = v
             /\ Held(next) # {}
             /\ resolved' = next
             /\ copyOf' = [u \in UUID |-> IF u \in named THEN origin(u) ELSE copyOf[u]]
    BY Zenon DEF Resolve
  <1> DEFINE named == {name[u] : u \in dups}
             origin(n) == CHOOSE u \in dups : name[u] = n
  <1>2. \A n \in named : origin(n) \in dups
    OBVIOUS
  <1>3. dups \subseteq UUID
    BY DEF Conflicts
  <1>4. \A u \in UUID : Resolution(u) \in Item \cup {None}
    BY ResolutionType DEF Resolve
  <1> HIDE DEF dups, named, origin
  <1>5. resolved' = [u \in UUID |-> IF u \in named THEN push[origin(u)] ELSE Resolution(u)]
    BY <1>1 DEF named, origin
  <1>6. copyOf' = [u \in UUID |-> IF u \in named THEN origin(u) ELSE copyOf[u]]
    BY <1>1 DEF named, origin
  <1>7. resolved' \in ItemMap
    BY <1>2, <1>3, <1>4, <1>5 DEF TypeOK, ItemMap
  <1>8. copyOf' \in [UUID -> UUID \cup {None}]
    BY <1>2, <1>3, <1>6 DEF TypeOK
  <1>9. \A u \in GivenUp : push[u].val \in Nat
    <2>1. ASSUME NEW u \in GivenUp PROVE u \in UUID /\ push[u] \in Item
      BY DEF GivenUp, Conflicts, ConflictsKnown, Resolve, TypeOK, ItemMap
    <2>2. QED
      BY <2>1 DEF Item
  <1>10. refused' \subseteq Nat
    <2>1. refused' = refused \cup {push[u].val : u \in GivenUp}
      BY DEF Resolve
    <2>2. QED
      BY <1>9, <2>1 DEF TypeOK
  <1>11. /\ pc' = "resync" /\ "resync" \in Phases
         /\ UNCHANGED <<dbVars, serverVars, dirty, push, sent, answer, theirs, saved,
                        got, newToken, done, edits, faults, taken, mishaps>>
    BY DEF Resolve, Phases
  <1>12. QED
    BY <1>7, <1>8, <1>10, <1>11 DEF TypeOK, dbVars, serverVars, mishaps

\* What is taken over as saved are pushed items with a new timestamp.
LEMMA MineShape ==
    ASSUME ConstantsAssumption, TypeOK, NEW t,
           NEW a, NEW drop, NEW redo, NEW own, Exchanged(resolved, t, a, drop, redo, own)
    PROVE  /\ Mine(a, drop, redo) \in ItemMap
           /\ \A u \in Held(Mine(a, drop, redo)) :
                 /\ u \in Held(push)
                 /\ Mine(a, drop, redo)[u].val = push[u].val
  <1> DEFINE both == Newest(saved, Stamped(resolved, a, drop \cup redo))
  <1>1. both \in ItemMap
    <2>1. saved \in ItemMap /\ resolved \in ItemMap
      BY DEF TypeOK
    <2>2. Stamped(resolved, a, drop \cup redo) \in ItemMap
      BY <2>1, StampedShape, ZenonT(40)
    <2>3. QED
      BY <2>1, <2>2, NewestType
  <1>2. ASSUME NEW u \in UUID, both[u] # None, push[u] # None
        PROVE  /\ [push[u] EXCEPT !.ts = both[u].ts] \in Item
               /\ [push[u] EXCEPT !.ts = both[u].ts].val = push[u].val
    <2>1. both[u] \in Item /\ push[u] \in Item
      BY <1>1, <1>2 DEF TypeOK, ItemMap
    <2>2. QED
      BY <2>1 DEF Item
  <1>3. \A u \in UUID : Mine(a, drop, redo)[u] = IF both[u] # None /\ push[u] # None
                        THEN [push[u] EXCEPT !.ts = both[u].ts] ELSE None
    BY DEF Mine
  <1> HIDE DEF both
  <1>4. Mine(a, drop, redo) \in ItemMap
    BY <1>2, <1>3 DEF Mine, ItemMap
  <1>5. QED
    BY <1>2, <1>3, <1>4 DEF Held

\* The resync keeps the types.
LEMMA ResyncType == ASSUME ConstantsAssumption, TypeOK, Resync PROVE TypeOK'
  <1>1. PICK a, drop, redo, own :
              /\ SecondExchange(a, drop, redo, own)
              /\ \/ /\ Unresolved(Reported(a, drop, redo \cup own))
                    /\ Idle
                    /\ disturbed' = disturbed \cup Held(push) \cup Held(resolved)
                 \/ /\ ~Unresolved(Reported(a, drop, redo \cup own))
                    /\ saved' = Mine(a, drop, redo)
                    /\ got' = Newest(Newest(got, Retrieved(sent, resolved, a, drop, redo)),
                                     Mine(a, drop, redo))
                    /\ disturbed' = disturbed \cup drop
                    /\ pc' = "saveSaved"
                    /\ UNCHANGED <<dirty, push, sent, answer, theirs, resolved,
                                   newToken, done>>
    BY ResyncSplit
  <1>2. Exchanged(resolved, sent, a, drop, redo, own) /\ resolved \in ItemMap
    BY <1>1 DEF SecondExchange, TypeOK
  <1>3. /\ server' \in ItemMap /\ clock' \in Nat /\ taken' \subseteq Nat /\ faults' \in Nat
        /\ refused' \subseteq Nat /\ overlooked' \subseteq Nat /\ again' \subseteq UUID
    BY <1>2, ExchangedType
  <1>4. UNCHANGED <<db, flagged, token, edits, copyOf>>
    BY <1>1 DEF SecondExchange
  <1>5. CASE Idle /\ disturbed' = disturbed \cup Held(push) \cup Held(resolved)
    <2>1. disturbed' \subseteq UUID
      BY <1>5 DEF TypeOK, Held
    <2>2. QED
      BY <1>3, <1>4, <1>5, <2>1, IdleType DEF TypeOK
  <1>6. CASE ~(Idle /\ disturbed' = disturbed \cup Held(push) \cup Held(resolved))
    <2>1. /\ saved' = Mine(a, drop, redo) /\ pc' = "saveSaved"
          /\ got' = Newest(Newest(got, Retrieved(sent, resolved, a, drop, redo)),
                           Mine(a, drop, redo))
          /\ disturbed' = disturbed \cup drop
          /\ UNCHANGED <<dirty, push, sent, answer, theirs, resolved, newToken, done>>
      BY <1>1, <1>6
    <2>2. saved' \in ItemMap /\ got' \in ItemMap
      BY <1>2, <2>1, MineShape, RetrievedShape, NewestType DEF TypeOK
    <2>3. disturbed' \subseteq UUID
      BY <1>2, <2>1, ExchangedShape DEF TypeOK
    <2>4. "saveSaved" \in Phases
      BY DEF Phases, Writing
    <2>5. QED
      BY <1>3, <1>4, <2>1, <2>2, <2>3, <2>4, SMT DEF TypeOK
  <1>7. QED
    BY <1>1, <1>5, <1>6

\* A transaction that writes items over the database keeps the types.
LEMMA TransactionType ==
    ASSUME TypeOK, NEW S \in SUBSET UUID, NEW b, NEW here, NEW next \in Phases,
           Transaction(here, S, next, b),
           db' \in ItemMap, flagged' \subseteq flagged
    PROVE  TypeOK'
  <1>1. b \subseteq UUID
    BY DEF Transaction, Batches
  <1>2. pc' \in Phases /\ done' \subseteq UUID
    BY <1>1 DEF TypeOK, Transaction
  <1>3. QED
    BY <1>2 DEF TypeOK, Transaction, serverVars, history, mishaps

\* Each write to the database is such a transaction.
LEMMA WriteType ==
    ASSUME TypeOK, SaveSaved \/ DeleteSaved \/ Clean \/ SaveItems \/ DeleteItems
    PROVE  TypeOK'
  <1>1. Live(saved) \subseteq UUID /\ Live(got) \subseteq UUID
        /\ Removable(saved) \subseteq UUID /\ Removable(got) \subseteq UUID
        /\ dirty \subseteq UUID
    BY DEF Live, Removable, Gone, Held, TypeOK
  <1>2. {"deleteSaved", "clean", "saveItems", "deleteItems", "dropToken"} \subseteq Phases
    BY DEF Phases, Writing
  <1>3. CASE SaveSaved
    <2>1. PICK b : Transaction("saveSaved", Live(saved), "deleteSaved", b) /\ Put(saved, b)
      BY <1>3 DEF SaveSaved
    <2>2. db' \in ItemMap /\ flagged' \subseteq flagged
      BY <2>1, StoreType DEF TypeOK, Put
    <2>3. QED
      BY <1>1, <1>2, <2>1, <2>2, TransactionType
  <1>4. CASE DeleteSaved
    <2>1. PICK b : Transaction("deleteSaved", Removable(saved), "clean", b) /\ Remove(b)
      BY <1>4 DEF DeleteSaved
    <2>2. db' \in ItemMap /\ flagged' \subseteq flagged
      BY <2>1, StoreType, NoItemsType DEF TypeOK, Remove
    <2>3. QED
      BY <1>1, <1>2, <2>1, <2>2, TransactionType
  <1>5. CASE Clean
    <2>1. PICK b : Transaction("clean", dirty, "saveItems", b) /\ flagged' = flagged \ b /\ UNCHANGED db
      BY <1>5 DEF Clean
    <2>2. db' \in ItemMap /\ flagged' \subseteq flagged
      BY <2>1 DEF TypeOK
    <2>3. QED
      BY <1>1, <1>2, <2>1, <2>2, TransactionType
  <1>6. CASE SaveItems
    <2>1. PICK b : Transaction("saveItems", Live(got), "deleteItems", b) /\ Put(got, b)
      BY <1>6 DEF SaveItems
    <2>2. db' \in ItemMap /\ flagged' \subseteq flagged
      BY <2>1, StoreType DEF TypeOK, Put
    <2>3. QED
      BY <1>1, <1>2, <2>1, <2>2, TransactionType
  <1>7. CASE DeleteItems
    <2>1. PICK b : Transaction("deleteItems", Removable(got), "dropToken", b) /\ Remove(b)
      BY <1>7 DEF DeleteItems
    <2>2. db' \in ItemMap /\ flagged' \subseteq flagged
      BY <2>1, StoreType, NoItemsType DEF TypeOK, Remove
    <2>3. QED
      BY <1>1, <1>2, <2>1, <2>2, TransactionType
  <1>8. QED
    BY <1>3, <1>4, <1>5, <1>6, <1>7

\* The start of a sync keeps the types: what it holds back is in the database.
LEMMA BeginType ==
    ASSUME TypeOK, DirtyExist, NEW age, Begin(age)
    PROVE  TypeOK'
  <1>1. push' \in ItemMap
    BY DEF Begin, TypeOK, ItemMap
  <1>2. \A v \in flagged : db[v].val \in Nat
    BY HeldType DEF DirtyExist, TypeOK, Item
  <1>3. refused' \subseteq Nat
    BY <1>2 DEF Begin, TypeOK
  <1>4. token' \in Nat /\ sent' \in Nat /\ dirty' \subseteq UUID /\ pc' \in Phases
    BY DEF Begin, TypeOK, Phases
  <1>5. QED
    BY <1>1, <1>3, <1>4 DEF TypeOK, Begin, serverVars, mishaps

\* The other steps of a sync keep the types: they take the server's answer as
\* it is, move the token, or give up.
LEMMA OtherStepType ==
    ASSUME TypeOK, ConflictsKnown,
           NoConflict \/ AllSkipped \/ DropToken \/ SaveToken \/ Abort
    PROVE  TypeOK'
  <1>1. {"idle", "saveSaved", "saveToken"} \subseteq Phases
    BY DEF Phases, Writing
  <1>2. CASE NoConflict
    <2>1. got' \in ItemMap
      BY <1>2, NewestType DEF NoConflict, TypeOK
    <2>2. QED
      BY <1>1, <1>2, <2>1 DEF TypeOK, NoConflict, dbVars, serverVars, history, mishaps
  <1>3. CASE AllSkipped
    <2>1. \A u \in GivenUp : push[u].val \in Nat
      <3>1. ASSUME NEW u \in GivenUp PROVE u \in UUID /\ push[u] \in Item
        BY <1>3 DEF GivenUp, Conflicts, ConflictsKnown, AllSkipped, TypeOK, ItemMap
      <3>2. QED
        BY <3>1 DEF Item
    <2>2. refused' \subseteq Nat
      BY <1>3, <2>1 DEF AllSkipped, TypeOK
    <2>3. QED
      BY <1>1, <1>3, <2>2, NoItemsType DEF TypeOK, AllSkipped, dbVars, serverVars, mishaps
  <1>4. CASE DropToken
    BY <1>1, <1>4 DEF TypeOK, DropToken, serverVars, history, mishaps
  <1>5. CASE SaveToken
    BY <1>5, IdleType DEF TypeOK, SaveToken, serverVars, history, mishaps
  <1>6. CASE Abort
    <2>1. disturbed' \subseteq UUID /\ faults' \in Nat
      BY <1>6 DEF Abort, TypeOK, Held
    <2>2. QED
      BY <1>6, <2>1, IdleType DEF TypeOK, Abort, dbVars, serverVars
  <1>7. QED
    BY <1>2, <1>3, <1>4, <1>5, <1>6

\* The edits of the application and of other clients keep the types.
LEMMA EditType ==
    ASSUME ConstantsAssumption, TypeOK, Application \/ OtherClients
    PROVE  TypeOK'
  <1>1. ASSUME NEW u \in UUID, NEW k \in CreatedKinds, Create(u, k) PROVE TypeOK'
    BY <1>1, CreatedItemType, SaveLocallyType DEF Create
  <1>2. ASSUME NEW u \in UUID, Edit(u) \/ Delete(u) PROVE TypeOK'
    <2>1. u \in Held(db) /\ db \in ItemMap
      BY <1>2 DEF Edit, Delete, Held, TypeOK
    <2>2. QED
      BY <1>2, <2>1, EditedItemType, SaveLocallyType DEF Edit, Delete
  <1>3. ASSUME NEW u \in UUID, NEW k \in CreatedKinds, RemoteCreate(u, k) PROVE TypeOK'
    BY <1>3, CreatedItemType, StoreRemotelyType DEF RemoteCreate
  <1>4. ASSUME NEW u \in UUID, RemoteEdit(u) \/ RemoteDelete(u) PROVE TypeOK'
    <2>1. u \in Held(server) /\ server \in ItemMap
      BY <1>4 DEF RemoteEdit, RemoteDelete, Held, TypeOK
    <2>2. QED
      BY <1>4, <2>1, EditedItemType, StoreRemotelyType DEF RemoteEdit, RemoteDelete
  <1>5. QED
    BY <1>1, <1>2, <1>3, <1>4 DEF Application, OtherClients

\* TypeOK is no invariant of its own: it needs that dirty items exist and that
\* conflicts are about pushed items.
TypeInv == TypeOK /\ DirtyExist /\ ConflictsKnown

\* Every dirty item stays in the database: what a write removes is clean.
LEMMA DirtyExistStep ==
    ASSUME ConstantsAssumption, TypeOK, DirtyExist, [Next]_vars
    PROVE  DirtyExist'
  <1>1. None \notin Item
    BY DEF ConstantsAssumption
  <1>2. ASSUME NEW u \in UUID, NEW i \in Item, SaveLocally(u, i) PROVE DirtyExist'
    BY <1>1, <1>2 DEF SaveLocally, DirtyExist, Held, TypeOK, ItemMap
  <1>3. CASE Application
    <2>1. ASSUME NEW u \in UUID, NEW k \in CreatedKinds, Create(u, k) PROVE DirtyExist'
      BY <1>2, <2>1, CreatedItemType DEF Create
    <2>2. ASSUME NEW u \in UUID, Edit(u) \/ Delete(u) PROVE DirtyExist'
      <3>1. u \in Held(db) /\ db \in ItemMap
        BY <2>2 DEF Edit, Delete, Held, TypeOK
      <3>2. QED
        BY <1>2, <2>2, <3>1, EditedItemType DEF Edit, Delete
    <2>3. QED
      BY <1>3, <2>1, <2>2 DEF Application
  <1>4. ASSUME NEW f, NEW b, db' = Store(db, f, b), flagged' = flagged \ b
        PROVE  DirtyExist'
    BY <1>4 DEF DirtyExist, Held, Store
  <1>5. CASE SaveSaved \/ DeleteSaved \/ SaveItems \/ DeleteItems
    BY <1>4, <1>5 DEF SaveSaved, DeleteSaved, SaveItems, DeleteItems, Put, Remove
  <1>6. CASE db' = db /\ flagged' \subseteq flagged
    BY <1>6 DEF DirtyExist, Held
  <1>7. OtherClients => UNCHANGED <<db, flagged>>
    BY DEF OtherClients, RemoteCreate, RemoteEdit, RemoteDelete, StoreRemotely, dbVars
  <1>8. (\E age \in Ages : Begin(age)) => UNCHANGED <<db, flagged>>
    BY DEF Begin
  <1>9. Exchange \/ NoConflict \/ Resolve \/ AllSkipped \/ Resync \/ DropToken
        \/ SaveToken \/ Abort => UNCHANGED <<db, flagged>>
    BY DEF Exchange, NoConflict, Resolve, AllSkipped, Resync, DropToken, SaveToken,
           Abort, dbVars
  <1>10. Clean => db' = db /\ flagged' \subseteq flagged
    BY DEF Clean
  <1>11. UNCHANGED vars => UNCHANGED <<db, flagged>>
    BY DEF vars, dbVars
  <1>12. QED
    BY <1>3, <1>5, <1>6, <1>7, <1>8, <1>9, <1>10, <1>11 DEF Next, SyncStep

\* Only the exchange leads to the resolution of conflicts.
LEMMA ResolveEntered ==
    ASSUME [Next]_vars, ~Exchange
    PROVE  pc' # "resolve" \/ UNCHANGED <<pc, push, answer, theirs>>
  <1>1. Application \/ OtherClients => UNCHANGED <<pc, push, answer, theirs>>
    BY DEF Application, OtherClients, Create, Edit, Delete, RemoteCreate, RemoteEdit,
           RemoteDelete, SaveLocally, StoreRemotely, runVars
  <1>2. (\E age \in Ages : Begin(age)) => pc' # "resolve"
    BY DEF Begin
  <1>3. NoConflict \/ Resolve \/ AllSkipped \/ DropToken \/ SaveToken \/ Abort
        => pc' # "resolve"
    BY DEF NoConflict, Resolve, AllSkipped, DropToken, SaveToken, Abort, Idle
  <1>4. Resync => pc' # "resolve"
    BY DEF Resync, Idle
  <1>5. SaveSaved \/ DeleteSaved \/ Clean \/ SaveItems \/ DeleteItems => pc' # "resolve"
    BY DEF SaveSaved, DeleteSaved, Clean, SaveItems, DeleteItems, Transaction
  <1>6. UNCHANGED vars => UNCHANGED <<pc, push, answer, theirs>>
    BY DEF vars, runVars
  <1>7. QED
    BY <1>1, <1>2, <1>3, <1>4, <1>5, <1>6 DEF Next, SyncStep

\* The server answers about pushed items, and only what it has can be stale.
LEMMA ConflictsKnownStep ==
    ASSUME ConstantsAssumption, TypeOK, ConflictsKnown, [Next]_vars
    PROVE  ConflictsKnown'
  <1>1. CASE Exchange
    <2>1. PICK a, drop, redo, own : FirstExchange(a, drop, redo, own)
      BY <1>1, ExchangeSplit
    <2>2. Exchanged(push, sent, a, drop, redo, own) /\ push \in ItemMap
      BY <2>1 DEF FirstExchange, TypeOK
    <2>3. DOMAIN a = Held(push) /\ redo \subseteq SavedIn(a) /\ own \subseteq SavedIn(a)
      BY <2>2, ExchangedShape
    <2>4. SUFFICES ASSUME NEW u \in UUID, answer'[u] \notin {"none", "saved"}
                   PROVE  push[u] # None /\ (answer'[u] = "sync_conflict" => server'[u] # None)
      BY <2>1 DEF FirstExchange, ConflictsKnown, Conflicts, Store
    <2>5. answer'[u] = Reported(a, drop, redo \cup own)[u]
      BY <2>1 DEF FirstExchange
    <2>6. u \in Held(push)
      BY <2>3, <2>4, <2>5 DEF Reported
    <2>7. CASE u \in redo \cup own
      <3>1. u \in SavedIn(a)
        BY <2>3, <2>7
      <3>2. server'[u] # None
        BY <2>2, <3>1, SavedStored
      <3>3. QED
        BY <2>6, <3>2 DEF Held
    <2>8. CASE u \notin redo \cup own
      <3>1. a[u] = answer'[u]
        BY <2>3, <2>4, <2>5, <2>6, <2>8 DEF Reported
      <3>2. a[u] = "sync_conflict" => server'[u] # None
        BY <2>2, <2>6, StaleStays
      <3>3. QED
        BY <2>6, <3>1, <3>2 DEF Held
    <2>9. QED
      BY <2>7, <2>8
  <1>2. CASE ~Exchange
    BY <1>2, ResolveEntered DEF ConflictsKnown, Conflicts
  <1>3. QED
    BY <1>1, <1>2

\* Every step keeps the types, and what they rest on.
LEMMA TypeInvStep == ASSUME ConstantsAssumption, TypeInv, [Next]_vars PROVE TypeInv'
  <1>0. SUFFICES TypeOK'
    BY DirtyExistStep, ConflictsKnownStep DEF TypeInv
  <1>1. CASE Application \/ OtherClients
    BY <1>1, ConstantsAssumption, EditType DEF TypeInv
  <1>2. CASE \E age \in Ages : Begin(age)
    BY <1>2, BeginType DEF TypeInv
  <1>3. CASE Exchange
    BY <1>3, ConstantsAssumption, ExchangeType DEF TypeInv
  <1>4. CASE Resolve
    BY <1>4, ConstantsAssumption, ResolveType DEF TypeInv
  <1>5. CASE Resync
    BY <1>5, ConstantsAssumption, ResyncType DEF TypeInv
  <1>6. CASE SaveSaved \/ DeleteSaved \/ Clean \/ SaveItems \/ DeleteItems
    BY <1>6, WriteType DEF TypeInv
  <1>7. CASE NoConflict \/ AllSkipped \/ DropToken \/ SaveToken \/ Abort
    BY <1>7, OtherStepType DEF TypeInv
  <1>8. CASE UNCHANGED vars
    BY <1>8 DEF TypeInv, TypeOK, vars, dbVars, serverVars, runVars, history, mishaps
  <1>9. QED
    BY <1>1, <1>2, <1>3, <1>4, <1>5, <1>6, <1>7, <1>8 DEF Next, SyncStep

\* Every state the program reaches has the types.
THEOREM TypeCorrect == Spec => []TypeOK
  <1>1. Init => TypeInv
    <2>1. SUFFICES ASSUME Init PROVE DirtyExist /\ ConflictsKnown
      BY ConstantsAssumption, InitType DEF TypeInv
    <2>2. flagged = {} /\ pc = "idle"
      BY <2>1 DEF Init
    <2>3. QED
      BY <2>2 DEF DirtyExist, ConflictsKnown
  <1>2. TypeInv /\ [Next]_vars => TypeInv'
    BY ConstantsAssumption, TypeInvStep
  <1>3. TypeInv => TypeOK
    BY DEF TypeInv
  <1>4. QED
    BY <1>1, <1>2, <1>3, PTL DEF Spec

---------------------------------------------------------------------------
(* No edit is forgotten. *)

\* The part of IInv that is not about types.
EditsInHand ==
    /\ ServerTaken /\ EditsAccounted /\ DirtyKnown /\ PushCurrent
    /\ Answered /\ Reconciled /\ WritesSettled

\* The phases are distinct: what is true of one says nothing of the others.
LEMMA PhasesDistinct ==
    /\ {"idle", "exchange", "resolve", "resync"} \cap Writing = {}
    /\ {"deleteSaved", "clean", "saveItems", "deleteItems", "dropToken", "saveToken",
        "saveSaved"} \subseteq Writing
  BY DEF Writing

\* A local edit is pending: it owes nothing to the account yet.
LEMMA SaveLocallyInv ==
    ASSUME ConstantsAssumption, TypeOK, EditsInHand,
           NEW u \in UUID, NEW i \in Item, SaveLocally(u, i)
    PROVE  EditsInHand'
  <1>1. /\ pc = "idle" /\ pc' = "idle" /\ server' = server
        /\ UNCHANGED <<faults, taken, refused, overlooked>>
        /\ db' = [db EXCEPT ![u] = i] /\ flagged' = flagged \cup {u}
    BY DEF SaveLocally, runVars, serverVars, mishaps
  <1>2. ServerTaken'
    BY <1>1 DEF EditsInHand, ServerTaken, Held
  <1>3. EditsAccounted'
    BY <1>1 DEF EditsInHand, EditsAccounted, Held, TypeOK, ItemMap
  <1>4. (DirtyKnown /\ PushCurrent /\ Answered /\ Reconciled /\ WritesSettled)'
    BY <1>1, PhasesDistinct DEF DirtyKnown, PushCurrent, Answered, Reconciled, WritesSettled
  <1>5. QED
    BY <1>2, <1>3, <1>4 DEF EditsInHand

\* What another client stores is settled, and disturbs nothing of a sync.
LEMMA StoreRemotelyInv ==
    ASSUME ConstantsAssumption, TypeOK, EditsInHand,
           NEW u \in UUID, NEW i \in Item, StoreRemotely(u, i)
    PROVE  EditsInHand'
  <1>1. /\ UNCHANGED <<db, flagged, pc, dirty, push, answer, theirs, resolved, saved, got>>
        /\ server' = [server EXCEPT ![u] = [i EXCEPT !.ts = clock + 1]]
        /\ UNCHANGED <<faults, refused, overlooked>>
        /\ taken' = taken \cup {i.val} /\ Settled' = Settled \cup {i.val}
    BY DEF StoreRemotely, dbVars, runVars, Settled
  <1>2. [i EXCEPT !.ts = clock + 1].val = i.val
    BY DEF Item
  <1>3. ServerTaken'
    BY <1>1, <1>2 DEF EditsInHand, ServerTaken, Held, TypeOK, ItemMap
  <1>4. (EditsAccounted /\ DirtyKnown /\ PushCurrent)'
    BY <1>1 DEF EditsInHand, EditsAccounted, DirtyKnown, PushCurrent, Held
  <1>5. (Answered /\ Reconciled /\ WritesSettled)'
    BY <1>1 DEF EditsInHand, Answered, Reconciled, WritesSettled, AllSettled, Held, Conflicts
  <1>6. QED
    BY <1>3, <1>4, <1>5 DEF EditsInHand

\* A sync starts: it pushes what the database holds, and refuses the rest.
LEMMA BeginInv ==
    ASSUME ConstantsAssumption, TypeOK, DirtyExist, EditsInHand, NEW age, Begin(age)
    PROVE  EditsInHand'
  <1>1. /\ UNCHANGED <<db, flagged, server, faults, taken, overlooked>>
        /\ pc' = "exchange" /\ dirty' = flagged
        /\ refused \subseteq refused'
        /\ push' = [u \in UUID |-> IF u \in flagged /\ ~Blocked(db[u]) THEN db[u] ELSE None]
        /\ Settled' = Settled \cup {db[u].val : u \in {v \in flagged : Blocked(db[v])}}
    BY DEF Begin, serverVars, mishaps, Settled
  <1>2. ServerTaken' /\ EditsAccounted'
    BY <1>1 DEF EditsInHand, ServerTaken, EditsAccounted, Held
  <1>3. DirtyKnown'
    BY <1>1 DEF DirtyKnown
  <1>4. \A u \in flagged : db[u] # None /\ u \in UUID
    BY DEF DirtyExist, Held
  <1>5. PushCurrent'
    BY <1>1, <1>4 DEF PushCurrent, Held
  <1>6. (Answered /\ Reconciled /\ WritesSettled)'
    BY <1>1, PhasesDistinct DEF Answered, Reconciled, WritesSettled
  <1>7. QED
    BY <1>2, <1>3, <1>5, <1>6 DEF EditsInHand

\* What a request leaves on the server it has taken, what it saved included; and
\* every item that is put is then stored, or refused, or overlooked, or the output
\* reports a conflict about it.
LEMMA ExchangedInv ==
    ASSUME ConstantsAssumption, TypeOK, ServerTaken, EditsAccounted,
           NEW p \in ItemMap, NEW t,
           NEW a, NEW drop, NEW redo, NEW own, Exchanged(p, t, a, drop, redo, own)
    PROVE  /\ Settled \subseteq Settled' /\ taken \subseteq taken' /\ refused \subseteq refused'
           /\ ServerTaken'
           /\ faults' = 0 => overlooked' = {}
           /\ \A u \in Held(Stamped(p, a, drop \cup redo)) :
                 /\ u \in Held(p)
                 /\ Stamped(p, a, drop \cup redo)[u].val = p[u].val
                 /\ p[u].val \in Settled'
           /\ \A u \in Held(Retrieved(t, p, a, drop, redo)) :
                 Retrieved(t, p, a, drop, redo)[u].val \in taken'
           /\ \A u \in Held(p) : Reported(a, drop, redo \cup own)[u] \in {"none", "saved"}
                 => p[u].val \in Settled'
  <1>1. /\ server' = Store(server, SavedItems(p, a), SavedIn(a))
        /\ taken' = taken \cup {p[u].val : u \in SavedIn(a)}
    BY DEF Exchanged, ServerStores
  <1>2. taken \subseteq taken' /\ \A u \in SavedIn(a) : p[u].val \in taken'
    BY <1>1
  <1>3. refused \subseteq refused' /\ overlooked \subseteq overlooked'
    BY OverlooksShape
  <1>4. Settled \subseteq Settled' /\ taken' \subseteq Settled'
    BY <1>2, <1>3 DEF Settled
  <1>5. a \in Replies(p)
    BY ExchangedShape
  <1>6. \A u \in SavedIn(a) : SavedItems(p, a)[u].val = p[u].val
    BY <1>5, SavedItemsType DEF TypeOK
  <1>7. ServerTaken'
    <2>1. \A u \in UUID : server'[u] = IF u \in SavedIn(a) THEN SavedItems(p, a)[u] ELSE server[u]
      BY <1>1 DEF Store
    <2>2. QED
      BY <1>2, <1>6, <2>1 DEF ServerTaken, Held
  <1>8. faults' = 0 => overlooked' = {}
    <2>1. faults' = 0 => faults = 0 /\ drop = {}
      BY ExchangedShape
    <2>2. drop = {} => overlooked' = overlooked
      BY OverlooksShape
    <2>3. QED
      BY <2>1, <2>2 DEF EditsAccounted
  <1>9. ASSUME NEW u \in Held(Stamped(p, a, drop \cup redo))
        PROVE  /\ u \in Held(p) /\ p[u].val \in Settled'
               /\ Stamped(p, a, drop \cup redo)[u].val = p[u].val
    <2>1. u \in SavedIn(a) \ (drop \cup redo) /\ u \in UUID
      BY <1>9, StampedShape DEF Held
    <2>2. u \in Held(p)
      BY <2>1, ExchangedShape
    <2>3. Stamped(p, a, drop \cup redo)[u] = SavedItems(p, a)[u]
      BY <2>1, StampedShape
    <2>4. QED
      BY <1>2, <1>4, <1>6, <2>1, <2>2, <2>3
  <1>10. ASSUME NEW u \in Held(Retrieved(t, p, a, drop, redo))
         PROVE  Retrieved(t, p, a, drop, redo)[u].val \in taken'
    <2>1. u \in UUID /\ Retrieved(t, p, a, drop, redo)[u] # None
      BY <1>10 DEF Held
    <2>2. u \notin redo
      BY <2>1, RetrievedShape
    <2>3. CASE u \in drop
      BY <1>7, <2>1, <2>3, RetrievedShape DEF ServerTaken, Held
    <2>4. CASE u \notin drop
      <3>1. Retrieved(t, p, a, drop, redo)[u] = Changed(t, a)[u]
        BY <2>1, <2>2, <2>4, RetrievedShape
      <3>2. Retrieved(t, p, a, drop, redo)[u] = server[u]
        BY <2>1, <3>1 DEF Changed
      <3>3. QED
        BY <1>2, <2>1, <3>2 DEF ServerTaken, Held
    <2>5. QED
      BY <2>3, <2>4
  <1>11. ASSUME NEW u \in Held(p),
                Reported(a, drop, redo \cup own)[u] \in {"none", "saved"}
         PROVE  p[u].val \in Settled'
    <2>1. u \in UUID /\ DOMAIN a = Held(p)
      BY ExchangedShape
    <2>2. CASE u \in SavedIn(a)
      BY <1>2, <1>4, <2>2
    <2>3. CASE u \in drop \ SavedIn(a)
      BY <2>3, OverlooksShape DEF Settled
    <2>4. CASE u \notin drop \cup SavedIn(a)
      <3>1. u \notin redo \cup own
        BY <2>4, ExchangedShape
      <3>2. Reported(a, drop, redo \cup own)[u] = a[u]
        BY <2>1, <2>4, <3>1 DEF Reported
      <3>3. a[u] # "none"
        BY <1>5, RepliesType
      <3>4. a[u] # "saved"
        BY <2>1, <2>4 DEF SavedIn
      <3>5. QED
        BY <1>11, <3>2, <3>3, <3>4
    <2>5. QED
      BY <2>2, <2>3, <2>4
  <1>12. QED
    BY <1>2, <1>3, <1>4, <1>7, <1>8, <1>9, <1>10, <1>11

\* After the exchange every pushed item is stored, given up or in conflict.
LEMMA ExchangeInv ==
    ASSUME ConstantsAssumption, TypeOK, EditsInHand, Exchange
    PROVE  EditsInHand'
  <1>1. PICK a, drop, redo, own : FirstExchange(a, drop, redo, own)
    BY ExchangeSplit
  <1>2. /\ Exchanged(push, sent, a, drop, redo, own)
        /\ saved' = Stamped(push, a, drop \cup redo)
        /\ got' = Retrieved(sent, push, a, drop, redo)
        /\ answer' = Reported(a, drop, redo \cup own)
        /\ theirs' = Store(NoItems, server', {u \in UUID : answer'[u] \notin {"none", "saved"}})
        /\ UNCHANGED <<db, flagged, dirty, push>>
        /\ pc = "exchange" /\ pc' = "resolve"
    BY <1>1 DEF FirstExchange
  <1>3. ServerTaken /\ EditsAccounted /\ push \in ItemMap
    BY DEF EditsInHand, TypeOK
  <1>4. /\ Settled \subseteq Settled' /\ ServerTaken' /\ taken' \subseteq Settled'
        /\ faults' = 0 => overlooked' = {}
    BY <1>2, <1>3, ExchangedInv DEF Settled
  <1>5. EditsAccounted'
    BY <1>2, <1>3, <1>4 DEF EditsAccounted, Held, Settled
  <1>6. (DirtyKnown /\ PushCurrent)'
    BY <1>2, <1>4 DEF EditsInHand, DirtyKnown, PushCurrent, Held
  <1>7. \A u \in Held(saved') : saved'[u].val \in Settled'
    <2>1. ASSUME NEW u \in Held(Stamped(push, a, drop \cup redo))
          PROVE  Stamped(push, a, drop \cup redo)[u].val \in Settled'
      <3>1. u \in SavedIn(a) /\ u \in UUID
        BY <2>1 DEF Stamped, Store, Held, NoItems, SavedItems
      <3>2. Stamped(push, a, drop \cup redo)[u] = SavedItems(push, a)[u]
        BY <2>1, <3>1 DEF Stamped, Store, Held, NoItems
      <3>3. server'[u] = SavedItems(push, a)[u] /\ u \in Held(server')
        BY <1>2, <1>3, <3>1, SavedStored DEF Held
      <3>4. QED
        BY <1>4, <3>2, <3>3 DEF ServerTaken
    <2>2. QED
      BY <1>2, <2>1
  <1>8. \A u \in Held(got') : got'[u].val \in Settled'
    BY <1>2, <1>3, <1>4, ExchangedInv
  <1>9. \A u \in Held(theirs') : theirs'[u].val \in taken'
    BY <1>2, <1>4 DEF Store, NoItems, Held, ServerTaken
  <1>10. \A u \in Held(push) \ Conflicts' : push[u].val \in Settled'
    <2>1. ASSUME NEW u \in Held(push) \ Conflicts' PROVE answer'[u] \in {"none", "saved"}
      BY DEF Conflicts, Held
    <2>2. QED
      BY <1>2, <1>3, <2>1, ExchangedInv
  <1>11. Answered'
    <2>1. AllSettled(saved)' /\ AllSettled(got)'
      BY <1>7, <1>8 DEF AllSettled
    <2>2. QED
      BY <1>2, <1>9, <1>10, <2>1 DEF Answered, Held
  <1>12. (Reconciled /\ WritesSettled)'
    BY <1>2, PhasesDistinct DEF Reconciled, WritesSettled
  <1>13. QED
    BY <1>4, <1>5, <1>6, <1>11, <1>12 DEF EditsInHand

\* Merging settled items gives settled items.
LEMMA NewestSettled ==
    ASSUME NEW f, NEW g, NEW S,
           \A u \in Held(f) : f[u].val \in S, \A u \in Held(g) : g[u].val \in S
    PROVE  \A u \in Held(Newest(f, g)) : Newest(f, g)[u].val \in S
  BY DEF Newest, Held

\* Without a conflict everything in hand is settled.
LEMMA NoConflictInv ==
    ASSUME EditsInHand, DirtyExist, NoConflict
    PROVE  EditsInHand'
  <1>1. /\ UNCHANGED <<db, flagged, server, dirty, push, saved, faults, taken, refused,
                       overlooked>>
        /\ pc = "resolve" /\ pc' = "saveSaved" /\ got' = Newest(got, saved)
        /\ Conflicts = {}
    BY DEF NoConflict, dbVars, serverVars, history, mishaps
  <1>2. Settled' = Settled
    BY <1>1 DEF Settled
  <1>3. (ServerTaken /\ EditsAccounted /\ DirtyKnown)'
    BY <1>1 DEF EditsInHand, ServerTaken, EditsAccounted, DirtyKnown, Held
  <1>4. /\ \A u \in Held(saved) : saved[u].val \in Settled
        /\ \A u \in Held(got) : got[u].val \in Settled
        /\ \A u \in Held(push) : push[u].val \in Settled
    BY <1>1 DEF EditsInHand, Answered, AllSettled
  <1>5. \A u \in Held(got') : got'[u].val \in Settled
    BY <1>1, <1>4, NewestSettled
  <1>6. \A u \in flagged : db[u].val \in Settled
    BY <1>1, <1>4 DEF EditsInHand, PushCurrent, Held, DirtyExist
  <1>7. WritesSettled'
    BY <1>1, <1>2, <1>4, <1>5, <1>6 DEF WritesSettled, AllSettled, Held
  <1>8. (PushCurrent /\ Answered /\ Reconciled)'
    BY <1>1 DEF PushCurrent, Answered, Reconciled
  <1>9. QED
    BY <1>3, <1>7, <1>8 DEF EditsInHand

\* A conflict that leaves nothing to push under its name gave the edit up, or
\* pushes it under a new one.
LEMMA ConflictOutcome ==
    ASSUME ConstantsAssumption, TypeOK, ConflictsKnown, pc = "resolve", NEW u \in Conflicts
    PROVE  \/ u \in GivenUp
           \/ Duplicated(u)
           \/ Resolution(u) \in Item /\ Resolution(u).val = push[u].val
  <1> DEFINE rebased == [push[u] EXCEPT !.ts = theirs[u].ts]
  <1>1. u \in UUID /\ push[u] \in Item /\ theirs[u] \in Item \cup {None}
    BY DEF Conflicts, ConflictsKnown, TypeOK, ItemMap
  <1>2. theirs[u] # None => rebased \in Item /\ rebased.val = push[u].val
    BY <1>1 DEF Item
  <1>3. CASE LocalWins(u) \/ DeletionWins(u)
    <2>1. ~ServerWins(u)
      BY <1>3 DEF LocalWins, DeletionWins
    <2>2. Resolution(u) = IF theirs[u] = None THEN push[u] ELSE rebased
      BY <1>3, <2>1, Zenon DEF Resolution
    <2>3. QED
      BY <1>1, <1>2, <2>2
  <1>4. CASE ~LocalWins(u) /\ ~DeletionWins(u)
    BY <1>4, Zenon DEF GivenUp
  <1>5. QED
    BY <1>3, <1>4

\* What a conflict leaves to push under its name is the server's version, or what
\* was pushed.
LEMMA ResolutionOrigin ==
    ASSUME TypeOK, ConflictsKnown, pc = "resolve", NEW u \in UUID, Resolution(u) # None
    PROVE  \/ theirs[u] # None /\ Resolution(u) = theirs[u]
           \/ push[u] # None /\ Resolution(u).val = push[u].val
  <1> DEFINE rebased == [push[u] EXCEPT !.ts = theirs[u].ts]
  <1>1. u \in Conflicts
    BY Zenon DEF Resolution
  <1>2. push[u] # None /\ push[u] \in Item \cup {None}
    BY <1>1 DEF ConflictsKnown, TypeOK, ItemMap
  <1>3. rebased.val = push[u].val
    BY <1>2 DEF Item
  <1> HIDE DEF rebased
  <1>4. Resolution(u) \in {theirs[u], push[u], rebased}
    BY <1>1, Zenon DEF Resolution, rebased
  <1>5. QED
    BY <1>2, <1>3, <1>4

\* Every edit in conflict is pushed again, under its name or another, or given up.
LEMMA ResolveInv ==
    ASSUME ConstantsAssumption, TypeOK, ConflictsKnown, EditsInHand, Resolve
    PROVE  EditsInHand'
  <1> DEFINE dups == {u \in Conflicts : Duplicated(u)}
  <1>1. PICK name \in [dups -> Fresh] :
          LET named == {name[u] : u \in dups}
              origin(n) == CHOOSE u \in dups : name[u] = n
              next == [u \in UUID |-> IF u \in named THEN push[origin(u)] ELSE Resolution(u)]
          IN /\ \A u, v \in dups : name[u] = name[v] => u = v
             /\ Held(next) # {}
             /\ resolved' = next
             /\ copyOf' = [u \in UUID |-> IF u \in named THEN origin(u) ELSE copyOf[u]]
    BY Zenon DEF Resolve
  <1> DEFINE named == {name[u] : u \in dups}
             origin(n) == CHOOSE u \in dups : name[u] = n
  <1>2. \A u \in dups : name[u] \in named /\ origin(name[u]) = u
    BY <1>1
  <1>3. named \subseteq Fresh
    BY <1>1
  <1> HIDE DEF dups, named, origin
  <1>4. resolved' = [u \in UUID |-> IF u \in named THEN push[origin(u)] ELSE Resolution(u)]
    BY <1>1 DEF named, origin
  <1>5. /\ UNCHANGED <<db, flagged, server, dirty, push, saved, got, faults, taken,
                       overlooked>>
        /\ pc = "resolve" /\ pc' = "resync"
        /\ refused' = refused \cup {push[u].val : u \in GivenUp}
    BY DEF Resolve, dbVars, serverVars, mishaps
  <1>6. Settled \subseteq Settled' /\ \A u \in GivenUp : push[u].val \in Settled'
    BY <1>5 DEF Settled
  <1>7. (ServerTaken /\ EditsAccounted /\ DirtyKnown /\ PushCurrent)'
    BY <1>5, <1>6 DEF EditsInHand, ServerTaken, EditsAccounted, DirtyKnown, PushCurrent, Held
  <1>8. AllSettled(saved)' /\ AllSettled(got)'
    BY <1>5, <1>6 DEF EditsInHand, Answered, AllSettled, Held
  <1>9. ASSUME NEW u \in Held(push)
        PROVE  \/ push[u].val \in Settled'
               \/ \E n \in Held(resolved') : resolved'[n].val = push[u].val
    <2>1. u \in UUID /\ push[u] \in Item /\ push[u] = db[u]
      BY <1>5, HeldType DEF TypeOK, EditsInHand, PushCurrent
    <2>2. CASE u \notin Conflicts
      BY <1>5, <1>6, <2>2 DEF EditsInHand, Answered
    <2>3. CASE u \in GivenUp
      BY <1>6, <2>3
    <2>4. CASE u \in Conflicts /\ Duplicated(u)
      <3>1. u \in dups
        BY <2>4, Zenon DEF dups
      <3>2. name[u] \in UUID /\ resolved'[name[u]] = push[u]
        BY <1>2, <1>3, <1>4, <3>1 DEF Fresh
      <3>3. QED
        BY <2>1, <3>2 DEF Held, ConstantsAssumption
    <2>5. CASE Resolution(u) \in Item /\ Resolution(u).val = push[u].val
      <3>1. db[u] # None
        BY <2>1 DEF ConstantsAssumption
      <3>2. u \notin named
        BY <1>3, <3>1 DEF Fresh
      <3>3. resolved'[u] = Resolution(u)
        BY <1>4, <2>1, <3>2
      <3>4. QED
        BY <2>1, <2>5, <3>3 DEF Held, ConstantsAssumption
    <2>6. QED
      BY <1>5, <2>2, <2>3, <2>4, <2>5, ConflictOutcome
  <1>10. ASSUME NEW n \in Held(resolved')
         PROVE  \/ resolved'[n].val \in taken' \cup refused'
                \/ \E u \in Held(push) : resolved'[n].val = push[u].val
    <2>1. n \in UUID /\ resolved'[n] # None
      BY <1>10 DEF Held
    <2>2. CASE n \in named
      <3>1. PICK u \in dups : n = name[u] /\ origin(n) = u
        BY <1>2, <2>2 DEF named
      <3>2. resolved'[n] = push[u] /\ u \in UUID
        BY <1>4, <2>1, <2>2, <3>1 DEF dups, Conflicts
      <3>3. QED
        BY <2>1, <3>2 DEF Held
    <2>3. CASE n \notin named
      <3>1. resolved'[n] = Resolution(n) /\ Resolution(n) # None
        BY <1>4, <2>1, <2>3
      <3>2. \/ n \in Held(theirs) /\ Resolution(n) = theirs[n]
            \/ n \in Held(push) /\ Resolution(n).val = push[n].val
        BY <1>5, <2>1, <3>1, ResolutionOrigin DEF Held
      <3>3. n \in Held(theirs) => theirs[n].val \in taken'
        BY <1>5 DEF EditsInHand, Answered
      <3>4. QED
        BY <3>1, <3>2, <3>3
    <2>4. QED
      BY <2>2, <2>3
  <1>13. Reconciled'
    BY <1>5, <1>8, <1>9, <1>10 DEF Reconciled, Held
  <1>11. (Answered /\ WritesSettled)'
    BY <1>5, PhasesDistinct DEF Answered, WritesSettled
  <1>12. QED
    BY <1>7, <1>11, <1>13 DEF EditsInHand

\* When every conflict was skipped, every edit in conflict was given up.
LEMMA AllSkippedInv ==
    ASSUME ConstantsAssumption, TypeOK, DirtyExist, ConflictsKnown, EditsInHand, AllSkipped
    PROVE  EditsInHand'
  <1>1. /\ UNCHANGED <<db, flagged, server, dirty, push, faults, taken, overlooked>>
        /\ pc = "resolve" /\ pc' = "saveSaved" /\ saved' = NoItems /\ got' = NoItems
        /\ refused' = refused \cup {push[u].val : u \in GivenUp}
    BY DEF AllSkipped, dbVars, serverVars, mishaps
  <1>2. \A u \in Conflicts : ~Duplicated(u) /\ Resolution(u) = None
    BY DEF AllSkipped
  <1>3. Conflicts \subseteq GivenUp
    BY <1>1, <1>2, ConflictOutcome DEF ConstantsAssumption
  <1>4. Settled \subseteq Settled' /\ \A u \in Conflicts : push[u].val \in Settled'
    BY <1>1, <1>3 DEF Settled
  <1>5. (ServerTaken /\ EditsAccounted /\ DirtyKnown)'
    BY <1>1, <1>4 DEF EditsInHand, ServerTaken, EditsAccounted, DirtyKnown, Held
  <1>6. \A u \in Held(push) : push[u].val \in Settled'
    BY <1>1, <1>4 DEF EditsInHand, Answered
  <1>7. \A u \in flagged : db[u].val \in Settled'
    BY <1>1, <1>4, <1>6 DEF EditsInHand, PushCurrent, Held, DirtyExist
  <1>8. WritesSettled'
    BY <1>1, <1>7, NoItemsType DEF WritesSettled, AllSettled
  <1>9. (PushCurrent /\ Answered /\ Reconciled)'
    BY <1>1 DEF PushCurrent, Answered, Reconciled
  <1>10. QED
    BY <1>5, <1>8, <1>9 DEF EditsInHand

\* After a resync without conflicts every pushed edit is stored, given up or
\* held back; after one with conflicts the sync has ended.
LEMMA ResyncInv ==
    ASSUME ConstantsAssumption, TypeOK, DirtyExist, EditsInHand, Resync
    PROVE  EditsInHand'
  <1>1. PICK a, drop, redo, own :
              /\ SecondExchange(a, drop, redo, own)
              /\ \/ /\ Unresolved(Reported(a, drop, redo \cup own))
                    /\ Idle
                    /\ disturbed' = disturbed \cup Held(push) \cup Held(resolved)
                 \/ /\ ~Unresolved(Reported(a, drop, redo \cup own))
                    /\ saved' = Mine(a, drop, redo)
                    /\ got' = Newest(Newest(got, Retrieved(sent, resolved, a, drop, redo)),
                                     Mine(a, drop, redo))
                    /\ disturbed' = disturbed \cup drop
                    /\ pc' = "saveSaved"
                    /\ UNCHANGED <<dirty, push, sent, answer, theirs, resolved,
                                   newToken, done>>
    BY ResyncSplit
  <1>2. /\ Exchanged(resolved, sent, a, drop, redo, own)
        /\ UNCHANGED <<db, flagged>> /\ pc = "resync"
    BY <1>1 DEF SecondExchange
  <1>3. ServerTaken /\ EditsAccounted /\ resolved \in ItemMap
    BY DEF EditsInHand, TypeOK
  <1>4. /\ Settled \subseteq Settled' /\ ServerTaken' /\ taken' \subseteq Settled'
        /\ faults' = 0 => overlooked' = {}
    BY <1>2, <1>3, ExchangedInv DEF Settled
  <1>5. EditsAccounted'
    BY <1>2, <1>3, <1>4 DEF EditsAccounted, Held, Settled
  <1>6. CASE Idle
    <2>1. pc' = "idle"
      BY <1>6 DEF Idle
    <2>2. QED
      BY <1>4, <1>5, <2>1, PhasesDistinct
      DEF EditsInHand, DirtyKnown, PushCurrent, Answered, Reconciled, WritesSettled
  <1>7. CASE ~Idle
    <2>1. /\ ~Unresolved(Reported(a, drop, redo \cup own))
          /\ saved' = Mine(a, drop, redo)
          /\ got' = Newest(Newest(got, Retrieved(sent, resolved, a, drop, redo)),
                           Mine(a, drop, redo))
          /\ pc' = "saveSaved" /\ UNCHANGED <<dirty, push>>
      BY <1>1, <1>7
    <2>2. \A n \in Held(resolved) : resolved[n].val \in Settled'
      <3>1. \A n \in Held(resolved) :
              Reported(a, drop, redo \cup own)[n] \in {"none", "saved"}
        BY <2>1 DEF Unresolved, Held
      <3>2. QED
        BY <1>2, <1>3, <3>1, ExchangedInv
    <2>3. \A u \in Held(push) : push[u].val \in Settled'
      BY <1>2, <1>4, <2>2 DEF EditsInHand, Reconciled
    <2>4. \A u \in Held(saved') : saved'[u].val \in Settled'
      BY <1>2, <2>1, <2>3, MineShape
    <2>5. \A u \in Held(Retrieved(sent, resolved, a, drop, redo)) :
              Retrieved(sent, resolved, a, drop, redo)[u].val \in Settled'
      BY <1>2, <1>3, <1>4, ExchangedInv
    <2>6. \A u \in Held(got) : got[u].val \in Settled'
      BY <1>2, <1>4 DEF EditsInHand, Reconciled, AllSettled
    <2>7. \A u \in Held(got') : got'[u].val \in Settled'
      BY <2>1, <2>4, <2>5, <2>6, NewestSettled
    <2>8. \A u \in flagged : db[u].val \in Settled'
      BY <1>2, <1>4, <2>3 DEF EditsInHand, PushCurrent, Held, DirtyExist
    <2>9. WritesSettled'
      BY <1>2, <2>1, <2>4, <2>7, <2>8 DEF WritesSettled, AllSettled, Held
    <2>10. (DirtyKnown /\ PushCurrent /\ Answered /\ Reconciled)'
      BY <1>2, <2>1 DEF EditsInHand, DirtyKnown, PushCurrent, Answered, Reconciled
    <2>11. QED
      BY <1>4, <1>5, <2>9, <2>10 DEF EditsInHand
  <1>8. QED
    BY <1>6, <1>7

\* A write keeps, removes or replaces by settled edits the items of its batch,
\* and cleans them.
Rewrites(b) ==
    /\ flagged' = flagged \ b
    /\ \A u \in UUID \ b : db'[u] = db[u]
    /\ \A u \in UUID \cap b : db'[u] = db[u] \/ db'[u] = None \/ db'[u].val \in Settled

\* It changes neither what the sync has in hand nor what is settled.
WriteFrame ==
    /\ UNCHANGED <<server, dirty, push, answer, theirs, resolved, saved, got, faults, taken,
                   refused, overlooked>>
    /\ pc \in Writing /\ pc' \in Writing

\* A transaction between write phases is framed so.
LEMMA TransactionFrame ==
    ASSUME NEW here \in Writing, NEW next \in Writing, NEW S, NEW b,
           Transaction(here, S, next, b)
    PROVE  WriteFrame
  BY DEF Transaction, WriteFrame, serverVars, history, mishaps

\* After a write every edit in hand is settled as before.
LEMMA WriteInv ==
    ASSUME flagged \subseteq UUID, EditsInHand, NEW b, WriteFrame, Rewrites(b)
    PROVE  EditsInHand'
  <1> USE DEF Rewrites
  <1>1. /\ UNCHANGED <<server, dirty, push, answer, theirs, resolved, saved, got, faults,
                       taken, refused, overlooked>>
        /\ Settled' = Settled /\ pc \in Writing /\ pc' \in Writing
    BY DEF WriteFrame, Settled
  <1>2. /\ AllSettled(saved) /\ AllSettled(got)
        /\ \A u \in flagged : db[u].val \in Settled
    BY <1>1 DEF EditsInHand, WritesSettled
  <1>3. ServerTaken' /\ AllSettled(saved)' /\ AllSettled(got)'
    BY <1>1, <1>2 DEF EditsInHand, ServerTaken, AllSettled, Held
  <1>4. EditsAccounted'
    <2>1. ASSUME NEW u \in Held(db') \ flagged' PROVE db'[u].val \in Settled
      BY <1>2 DEF EditsInHand, EditsAccounted, Held, Settled
    <2>2. QED
      BY <1>1, <2>1 DEF EditsInHand, EditsAccounted, Held, Settled
  <1>5. \A u \in flagged' : db'[u].val \in Settled'
    BY <1>1, <1>2
  <1>6. WritesSettled'
    BY <1>3, <1>5 DEF WritesSettled
  <1>7. (DirtyKnown /\ PushCurrent /\ Answered /\ Reconciled)'
    BY <1>1, PhasesDistinct DEF EditsInHand, DirtyKnown, PushCurrent, Answered, Reconciled
  <1>8. QED
    BY <1>3, <1>4, <1>6, <1>7 DEF EditsInHand

\* A sync that ends, or moves the token, changes no item.
LEMMA TokenStepInv ==
    ASSUME TypeOK, EditsInHand, DropToken \/ SaveToken \/ Abort
    PROVE  EditsInHand'
  <1>1. UNCHANGED <<db, flagged, server, taken, refused, overlooked>>
    BY DEF DropToken, SaveToken, Abort, dbVars, serverVars, history, mishaps
  <1>2. Settled' = Settled
    BY <1>1 DEF Settled
  <1>3. (ServerTaken /\ EditsAccounted)'
    <2>1. faults' = faults \/ faults' = faults + 1
      BY DEF DropToken, SaveToken, Abort, history
    <2>2. faults' = 0 => faults = 0
      BY <2>1 DEF TypeOK
    <2>3. QED
      BY <1>1, <2>2 DEF EditsInHand, ServerTaken, EditsAccounted, Held
  <1>4. CASE DropToken
    <2>1. pc = "dropToken" /\ pc' = "saveToken" /\ UNCHANGED <<dirty, saved, got>>
      BY <1>4 DEF DropToken
    <2>2. QED
      BY <1>1, <1>2, <1>3, <2>1, PhasesDistinct
      DEF EditsInHand, DirtyKnown, PushCurrent, Answered, Reconciled, WritesSettled,
          AllSettled, Held
  <1>5. CASE pc' = "idle"
    BY <1>3, <1>5, PhasesDistinct
    DEF EditsInHand, DirtyKnown, PushCurrent, Answered, Reconciled, WritesSettled
  <1>6. SaveToken \/ Abort => pc' = "idle"
    BY DEF SaveToken, Abort, Idle
  <1>7. QED
    BY <1>4, <1>5, <1>6

\* Each of the five writes rewrites a batch, and touches nothing else.
LEMMA WriteShape ==
    ASSUME EditsInHand, SaveSaved \/ DeleteSaved \/ Clean \/ SaveItems \/ DeleteItems
    PROVE  WriteFrame /\ \E b \in SUBSET UUID : Rewrites(b)
  <1>1. ASSUME NEW f, NEW b \in SUBSET UUID, NEW S \in SUBSET Held(f), NEW next,
               NEW here \in Writing,
               Transaction(here, S, next, b), \A u \in Held(f) : f[u].val \in Settled
        PROVE  \A u \in b : f[u].val \in Settled
    BY <1>1 DEF Transaction, Batches
  <1>2. ASSUME NEW f, NEW b \in SUBSET UUID, Put(f, b), \A u \in b : f[u].val \in Settled
        PROVE  Rewrites(b)
    BY <1>2 DEF Put, Store, Rewrites
  <1>3. ASSUME NEW b \in SUBSET UUID, Remove(b) PROVE Rewrites(b)
    BY <1>3 DEF Remove, Store, NoItems, Rewrites
  <1>4. /\ "saveSaved" \in Writing /\ "deleteSaved" \in Writing /\ "clean" \in Writing
        /\ "saveItems" \in Writing /\ "deleteItems" \in Writing /\ "dropToken" \in Writing
    BY PhasesDistinct
  <1>5. pc \in Writing => /\ \A u \in Held(saved) : saved[u].val \in Settled
                          /\ \A u \in Held(got) : got[u].val \in Settled
    BY DEF EditsInHand, WritesSettled, AllSettled
  <1>6. Live(saved) \in SUBSET Held(saved) /\ Live(got) \in SUBSET Held(got)
    BY DEF Live
  <1>7. CASE SaveSaved
    <2>1. PICK b \in SUBSET UUID :
            Transaction("saveSaved", Live(saved), "deleteSaved", b) /\ Put(saved, b)
      BY <1>7 DEF SaveSaved
    <2>2. pc \in Writing
      BY <1>4, <2>1 DEF Transaction
    <2>3. Rewrites(b)
      BY <1>1, <1>2, <1>4, <1>5, <1>6, <2>1, <2>2
    <2>4. QED
      BY <1>4, <2>1, <2>3, TransactionFrame
  <1>8. CASE SaveItems
    <2>1. PICK b \in SUBSET UUID :
            Transaction("saveItems", Live(got), "deleteItems", b) /\ Put(got, b)
      BY <1>8 DEF SaveItems
    <2>2. pc \in Writing
      BY <1>4, <2>1 DEF Transaction
    <2>3. Rewrites(b)
      BY <1>1, <1>2, <1>4, <1>5, <1>6, <2>1, <2>2
    <2>4. QED
      BY <1>4, <2>1, <2>3, TransactionFrame
  <1>9. CASE DeleteSaved
    <2>1. PICK b \in SUBSET UUID : Transaction("deleteSaved", Removable(saved), "clean", b) /\ Remove(b)
      BY <1>9 DEF DeleteSaved
    <2>2. Rewrites(b)
      BY <1>3, <2>1
    <2>3. QED
      BY <1>4, <2>1, <2>2, TransactionFrame
  <1>10. CASE DeleteItems
    <2>1. PICK b \in SUBSET UUID : Transaction("deleteItems", Removable(got), "dropToken", b) /\ Remove(b)
      BY <1>10 DEF DeleteItems
    <2>2. Rewrites(b)
      BY <1>3, <2>1
    <2>3. QED
      BY <1>4, <2>1, <2>2, TransactionFrame
  <1>11. CASE Clean
    <2>1. PICK b \in SUBSET UUID : Transaction("clean", dirty, "saveItems", b) /\ flagged' = flagged \ b /\ db' = db
      BY <1>11 DEF Clean
    <2>2. Rewrites(b)
      BY <2>1 DEF Rewrites
    <2>3. QED
      BY <1>4, <2>1, <2>2, TransactionFrame
  <1>12. QED
    BY <1>7, <1>8, <1>9, <1>10, <1>11

\* Every step keeps it.
LEMMA EditsInHandStep ==
    ASSUME ConstantsAssumption, TypeInv, EditsInHand, [Next]_vars
    PROVE  EditsInHand'
  <1>1. CASE Application
    <2>1. ASSUME NEW u \in UUID, NEW k \in CreatedKinds, Create(u, k) PROVE EditsInHand'
      BY <2>1, CreatedItemType, SaveLocallyInv DEF Create, TypeInv
    <2>2. ASSUME NEW u \in UUID, Edit(u) \/ Delete(u) PROVE EditsInHand'
      <3>1. u \in Held(db) /\ db \in ItemMap
        BY <2>2 DEF Edit, Delete, Held, TypeOK, TypeInv
      <3>2. QED
        BY <2>2, <3>1, EditedItemType, SaveLocallyInv DEF Edit, Delete, TypeInv
    <2>3. QED
      BY <1>1, <2>1, <2>2 DEF Application
  <1>2. CASE OtherClients
    <2>1. ASSUME NEW u \in UUID, NEW k \in CreatedKinds, RemoteCreate(u, k) PROVE EditsInHand'
      BY <2>1, CreatedItemType, StoreRemotelyInv DEF RemoteCreate, TypeInv
    <2>2. ASSUME NEW u \in UUID, RemoteEdit(u) \/ RemoteDelete(u) PROVE EditsInHand'
      <3>1. u \in Held(server) /\ server \in ItemMap
        BY <2>2 DEF RemoteEdit, RemoteDelete, Held, TypeOK, TypeInv
      <3>2. QED
        BY <2>2, <3>1, EditedItemType, StoreRemotelyInv DEF RemoteEdit, RemoteDelete, TypeInv
    <2>3. QED
      BY <1>2, <2>1, <2>2 DEF OtherClients
  <1>3. CASE \E age \in Ages : Begin(age)
    BY <1>3, BeginInv DEF TypeInv
  <1>4. CASE Exchange
    BY <1>4, ExchangeInv DEF TypeInv
  <1>5. CASE NoConflict
    BY <1>5, NoConflictInv DEF TypeInv
  <1>6. CASE Resolve
    BY <1>6, ResolveInv DEF TypeInv
  <1>7. CASE AllSkipped
    BY <1>7, AllSkippedInv DEF TypeInv
  <1>8. CASE Resync
    BY <1>8, ResyncInv DEF TypeInv
  <1>9. CASE SaveSaved \/ DeleteSaved \/ Clean \/ SaveItems \/ DeleteItems
    BY <1>9, WriteShape, WriteInv DEF TypeInv, TypeOK
  <1>10. CASE DropToken \/ SaveToken \/ Abort
    BY <1>10, TokenStepInv DEF TypeInv
  <1>11. CASE UNCHANGED vars
    <2>1. /\ UNCHANGED <<db, flagged, server, pc, dirty, push, answer, theirs, resolved,
                        saved, got, faults, taken, refused, overlooked>>
          /\ Settled' = Settled
      BY <1>11 DEF vars, dbVars, serverVars, runVars, history, mishaps, Settled
    <2>2. QED
      BY <2>1 DEF EditsInHand, ServerTaken, AllSettled, EditsAccounted, DirtyKnown, PushCurrent,
                  Answered, Reconciled, WritesSettled, Held, Conflicts
  <1>12. QED
    BY <1>1, <1>2, <1>3, <1>4, <1>5, <1>6, <1>7, <1>8, <1>9, <1>10, <1>11
    DEF Next, SyncStep

\* Initially the database is empty and the server's items are settled.
LEMMA InitInv == ASSUME Init PROVE TypeInv /\ EditsInHand
  <1>1. /\ db = NoItems /\ flagged = {} /\ pc = "idle" /\ server = InitialItems
        /\ taken = {InitialItems[u].val : u \in Held(InitialItems)}
    BY DEF Init
  <1>2. TypeInv
    BY <1>1, ConstantsAssumption, InitType DEF TypeInv, DirtyExist, ConflictsKnown
  <1>3. ServerTaken
    BY <1>1 DEF ServerTaken
  <1>4. EditsAccounted
    <2>1. overlooked = {}
      BY DEF Init
    <2>2. QED
      BY <1>1, <2>1, NoItemsType DEF EditsAccounted
  <1>5. DirtyKnown /\ PushCurrent /\ Answered /\ Reconciled /\ WritesSettled
    BY <1>1, PhasesDistinct DEF DirtyKnown, PushCurrent, Answered, Reconciled, WritesSettled
  <1>6. QED
    BY <1>2, <1>3, <1>4, <1>5 DEF EditsInHand

\* The inductive invariant: whatever the interleaving of edits, other clients,
\* crashes and lost answers, every edit is in the database as pending, in the
\* hands of the running sync, or settled.
THEOREM Inductive == Spec => []IInv
  <1> DEFINE Inv == TypeInv /\ EditsInHand
  <1>1. Init => Inv
    BY InitInv
  <1>2. Inv /\ [Next]_vars => Inv'
    BY ConstantsAssumption, TypeInvStep, EditsInHandStep
  <1>3. Inv => IInv
    BY DEF IInv, TypeInv, EditsInHand
  <1> HIDE DEF Inv
  <1>4. QED
    BY <1>1, <1>2, <1>3, PTL DEF Spec

\* No edit is forgotten: the content of an item that is not marked dirty was
\* stored by the server, or refused by it or by a safeguard, or its conflict was
\* overlooked by a retry; where no request fails, none is.
THEOREM NoEditForgotten == Spec => []EditsAccounted
  <1>1. IInv => EditsAccounted
    BY DEF IInv
  <1>2. QED
    BY <1>1, Inductive, PTL

---------------------------------------------------------------------------
(* The database keeps the promise of EditLedger. *)

\* What the database shows of an item.
Shown(u) == IF db[u] = None THEN None ELSE db[u].val

\* A local edit is a Write of the ledger.
LEMMA WriteStep ==
    ASSUME ConstantsAssumption, TypeOK, NEW u \in UUID, NEW i \in Item, SaveLocally(u, i)
    PROVE  Ledger!LedgerNext
  <1>1. /\ db' = [db EXCEPT ![u] = i] /\ flagged' = flagged \cup {u}
        /\ UNCHANGED <<taken, refused, overlooked>>
    BY DEF SaveLocally, mishaps
  <1>2. \A v \in UUID : Shown(v)' \in Nat \cup {None}
    BY <1>1 DEF Shown, TypeOK, ItemMap, Item
  <1>3. Shown(u)' # None /\ \A v \in UUID \ {u} : Shown(v)' = Shown(v)
    BY <1>1 DEF Shown, TypeOK, ItemMap, Item, ConstantsAssumption
  <1>4. Ledger!Write(u)
    BY <1>1, <1>2, <1>3 DEF Ledger!Write, Shown
  <1>5. QED
    BY <1>4 DEF Ledger!LedgerNext

\* A write of the output is a MoveOn of the ledger: what leaves the pending
\* items, or is replaced, is settled.
LEMMA MoveOnStep ==
    ASSUME ConstantsAssumption, TypeInv, TypeOK', EditsInHand, WriteFrame,
           NEW b \in SUBSET UUID, Rewrites(b)
    PROVE  Ledger!LedgerNext
  <1>1. /\ UNCHANGED <<taken, refused, overlooked>>
        /\ Settled' = Settled /\ pc \in Writing
    BY DEF WriteFrame, Settled
  <1>2. \A v \in UUID : Shown(v)' \in Nat \cup {None}
    BY DEF Shown, TypeOK, ItemMap, Item
  <1>3. \A v \in UUID \ b : Shown(v)' = Shown(v)
    BY DEF Rewrites, Shown
  <1>4. \A v \in UUID : Shown(v) \in Settled \cup {None}
    BY <1>1 DEF EditsInHand, EditsAccounted, WritesSettled, Shown, Held, Settled
  <1>5. \A v \in b : Shown(v)' \in Settled \cup {None}
    BY <1>4 DEF Rewrites, Shown
  <1>6. \A v \in b \cap flagged : Shown(v) \in Settled
    BY <1>1 DEF EditsInHand, WritesSettled, Shown, TypeInv, DirtyExist, Held
  <1>7. Ledger!MoveOn(b)
    BY <1>1, <1>2, <1>3, <1>5, <1>6 DEF Ledger!MoveOn, Rewrites, Shown, Settled
  <1>8. QED
    BY <1>7 DEF Ledger!LedgerNext

\* A step that leaves the database alone settles edits, or loses what is pending.
LEMMA SettleStep ==
    ASSUME flagged \subseteq UUID,
           UNCHANGED <<db, flagged>>, taken \subseteq taken', refused \subseteq refused',
           overlooked \subseteq overlooked',
           \A e \in overlooked' \ (overlooked \cup taken' \cup refused') :
              \E u \in flagged : Shown(u) = e
    PROVE  Ledger!LedgerNext
  <1>1. Ledger!Settle
    BY DEF Ledger!Settle, Shown
  <1>2. QED
    BY <1>1 DEF Ledger!LedgerNext

\* What an exchange overlooks is shown by an item that is dirty.
LEMMA LostPending ==
    ASSUME ConstantsAssumption, TypeInv, EditsInHand, Exchange \/ Resync
    PROVE  /\ UNCHANGED <<db, flagged>> /\ taken \subseteq taken' /\ refused \subseteq refused'
           /\ overlooked \subseteq overlooked'
           /\ \A e \in overlooked' \ (overlooked \cup taken' \cup refused') :
                 \E u \in flagged : Shown(u) = e
  <1>1. TypeOK /\ ServerTaken /\ EditsAccounted /\ push \in ItemMap /\ resolved \in ItemMap
    BY DEF TypeInv, TypeOK, EditsInHand
  <1>2. ASSUME pc \in {"exchange", "resync"}, NEW u \in Held(push)
        PROVE  u \in flagged /\ Shown(u) = push[u].val
    BY <1>2 DEF EditsInHand, PushCurrent, Held, Shown
  <1>3. CASE Exchange
    <2>1. PICK a, drop, redo, own : FirstExchange(a, drop, redo, own)
      BY <1>3, ExchangeSplit
    <2>2. /\ Exchanged(push, sent, a, drop, redo, own)
          /\ pc = "exchange" /\ UNCHANGED <<db, flagged>>
      BY <2>1 DEF FirstExchange
    <2>3. taken \subseteq taken' /\ refused \subseteq refused' /\ drop \subseteq Held(push)
      BY <1>1, <2>2, ExchangedInv, ExchangedShape
    <2>4. /\ overlooked \subseteq overlooked'
          /\ \A e \in overlooked' \ overlooked : \E u \in drop : e = push[u].val
      BY <1>1, <2>2, OverlooksShape
    <2>5. QED
      BY <1>2, <2>2, <2>3, <2>4
  <1>4. CASE Resync
    <2>1. PICK a, drop, redo, own : SecondExchange(a, drop, redo, own)
      BY <1>4, ResyncSplit
    <2>2. /\ Exchanged(resolved, sent, a, drop, redo, own)
          /\ pc = "resync" /\ UNCHANGED <<db, flagged>>
      BY <2>1 DEF SecondExchange
    <2>3. taken \subseteq taken' /\ refused \subseteq refused' /\ drop \subseteq Held(resolved)
      BY <1>1, <2>2, ExchangedInv, ExchangedShape
    <2>4. /\ overlooked \subseteq overlooked'
          /\ \A e \in overlooked' \ overlooked : \E n \in drop : e = resolved[n].val
      BY <1>1, <2>2, OverlooksShape
    <2>5. \A n \in drop : \/ resolved[n].val \in taken' \cup refused'
                        \/ \E u \in Held(push) : resolved[n].val = push[u].val
      BY <2>2, <2>3 DEF EditsInHand, Reconciled
    <2>6. QED
      BY <1>2, <2>2, <2>3, <2>4, <2>5
  <1>5. QED
    BY <1>3, <1>4

\* Every step of the program is a step of the ledger, or changes nothing in it.
LEMMA LedgerStep ==
    ASSUME ConstantsAssumption, TypeInv, TypeInv', EditsInHand, [Next]_vars
    PROVE  [Ledger!LedgerNext]_(Ledger!ledger)
  <1>1. CASE Application
    <2>1. ASSUME NEW u \in UUID, NEW k \in CreatedKinds, Create(u, k) PROVE Ledger!LedgerNext
      BY <2>1, CreatedItemType, WriteStep DEF Create, TypeInv
    <2>2. ASSUME NEW u \in UUID, Edit(u) \/ Delete(u) PROVE Ledger!LedgerNext
      <3>1. u \in Held(db) /\ db \in ItemMap
        BY <2>2 DEF Edit, Delete, Held, TypeOK, TypeInv
      <3>2. QED
        BY <2>2, <3>1, EditedItemType, WriteStep DEF Edit, Delete, TypeInv
    <2>3. QED
      BY <1>1, <2>1, <2>2 DEF Application
  <1>2. CASE SaveSaved \/ DeleteSaved \/ Clean \/ SaveItems \/ DeleteItems
    <2>1. PICK b \in SUBSET UUID : WriteFrame /\ Rewrites(b)
      BY <1>2, WriteShape
    <2>2. Ledger!LedgerNext
      BY <2>1, MoveOnStep DEF TypeInv, WriteFrame
    <2>3. QED
      BY <2>2
  <1>3. OtherClients => UNCHANGED <<db, flagged, refused, overlooked>> /\ taken \subseteq taken'
    BY DEF OtherClients, RemoteCreate, RemoteEdit, RemoteDelete, StoreRemotely, dbVars
  <1>4. (\E age \in Ages : Begin(age)) =>
          UNCHANGED <<db, flagged, taken, overlooked>> /\ refused \subseteq refused'
    BY DEF Begin, mishaps
  <1>5. CASE Exchange \/ Resync
    BY <1>5, LostPending, SettleStep DEF TypeInv, TypeOK
  <1>6. Resolve \/ AllSkipped
          => UNCHANGED <<db, flagged, taken, overlooked>> /\ refused \subseteq refused'
    BY DEF Resolve, AllSkipped, dbVars, mishaps
  <1>7. NoConflict \/ DropToken \/ SaveToken \/ Abort
          => UNCHANGED <<db, flagged, taken, refused, overlooked>>
    BY DEF NoConflict, DropToken, SaveToken, Abort, dbVars, history, mishaps
  <1>8. CASE /\ UNCHANGED <<db, flagged, overlooked>>
             /\ taken \subseteq taken' /\ refused \subseteq refused'
    BY <1>8, SettleStep DEF TypeInv, TypeOK
  <1>9. UNCHANGED vars => UNCHANGED <<db, flagged, taken, refused, overlooked>>
    BY DEF vars, dbVars, history, mishaps
  <1>10. QED
    BY <1>1, <1>2, <1>3, <1>4, <1>5, <1>6, <1>7, <1>8, <1>9 DEF Next, SyncStep

\* The database implements the ledger: an edit that is pending is dropped or
\* replaced only once the server stored it, or it was refused, or its conflict was
\* overlooked while it was pending.
THEOREM LedgerRefined == Spec => LedgerKept
  <1> DEFINE Inv == TypeInv /\ EditsInHand
  <1>1. Init => Inv
    BY InitInv
  <1>2. Inv /\ [Next]_vars => Inv'
    BY ConstantsAssumption, TypeInvStep, EditsInHandStep
  <1>3. Init => Ledger!LedgerInit
    <2>1. SUFFICES ASSUME Init PROVE Ledger!LedgerInit
      OBVIOUS
    <2>2. db = NoItems /\ flagged = {} /\ overlooked = {} /\ TypeOK
      BY <2>1, InitInv DEF Init, TypeInv
    <2>3. taken \cup refused \subseteq Nat
      BY <2>2 DEF TypeOK
    <2>4. QED
      BY <2>2, <2>3 DEF Ledger!LedgerInit, NoItems
  <1>4. Inv /\ Inv' /\ [Next]_vars => [Ledger!LedgerNext]_(Ledger!ledger)
    BY ConstantsAssumption, LedgerStep
  <1> HIDE DEF Inv
  <1>5. QED
    BY <1>1, <1>2, <1>3, <1>4, PTL DEF Spec, LedgerKept, Ledger!LedgerSpec

---------------------------------------------------------------------------
(* The sync token speaks the truth: TokenInv is inductive, and TokenCovers  *)
(* and ProtectedKept follow from it.                                        *)

(* What the operators on items and on the server return. *)

\* The fields of the items in a map.
LEMMA ItemFields ==
    ASSUME ConstantsAssumption, NEW f \in ItemMap, NEW u \in UUID, f[u] # None
    PROVE  /\ f[u] \in Item /\ f[u].ts \in Nat /\ f[u].val \in Nat
           /\ f[u].del \in BOOLEAN /\ f[u].kind \in Kinds
  BY DEF ItemMap, Item

\* An item with another timestamp is the same but for that.
LEMMA Restamped ==
    ASSUME NEW i \in Item, NEW t
    PROVE  /\ [i EXCEPT !.ts = t].ts = t
           /\ [i EXCEPT !.ts = t].val = i.val
           /\ [i EXCEPT !.ts = t].kind = i.kind
           /\ [i EXCEPT !.ts = t].del = i.del
  BY DEF Item

\* What a request leaves on the server: what it saved, with a timestamp later
\* than any before, and everything else as it was.
LEMMA ServerAfter ==
    ASSUME ConstantsAssumption, TypeOK, NEW p \in ItemMap, NEW a \in Replies(p),
           ServerStores(p, a)
    PROVE  /\ SavedIn(a) \subseteq Held(p)
           /\ clock <= clock' /\ clock' = Now(a)
           /\ \A u \in UUID \ SavedIn(a) :
                 server'[u] = server[u] /\ SavedItems(p, a)[u] = None
           /\ \A u \in SavedIn(a) :
                 /\ clock' = clock + 1
                 /\ server'[u] = SavedItems(p, a)[u]
                 /\ server'[u] \in Item /\ server'[u] # None
                 /\ server'[u].ts = clock + 1 /\ server'[u].val = p[u].val
                 /\ server'[u].kind = p[u].kind /\ server'[u].del = p[u].del
  <1>1. SavedIn(a) \subseteq Held(p) /\ Held(p) \subseteq UUID
    BY RepliesType DEF Held
  <1>2. clock \in Nat /\ None \notin Item
    BY DEF TypeOK, ConstantsAssumption
  <1>3. clock <= clock' /\ clock' = Now(a) /\ (SavedIn(a) # {} => clock' = clock + 1)
    BY <1>2 DEF ServerStores, Now
  <1>4. \A u \in UUID \ SavedIn(a) : server'[u] = server[u] /\ SavedItems(p, a)[u] = None
    BY DEF ServerStores, Store, SavedItems
  <1>5. ASSUME NEW u \in SavedIn(a)
        PROVE  /\ clock' = clock + 1
               /\ server'[u] = SavedItems(p, a)[u]
               /\ server'[u] \in Item /\ server'[u] # None
               /\ server'[u].ts = clock + 1 /\ server'[u].val = p[u].val
               /\ server'[u].kind = p[u].kind /\ server'[u].del = p[u].del
    <2>1. u \in UUID /\ p[u] \in Item
      BY <1>1, HeldType
    <2>2. clock' = clock + 1 /\ Now(a) = clock + 1
      BY <1>3
    <2>3. server'[u] = SavedItems(p, a)[u] /\ SavedItems(p, a)[u] = [p[u] EXCEPT !.ts = clock + 1]
      BY <2>1, <2>2 DEF ServerStores, Store, SavedItems
    <2>4. [p[u] EXCEPT !.ts = clock + 1] \in Item
      BY <1>2, <2>1 DEF Item
    <2>5. QED
      BY <1>2, <2>1, <2>2, <2>3, <2>4, Restamped
  <1>6. QED
    BY <1>1, <1>3, <1>4, <1>5

\* What was saved is what was pushed, with a timestamp.
LEMMA SavedAs ==
    ASSUME ConstantsAssumption, TypeOK, NEW p \in ItemMap, NEW a \in Replies(p),
           NEW u \in SavedIn(a)
    PROVE  SavedItems(p, a)[u] = [p[u] EXCEPT !.ts = SavedItems(p, a)[u].ts]
  <1>1. u \in UUID /\ p[u] \in Item
    BY RepliesType, HeldType
  <1>2. SavedItems(p, a)[u] = [p[u] EXCEPT !.ts = Now(a)]
    BY <1>1 DEF SavedItems
  <1>3. QED
    BY <1>1, <1>2, Restamped

\* The versions that changed since a token.
LEMMA ChangedAt ==
    ASSUME NEW t, NEW a, NEW u \in UUID
    PROVE  /\ Changed(t, a)[u] # None => Changed(t, a)[u] = server[u]
           /\ server[u] # None /\ server[u].ts > t /\ ~(u \in DOMAIN a /\ a[u] = "sync_conflict")
              => Changed(t, a)[u] = server[u]
  BY DEF Changed

\* A merge of two maps takes one of the two, the later one.
LEMMA NewestAt ==
    ASSUME ConstantsAssumption, NEW f \in ItemMap, NEW g \in ItemMap, NEW u \in UUID
    PROVE  /\ g[u] = None => Newest(f, g)[u] = f[u]
           /\ f[u] = None => Newest(f, g)[u] = g[u]
           /\ f[u] # None /\ g[u] # None
              => \/ Newest(f, g)[u] = f[u] /\ f[u].ts >= g[u].ts
                 \/ Newest(f, g)[u] = g[u] /\ f[u].ts < g[u].ts
  BY ItemFields DEF Newest

---------------------------------------------------------------------------
(* Edits, of the application and of other clients. *)

\* A local edit keeps the version it is based on, and the kind.
LEMMA TokenSaveLocally ==
    ASSUME ConstantsAssumption, IInv, TokenInv, NEW u \in UUID, NEW i \in Item,
           SaveLocally(u, i),
           IF db[u] = None THEN server[u] = None
                           ELSE i.kind = db[u].kind /\ i.ts = db[u].ts
    PROVE  TokenInv'
  <1>1. /\ pc = "idle" /\ pc' = "idle"
        /\ db' = [db EXCEPT ![u] = i] /\ flagged' = flagged \cup {u}
        /\ ~ProtectedDeletion(i)
        /\ UNCHANGED <<server, clock, token, sent, theirs, saved, got, resolved, push, answer,
                       newToken, done, refused>>
    BY DEF SaveLocally, runVars, serverVars
  <1>2. /\ db \in ItemMap /\ server \in ItemMap /\ None \notin Item
        /\ db'[u] = i /\ \A w \in UUID \ {u} : db'[w] = db[w]
    BY <1>1 DEF IInv, TypeOK, ItemMap, ConstantsAssumption
  <1>3. pc \notin Writing /\ pc' \notin Writing /\ pc' \notin Answering
    BY <1>1, PhasesDistinct DEF Answering
  <1>4. ClockInv'
    BY <1>1 DEF TokenInv, ClockInv, Held
  <1>5. KindsAgree'
    BY <1>1, <1>2 DEF TokenInv, KindsAgree, Held
  <1>6. BothCovered'
    <2>1. ASSUME NEW w \in Held(server), Current(w) PROVE Current(w)'
      BY <1>1, <1>2, <2>1 DEF Current, Held
    <2>2. QED
      BY <1>1, <2>1 DEF TokenInv, BothCovered, CoveredTo, Horizons, Held
  <1>7. (SavedNew /\ GotCurrent)'
    BY <1>1, <1>3 DEF TokenInv, SavedNew, GotCurrent, Horizons, Later, Held, Answering
  <1>8. (AllRetrieved /\ AllWritten /\ BasedRefused /\ AllCleaned)'
    BY <1>1, <1>3 DEF AllRetrieved, AllWritten, BasedRefused, AllCleaned, Answering
  <1>9. NoProtectedPushed'
    <2>1. i.kind # "Note" => ~i.del
      BY <1>1 DEF ProtectedDeletion, Item, Kinds
    <2>2. QED
      BY <1>1, <1>2, <2>1 DEF TokenInv, NoProtectedPushed, Held, Answering
  <1>10. QED
    BY <1>4, <1>5, <1>6, <1>7, <1>8, <1>9 DEF TokenInv

\* Another client stores a version that is later than anything this client has
\* in hand.
LEMMA TokenStoreRemotely ==
    ASSUME ConstantsAssumption, IInv, TokenInv, NEW u \in UUID, NEW i \in Item,
           StoreRemotely(u, i),
           IF server[u] = None THEN db[u] = None /\ resolved[u] = None
                               ELSE i.kind = server[u].kind /\ ~server[u].del
    PROVE  TokenInv'
  <1>1. /\ server' = [server EXCEPT ![u] = [i EXCEPT !.ts = clock + 1]]
        /\ clock' = clock + 1
        /\ UNCHANGED <<db, flagged, token, pc, sent, theirs, saved, got, resolved, push,
                       answer, newToken, done, refused>>
    BY DEF StoreRemotely, runVars, dbVars
  <1>2. /\ server \in ItemMap /\ clock \in Nat /\ token \in Nat /\ sent \in Nat
        /\ newToken \in Nat /\ clock + 1 \in Nat
    BY DEF IInv, TypeOK
  <1>3. /\ server'[u] # None /\ server'[u].ts = clock + 1 /\ server'[u].kind = i.kind
        /\ \A w \in UUID \ {u} : server'[w] = server[w]
    <2>1. [i EXCEPT !.ts = clock + 1] \in Item
      BY <1>2 DEF Item
    <2>2. QED
      BY <1>1, <1>2, <2>1, Restamped DEF ItemMap, ConstantsAssumption
  <1>4. token < clock + 1 /\ sent < clock + 1 /\ newToken < clock + 1
    BY <1>2 DEF TokenInv, ClockInv
  <1>5. ClockInv'
    BY <1>1, <1>2, <1>3, <1>4, ItemFields DEF TokenInv, ClockInv, Held
  <1>6. KindsAgree'
    BY <1>1, <1>3 DEF TokenInv, KindsAgree, Held
  <1>7. BothCovered'
    <2>1. ASSUME NEW w \in UUID \ {u}, Current(w) PROVE Current(w)'
      BY <1>1, <1>3, <2>1 DEF Current
    <2>2. ASSUME NEW t \in Horizons, NEW w \in Held(server'), server'[w].ts <= t
          PROVE  Current(w)'
      <3>1. w # u
        BY <1>2, <1>3, <1>4, <2>2 DEF Horizons
      <3>2. w \in Held(server) /\ server[w].ts <= t
        BY <1>3, <2>2, <3>1 DEF Held
      <3>3. QED
        BY <2>1, <3>1, <3>2 DEF TokenInv, BothCovered, CoveredTo, Held
    <2>3. QED
      BY <1>1, <2>2 DEF BothCovered, CoveredTo, Horizons, Held
  <1>8. Later(u)' /\ \A w \in UUID \ {u} : Later(w) => Later(w)'
    BY <1>1, <1>2, <1>3, <1>4 DEF Later
  <1>9. SavedNew'
    <2>1. \A w \in Held(saved) : \A t \in Horizons : server'[w].ts > t
      BY <1>1, <1>2, <1>3, <1>4 DEF TokenInv, SavedNew, Horizons, Held
    <2>2. QED
      BY <1>1, <1>3, <1>8, <2>1 DEF TokenInv, SavedNew, Horizons, Held
  <1>10. GotCurrent'
    BY <1>1, <1>3, <1>8 DEF TokenInv, GotCurrent, Held
  <1>11. AllRetrieved'
    BY <1>1, <1>2, <1>3, <1>4 DEF TokenInv, AllRetrieved, Held
  <1>12. AllWritten'
    <2>1. ASSUME NEW w \in UUID \ {u}, Written(w) PROVE Written(w)'
      BY <1>1, <1>3, <2>1 DEF Written
    <2>2. QED
      BY <1>1, <1>2, <1>3, <1>4, <2>1 DEF TokenInv, AllWritten, Held
  <1>13. BasedRefused'
    <2>1. ASSUME NEW w \in UUID, Based(w)' PROVE Based(w)
      BY <1>1, <1>2, <1>3, <1>4, <2>1 DEF Based, Horizons
    <2>2. \A w \in flagged : w \in UUID
      BY DEF IInv, TypeOK
    <2>3. QED
      BY <1>1, <2>1, <2>2 DEF TokenInv, BasedRefused, Held
  <1>14. AllCleaned'
    BY <1>1 DEF TokenInv, AllCleaned
  <1>15. NoProtectedPushed'
    <2>1. u \notin Held(theirs) \/ ~ProtectedDeletion(theirs[u]) \/ pc # "resolve"
      BY DEF TokenInv, NoProtectedPushed, KindsAgree
    <2>2. u \notin Held(resolved) \/ ~ProtectedDeletion(resolved[u]) \/ pc # "resync"
      BY DEF TokenInv, NoProtectedPushed, Held
    <2>3. QED
      BY <1>1, <1>3, <2>1, <2>2 DEF TokenInv, NoProtectedPushed, Held
  <1>16. QED
    BY <1>5, <1>6, <1>7, <1>9, <1>10, <1>11, <1>12, <1>13, <1>14, <1>15 DEF TokenInv

---------------------------------------------------------------------------
(* A sync, up to its output. *)

\* A sync starts from a token that is known to be covered, or from none: it
\* pushes no deletion of a protected item.
LEMMA TokenBegin ==
    ASSUME ConstantsAssumption, IInv, TokenInv, NEW age, Begin(age)
    PROVE  TokenInv'
  <1>1. /\ pc' = "exchange" /\ pc = "idle"
        /\ push' = [u \in UUID |-> IF u \in flagged /\ ~Blocked(db[u]) THEN db[u] ELSE None]
        /\ refused' = refused \cup {db[u].val : u \in {v \in flagged : Blocked(db[v])}}
        /\ token' \in {token, 0} /\ sent' \in {token, 0}
        /\ UNCHANGED <<db, flagged, server, clock, theirs, saved, got, resolved, answer,
                       newToken, done>>
    BY DEF Begin, serverVars
  <1>2. /\ server \in ItemMap /\ db \in ItemMap /\ clock \in Nat /\ token \in Nat
        /\ sent \in Nat /\ newToken \in Nat
    BY DEF IInv, TypeOK
  <1>3. pc' \notin Writing /\ pc' \notin Answering /\ pc \notin Answering
    BY <1>1, PhasesDistinct DEF Answering
  <1>4. \A u \in Held(server) : server[u].ts \in Nat /\ 0 < server[u].ts
    BY <1>2, ItemFields DEF TokenInv, ClockInv, Held
  <1>5. ClockInv'
    BY <1>1, <1>2 DEF TokenInv, ClockInv, Held
  <1>6. KindsAgree'
    BY <1>1 DEF TokenInv, KindsAgree, Held
  <1>7. BothCovered'
    <2>1. ASSUME NEW u \in UUID, Current(u) PROVE Current(u)'
      BY <1>1, <2>1 DEF Current
    <2>2. ASSUME NEW t \in {token, 0}, NEW u \in Held(server), server[u].ts <= t
          PROVE  Current(u)
      BY <1>2, <1>4, <2>2 DEF TokenInv, BothCovered, CoveredTo, Horizons
    <2>3. QED
      BY <1>1, <2>1, <2>2 DEF BothCovered, CoveredTo, Horizons, Held
  <1>8. ASSUME NEW u \in Held(server), server[u].ts > token
        PROVE  \A t \in Horizons' : server[u].ts > t
    BY <1>1, <1>4, <1>8 DEF Horizons
  <1>9. SavedNew'
    BY <1>1, <1>3, <1>8 DEF TokenInv, SavedNew, Horizons, Held, KindsAgree
  <1>10. GotCurrent'
    <2>1. ASSUME NEW u \in Held(server), Later(u) PROVE Later(u)'
      BY <1>1, <1>4, <2>1 DEF Later
    <2>2. QED
      BY <1>1, <1>3, <2>1 DEF TokenInv, GotCurrent, KindsAgree, Held
  <1>11. (AllRetrieved /\ AllWritten /\ AllCleaned)'
    BY <1>1, <1>3 DEF AllRetrieved, AllWritten, AllCleaned
  <1>12. \A u \in flagged : u \in UUID /\ db[u] # None
    BY DEF IInv, DirtyExist, Held
  <1>13. BasedRefused'
    BY <1>1, <1>3, <1>12 DEF BasedRefused
  <1>14. NoProtectedPushed'
    BY <1>1 DEF TokenInv, NoProtectedPushed, Held, Blocked
  <1>15. QED
    BY <1>5, <1>6, <1>7, <1>9, <1>10, <1>11, <1>13, <1>14 DEF TokenInv

\* What the first exchange says and retrieves of one item.
LEMMA FirstExchangeAt ==
    ASSUME ConstantsAssumption, TypeOK,
           NEW a, NEW drop, NEW redo, NEW own, FirstExchange(a, drop, redo, own),
           NEW u \in UUID
    PROVE  /\ saved'[u] = IF u \in SavedIn(a) \ (drop \cup redo) THEN server'[u] ELSE None
           /\ theirs'[u] = IF answer'[u] \in {"none", "saved"} THEN None ELSE server'[u]
           /\ answer'[u] \notin {"none", "saved"} => u \in Held(push)
           /\ u \in redo \cup own => answer'[u] = "sync_conflict"
           /\ u \in Held(push) \ (drop \cup redo \cup own) => answer'[u] = a[u]
           /\ u \in redo => got'[u] = None
           /\ u \in drop => got'[u] = IF server'[u] # None /\ server'[u].ts > sent
                                     THEN server'[u] ELSE None
           /\ u \notin drop \cup redo =>
                 /\ got'[u] = None \/ got'[u] = server[u]
                 /\ server[u] # None /\ server[u].ts > sent /\ answer'[u] # "sync_conflict"
                    => got'[u] = server[u]
  <1>1. Exchanged(push, sent, a, drop, redo, own) /\ push \in ItemMap
    BY DEF FirstExchange, TypeOK
  <1>2. /\ saved' = Stamped(push, a, drop \cup redo)
        /\ got' = Retrieved(sent, push, a, drop, redo)
        /\ answer' = Reported(a, drop, redo \cup own)
        /\ theirs' = Store(NoItems, server', {v \in UUID : answer'[v] \notin {"none", "saved"}})
    BY DEF FirstExchange
  <1>3. /\ DOMAIN a = Held(push) /\ SavedIn(a) \subseteq Held(push)
        /\ redo \subseteq SavedIn(a) /\ own \subseteq SavedIn(a)
        /\ redo \cap drop = {} /\ own \cap (drop \cup redo) = {}
    BY <1>1, ExchangedShape
  <1>4. saved'[u] = IF u \in SavedIn(a) \ (drop \cup redo) THEN server'[u] ELSE None
    <2>1. /\ u \in SavedIn(a) \ (drop \cup redo)
             => Stamped(push, a, drop \cup redo)[u] = server'[u]
          /\ u \notin SavedIn(a) \ (drop \cup redo)
             => Stamped(push, a, drop \cup redo)[u] = None
      BY <1>1, StampedAt, SMTT(30)
    <2>2. QED
      BY <1>2, <2>1
  <1>5. theirs'[u] = IF answer'[u] \in {"none", "saved"} THEN None ELSE server'[u]
    BY <1>2 DEF Store, NoItems
  <1>6. /\ answer'[u] \notin {"none", "saved"} => u \in Held(push)
        /\ u \in redo \cup own => answer'[u] = "sync_conflict"
        /\ u \in Held(push) \ (drop \cup redo \cup own) => answer'[u] = a[u]
    BY <1>2, <1>3 DEF Reported
  <1>7. /\ u \in redo => got'[u] = None
        /\ u \in drop => got'[u] = IF server'[u] # None /\ server'[u].ts > sent
                                  THEN server'[u] ELSE None
        /\ u \notin drop \cup redo => got'[u] = Changed(sent, a)[u]
    BY <1>1, <1>2, RetrievedShape
  <1>8. ASSUME u \notin drop \cup redo, u \in DOMAIN a, a[u] = "sync_conflict"
        PROVE  answer'[u] = "sync_conflict"
    BY <1>2, <1>8 DEF Reported
  <1>9. u \notin drop \cup redo =>
                 /\ got'[u] = None \/ got'[u] = server[u]
                 /\ server[u] # None /\ server[u].ts > sent /\ answer'[u] # "sync_conflict"
                    => got'[u] = server[u]
    BY <1>7, <1>8 DEF Changed
  <1>10. QED
    BY <1>4, <1>5, <1>6, <1>7, <1>9

\* What the server stores of a push is later than both tokens, and what is
\* based on a covered version is stored or refused.
LEMMA TokenExchange ==
    ASSUME ConstantsAssumption, IInv, TokenInv, Exchange
    PROVE  TokenInv'
  <1>1. PICK a, drop, redo, own : FirstExchange(a, drop, redo, own)
    BY ExchangeSplit
  <1>2. /\ pc = "exchange" /\ pc' = "resolve" /\ newToken' = Now(a)
        /\ Exchanged(push, sent, a, drop, redo, own) /\ ServerStores(push, a)
        /\ saved' = Stamped(push, a, drop \cup redo)
        /\ UNCHANGED <<db, flagged, token, sent, push, resolved, done>>
    BY <1>1 DEF FirstExchange, Exchanged
  <1>3. /\ TypeOK /\ server \in ItemMap /\ db \in ItemMap /\ push \in ItemMap
        /\ clock \in Nat /\ token \in Nat /\ sent \in Nat
    BY DEF IInv, TypeOK
  <1>4. pc' \notin Writing /\ pc' \in Answering /\ "exchange" # "resolve"
    BY <1>2, PhasesDistinct DEF Answering
  <1> DEFINE S == SavedIn(a)
             out == drop \cup redo
  <1>5. /\ a \in Replies(push) /\ S \subseteq Held(push) /\ drop \subseteq Held(push)
        /\ redo \subseteq S /\ own \subseteq S /\ refused \subseteq refused'
        /\ \A u \in drop \ S : a[u] \notin {"sync_conflict", "uuid_conflict"}
                             => push[u].val \in refused'
    BY <1>2, <1>3, ExchangedShape, OverlooksShape
  <1>6. /\ newToken' = clock' /\ clock <= clock' /\ clock' \in Nat
        /\ \A u \in UUID \ S : server'[u] = server[u]
        /\ \A u \in S : /\ clock' = clock + 1 /\ server'[u] # None
                        /\ server'[u].ts = clock + 1
                        /\ server'[u].kind = push[u].kind /\ server'[u].del = push[u].del
    <2>1. newToken' = clock' /\ clock' \in Nat
      BY <1>2, <1>3, NowType DEF ServerStores
    <2>2. QED
      BY <1>2, <1>3, <1>5, <2>1, ServerAfter
  <1>7. \A u \in Held(push) : (a[u] = "saved") <=> (u \in S)
    BY <1>5, RepliesType DEF SavedIn
  <1>8. \A u \in UUID :
          /\ saved'[u] = IF u \in S \ out THEN server'[u] ELSE None
          /\ theirs'[u] = IF answer'[u] \in {"none", "saved"} THEN None ELSE server'[u]
          /\ answer'[u] \notin {"none", "saved"} => u \in Held(push)
          /\ u \in redo \cup own => answer'[u] = "sync_conflict"
          /\ u \in Held(push) \ (out \cup own) => answer'[u] = a[u]
    BY <1>1, <1>3, FirstExchangeAt
  <1>9. \A u \in UUID :
          /\ u \in redo => got'[u] = None
          /\ u \in drop => got'[u] = IF server'[u] # None /\ server'[u].ts > sent
                                    THEN server'[u] ELSE None
          /\ u \notin out =>
                 /\ got'[u] = None \/ got'[u] = server[u]
                 /\ server[u] # None /\ server[u].ts > sent /\ answer'[u] # "sync_conflict"
                    => got'[u] = server[u]
    BY <1>1, <1>3, FirstExchangeAt
  <1> HIDE DEF S
  <1>10. \A u \in Held(push) : u \in UUID /\ push[u] # None /\ db[u] # None /\ push[u] = db[u]
    BY <1>2 DEF IInv, PushCurrent, Held
  <1>11. \A u \in Held(server) : /\ server[u].ts \in Nat /\ 0 < server[u].ts
                                 /\ server[u].ts <= clock
    BY <1>3, ItemFields DEF TokenInv, ClockInv, Held
  <1>12. token <= clock /\ sent <= clock
    BY DEF TokenInv, ClockInv
  <1>13. \A u \in S : u \in UUID /\ u \in Held(push)
    BY <1>5, <1>10
  <1>14. \A u \in UUID : /\ got'[u] # None => \/ got'[u] = server'[u]
                                              \/ u \in S \ out /\ got'[u] = server[u]
                         /\ got'[u] # None => server'[u] # None
                         /\ u \in redo \cup drop => got'[u] = None \/ got'[u] = server'[u]
    BY <1>6, <1>9
  <1>15. ClockInv'
    BY <1>2, <1>3, <1>6, <1>11, <1>12 DEF ClockInv, Held
  <1>16. KindsAgree'
    <2>1. \A u \in Held(db) \cap Held(server) : db[u].kind = server[u].kind
      BY DEF TokenInv, KindsAgree
    <2>2. \A u \in Held(db) \cap Held(server') : db[u].kind = server'[u].kind
      BY <1>6, <1>10, <1>13, <2>1 DEF Held
    <2>3. \A u \in UUID : server[u] # None
                          => server'[u] # None /\ server'[u].kind = server[u].kind
      BY <1>6, <1>10, <1>13, <2>1 DEF Held
    <2>4. ASSUME NEW f \in {theirs', saved', got'}, NEW u \in Held(f)
          PROVE  server'[u] # None /\ f[u].kind = server'[u].kind
      <3>1. u \in UUID /\ f[u] # None
        BY <2>4 DEF Held
      <3>2. CASE f = theirs' \/ f = saved'
        BY <1>8, <3>1, <3>2
      <3>3. CASE f = got'
        BY <1>14, <2>3, <3>1, <3>3
      <3>4. QED
        BY <2>4, <3>2, <3>3
    <2>5. QED
      BY <1>2, <2>2, <2>4 DEF KindsAgree
  <1>17. BothCovered'
    <2>1. ASSUME NEW u \in UUID \ S, Current(u) PROVE Current(u)'
      BY <1>2, <1>5, <1>6, <2>1 DEF Current
    <2>2. QED
      BY <1>2, <1>3, <1>6, <1>12, <2>1 DEF TokenInv, BothCovered, CoveredTo, Horizons, Held
  <1>18. SavedNew'
    <2>1. \A u \in Held(saved') : u \in S \ out /\ push[u] # None /\ saved'[u] = server'[u]
      BY <1>8, <1>10, <1>13 DEF Held
    <2>2. ASSUME NEW u \in Held(saved')
          PROVE  saved'[u] = [push[u] EXCEPT !.ts = saved'[u].ts]
      <3>1. u \in SavedIn(a)
        BY <2>1 DEF S
      <3>2. SavedItems(push, a)[u] = [push[u] EXCEPT !.ts = SavedItems(push, a)[u].ts]
        BY <1>3, <1>5, <3>1, SavedAs
      <3>3. server'[u] = SavedItems(push, a)[u]
        BY <1>2, <1>3, <3>1, SavedStored
      <3>4. QED
        BY <2>1, <3>2, <3>3
    <2>3. \A u \in S : \A t \in Horizons : server'[u].ts > t
      BY <1>3, <1>6, <1>12 DEF Horizons
    <2>4. QED
      BY <1>2, <2>1, <2>2, <2>3 DEF SavedNew, Horizons
  <1>19. GotCurrent'
    <2>1. ASSUME NEW u \in Held(got'), got'[u] # server'[u]
          PROVE  saved'[u] # None /\ got'[u].ts < saved'[u].ts
      <3>1. u \in UUID /\ got'[u] # None
        BY DEF Held
      <3>2. u \in S \ out /\ got'[u] = server[u] /\ u \in Held(server)
        BY <1>14, <2>1, <3>1 DEF Held
      <3>3. saved'[u] = server'[u]
        BY <1>8, <3>1, <3>2
      <3>4. QED
        BY <1>3, <1>6, <1>11, <3>2, <3>3
    <2>2. QED
      BY <1>4, <2>1 DEF GotCurrent
  <1>20. AllRetrieved'
    <2>1. ASSUME NEW u \in Held(server'), ~(server'[u].ts <= sent),
                 answer'[u] # "sync_conflict", saved'[u] # server'[u]
          PROVE  got'[u] = server'[u]
      <3>1. u \in UUID /\ server'[u] # None /\ server'[u].ts \in Nat
        BY <1>3, <1>6, <1>11 DEF Held
      <3>2. server'[u].ts > sent /\ u \notin redo
        BY <1>3, <1>8, <2>1, <3>1
      <3>3. CASE u \in drop
        BY <1>9, <3>1, <3>2, <3>3
      <3>4. CASE u \notin drop
        <4>1. u \notin S
          BY <1>8, <2>1, <3>1, <3>2, <3>4
        <4>2. QED
          BY <1>6, <1>9, <2>1, <3>1, <3>2, <3>4, <4>1
      <3>5. QED
        BY <3>3, <3>4
    <2>2. QED
      BY <1>2, <2>1 DEF AllRetrieved
  <1>21. BasedRefused'
    <2>1. ASSUME NEW u \in Held(push), Based(u)'
          PROVE  answer'[u] \in RefusalTypes \ {"uuid_conflict"} \/ push[u].val \in refused'
      <3>1. u \in UUID \ S
        BY <1>2, <1>3, <1>6, <1>10, <1>12, <2>1 DEF Based, Horizons
      <3>2. Based(u) /\ server[u] # None
        BY <1>2, <1>6, <2>1, <3>1 DEF Based, Horizons
      <3>3. Current(u) /\ ~server[u].del
        BY <3>1, <3>2 DEF Based, TokenInv, BothCovered, CoveredTo, Held
      <3>4. push[u].ts = server[u].ts
        BY <1>10, <3>3 DEF Current
      <3>5. a[u] # "sync_conflict" /\ a[u] # "uuid_conflict" /\ a[u] # "saved"
        BY <1>5, <1>7, <3>1, <3>2, <3>4 DEF Replies, Stale
      <3>6. a[u] \in {"saved", "sync_conflict"} \cup Refusals
        BY <1>5 DEF Replies
      <3>7. CASE u \in drop
        BY <1>5, <3>1, <3>5, <3>7
      <3>8. CASE u \notin drop
        <4>1. answer'[u] = a[u]
          BY <1>5, <1>8, <3>1, <3>8
        <4>2. QED
          BY <3>5, <3>6, <4>1 DEF ConstantsAssumption
      <3>9. QED
        BY <3>7, <3>8
    <2>2. \A u \in flagged : push[u] = None => db[u].val \in refused'
      BY <1>2, <1>5 DEF TokenInv, BasedRefused
    <2>3. QED
      BY <1>2, <1>4, <2>1, <2>2 DEF BasedRefused, Held
  <1>22. (AllWritten /\ AllCleaned)'
    BY <1>2, <1>4 DEF AllWritten, AllCleaned
  <1>23. NoProtectedPushed'
    <2>1. \A u \in Held(push) : ~ProtectedDeletion(push[u])
      BY <1>2 DEF TokenInv, NoProtectedPushed
    <2>2. \A u \in Held(theirs') : theirs'[u] = server'[u]
      BY <1>8 DEF Held
    <2>3. QED
      BY <1>2, <2>1, <2>2 DEF TokenInv, NoProtectedPushed, ProtectedDeletion, Held
  <1>24. QED
    BY <1>15, <1>16, <1>17, <1>18, <1>19, <1>20, <1>21, <1>22, <1>23 DEF TokenInv

\* Without a conflict the output holds every version up to the new token.
LEMMA TokenNoConflict ==
    ASSUME ConstantsAssumption, IInv, TokenInv, NoConflict
    PROVE  TokenInv'
  <1>1. /\ pc = "resolve" /\ pc' = "saveSaved" /\ Conflicts = {}
        /\ got' = Newest(got, saved)
        /\ UNCHANGED <<db, flagged, token, server, clock, push, sent, answer, theirs, resolved,
                       saved, newToken, done, refused>>
    BY DEF NoConflict, dbVars, serverVars, history, mishaps
  <1>2. /\ got \in ItemMap /\ saved \in ItemMap /\ server \in ItemMap /\ flagged \subseteq UUID
        /\ clock \in Nat /\ token \in Nat /\ sent \in Nat /\ newToken \in Nat
        /\ answer \in [UUID -> Answers] /\ push \in ItemMap
    BY DEF IInv, TypeOK
  <1>3. pc' \notin Answering /\ pc \in Answering /\ pc' \in Writing
        /\ pc' \notin {"saveItems", "deleteItems", "dropToken", "saveToken", "clean",
                       "exchange", "resolve", "resync"}
    BY <1>1, PhasesDistinct DEF Answering
  <1>4. \A u \in Held(server) : server[u].ts \in Nat
    BY <1>2, ItemFields DEF Held
  <1>5. \A u \in Held(saved) : server[u] # None /\ (saved[u] = server[u] \/ Later(u))
    BY <1>1, <1>3 DEF TokenInv, SavedNew, KindsAgree
  <1>6. ASSUME NEW u \in Held(got')
        PROVE  server[u] # None /\ (got'[u] = server[u] \/ Later(u))
    <2>1. u \in UUID /\ got'[u] # None
      BY DEF Held
    <2>2. CASE saved[u] = None
      BY <1>1, <1>2, <2>1, <2>2, NewestAt DEF TokenInv, GotCurrent, KindsAgree, Held
    <2>3. CASE saved[u] # None /\ got'[u] = saved[u]
      BY <1>5, <2>1, <2>3 DEF Held
    <2>4. CASE saved[u] # None /\ got[u] # None /\ got'[u] = got[u] /\ got[u].ts >= saved[u].ts
      <3>1. ~(got[u].ts < saved[u].ts)
        BY <1>2, <2>1, <2>4, ItemFields
      <3>2. QED
        BY <2>1, <2>4, <3>1 DEF TokenInv, GotCurrent, KindsAgree, Held
    <2>5. QED
      BY <1>1, <1>2, <2>1, <2>2, <2>3, <2>4, NewestAt
  <1>7. ASSUME NEW u \in Held(server), server[u].ts <= newToken, ~(server[u].ts <= sent)
        PROVE  got'[u] = server[u]
    <2>1. u \in UUID /\ server[u] # None /\ answer[u] # "sync_conflict"
      BY <1>1 DEF Held, Conflicts
    <2>2. got[u] = server[u] \/ saved[u] = server[u]
      BY <1>1, <1>7, <2>1 DEF TokenInv, AllRetrieved
    <2>3. got'[u] # None
      BY <1>1, <1>2, <2>1, <2>2, NewestAt
    <2>4. ~Later(u)
      BY <1>2, <1>4, <1>7 DEF Later
    <2>5. QED
      BY <1>6, <2>1, <2>3, <2>4 DEF Held
  <1>8. ClockInv'
    BY <1>1 DEF TokenInv, ClockInv, Held
  <1>9. KindsAgree'
    <2>1. ASSUME NEW u \in UUID, got'[u] # None
          PROVE  \/ got[u] # None /\ got'[u] = got[u]
                 \/ saved[u] # None /\ got'[u] = saved[u]
      <3>1. CASE got[u] = None \/ saved[u] = None
        BY <1>1, <1>2, <2>1, <3>1, NewestAt
      <3>2. CASE got[u] # None /\ saved[u] # None
        BY <1>1, <1>2, <3>2, NewestAt
      <3>3. QED
        BY <3>1, <3>2
    <2>2. QED
      BY <1>1, <2>1 DEF TokenInv, KindsAgree, Held
  <1>10. BothCovered'
    BY <1>1 DEF TokenInv, BothCovered, CoveredTo, Current, Horizons, Held
  <1>11. SavedNew'
    BY <1>1, <1>3 DEF TokenInv, SavedNew, Horizons, Held
  <1>12. GotCurrent'
    BY <1>1, <1>6 DEF GotCurrent, Later, Held
  <1>13. AllWritten'
    BY <1>1, <1>3, <1>7 DEF AllWritten, Written, Held
  <1>14. BasedRefused'
    <2>1. ASSUME NEW u \in flagged, Based(u) PROVE db[u].val \in refused
      <3>1. u \in UUID /\ (push[u] # None => push[u] = db[u])
        BY <1>1, <1>2 DEF IInv, PushCurrent, Held
      <3>2. CASE push[u] = None
        BY <1>1, <3>2 DEF TokenInv, BasedRefused, Answering
      <3>3. CASE push[u] # None
        <4>1. answer[u] \in RefusalTypes \/ push[u].val \in refused
          BY <1>1, <2>1, <3>1, <3>3 DEF TokenInv, BasedRefused, Held
        <4>2. answer[u] \in RefusalTypes => u \in Conflicts
          BY <3>1 DEF Conflicts, RefusalTypes
        <4>3. QED
          BY <1>1, <3>1, <3>3, <4>1, <4>2
      <3>4. QED
        BY <3>2, <3>3
    <2>2. QED
      BY <1>1, <1>3, <2>1 DEF BasedRefused, Based, Horizons, Answering
  <1>15. (AllRetrieved /\ AllCleaned)'
    BY <1>1, <1>3 DEF AllRetrieved, AllCleaned
  <1>16. NoProtectedPushed'
    BY <1>1, <1>3 DEF TokenInv, NoProtectedPushed, Answering, Held
  <1>17. QED
    BY <1>8, <1>9, <1>10, <1>11, <1>12, <1>13, <1>14, <1>15, <1>16 DEF TokenInv

\* A pushed change of a covered version that is in conflict was refused: the
\* edit is given up, if a retry has not dropped the refusal.
LEMMA BasedGivenUp ==
    ASSUME IInv, TokenInv, pc = "resolve", NEW u \in Held(push), Based(u)
    PROVE  u \in GivenUp \/ push[u].val \in refused
  <1>0. SUFFICES ASSUME push[u].val \notin refused PROVE u \in GivenUp
    OBVIOUS
  <1>1. answer[u] \in RefusalTypes \ {"uuid_conflict"}
    BY <1>0 DEF TokenInv, BasedRefused
  <1>2. /\ answer[u] # "none" /\ answer[u] # "saved" /\ answer[u] # "sync_conflict"
        /\ answer[u] # "uuid_conflict"
    BY <1>1 DEF RefusalTypes
  <1>3. u \in Conflicts
    BY <1>2 DEF Conflicts, Held
  <1>4. ~LocalWins(u) /\ ~DeletionWins(u) /\ ~Duplicated(u)
    BY <1>2 DEF LocalWins, DeletionWins, Duplicated
  <1>5. QED
    BY <1>3, <1>4, Zenon DEF GivenUp

\* When every conflict was skipped the output is empty, the new token too.
LEMMA TokenAllSkipped ==
    ASSUME ConstantsAssumption, IInv, TokenInv, AllSkipped
    PROVE  TokenInv'
  <1>1. /\ pc = "resolve" /\ pc' = "saveSaved"
        /\ refused' = refused \cup {push[u].val : u \in GivenUp}
        /\ saved' = NoItems /\ got' = NoItems /\ newToken' = 0
        /\ UNCHANGED <<db, flagged, token, server, clock, push, sent, answer, theirs, resolved,
                       done>>
    BY DEF AllSkipped, dbVars, serverVars
  <1>2. /\ flagged \subseteq UUID /\ clock \in Nat /\ server \in ItemMap
        /\ Held(saved') = {} /\ Held(got') = {}
    BY <1>1, NoItemsType DEF IInv, TypeOK
  <1>3. pc' \notin Answering /\ pc' \in Writing
        /\ pc' \notin {"saveItems", "deleteItems", "dropToken", "saveToken", "clean",
                       "exchange", "resolve", "resync"}
    BY <1>1, PhasesDistinct DEF Answering
  <1>4. ClockInv'
    BY <1>1, <1>2 DEF TokenInv, ClockInv, Held
  <1>5. KindsAgree'
    BY <1>1, <1>2 DEF TokenInv, KindsAgree, Held
  <1>6. BothCovered'
    <2>1. ASSUME NEW u \in UUID, Current(u) PROVE Current(u)'
      BY <1>1, <2>1 DEF Current
    <2>2. QED
      BY <1>1, <2>1 DEF TokenInv, BothCovered, CoveredTo, Horizons, Held
  <1>7. (SavedNew /\ GotCurrent)'
    BY <1>2, <1>3 DEF SavedNew, GotCurrent
  <1>8. AllWritten'
    <2>1. \A u \in Held(server) : ~(server[u].ts <= 0)
      BY <1>2, ItemFields DEF TokenInv, ClockInv, Held
    <2>2. QED
      BY <1>1, <2>1 DEF AllWritten, Held
  <1>9. BasedRefused'
    <2>1. ASSUME NEW u \in flagged, Based(u) PROVE db[u].val \in refused'
      <3>1. u \in UUID /\ (push[u] # None => push[u] = db[u])
        BY <1>1, <1>2 DEF IInv, PushCurrent, Held
      <3>2. CASE push[u] = None
        BY <1>1, <3>2 DEF TokenInv, BasedRefused, Answering
      <3>3. CASE push[u] # None
        <4>1. u \in GivenUp \/ push[u].val \in refused
          BY <1>1, <2>1, <3>1, <3>3, BasedGivenUp DEF Held
        <4>2. QED
          BY <1>1, <3>1, <3>3, <4>1
      <3>4. QED
        BY <3>2, <3>3
    <2>2. QED
      BY <1>1, <1>3, <2>1 DEF BasedRefused, Based, Horizons, Answering
  <1>10. (AllRetrieved /\ AllCleaned)'
    BY <1>1, <1>3 DEF AllRetrieved, AllCleaned
  <1>11. NoProtectedPushed'
    BY <1>1, <1>3 DEF TokenInv, NoProtectedPushed, Answering, Held
  <1>12. QED
    BY <1>4, <1>5, <1>6, <1>7, <1>8, <1>9, <1>10, <1>11 DEF TokenInv

\* What a conflict pushes under the same name is the server's version, or the
\* pushed one on another base.
LEMMA ResolutionIs ==
    ASSUME ConstantsAssumption, TypeOK, ConflictsKnown, pc = "resolve", NEW u \in UUID,
           Resolution(u) # None
    PROVE  \/ theirs[u] # None /\ Resolution(u) = theirs[u]
           \/ /\ push[u] # None /\ Resolution(u).kind = push[u].kind
              /\ Resolution(u).del = push[u].del
  <1> DEFINE rebased == [push[u] EXCEPT !.ts = theirs[u].ts]
  <1>1. u \in Conflicts
    BY Zenon DEF Resolution
  <1>2. push[u] # None /\ push[u] \in Item
    BY <1>1 DEF ConflictsKnown, TypeOK, ItemMap
  <1>3. rebased.kind = push[u].kind /\ rebased.del = push[u].del
    BY <1>2, Restamped
  <1>4. CASE ServerWins(u)
    <2>1. Resolution(u) = theirs[u]
      BY <1>1, <1>4, Zenon DEF Resolution
    <2>2. QED
      BY <2>1
  <1>5. CASE ~ServerWins(u)
    <2>1. Resolution(u) \in {push[u], rebased}
      BY <1>1, <1>5, Zenon DEF Resolution
    <2>2. QED
      BY <1>2, <1>3, <2>1
  <1>6. QED
    BY <1>4, <1>5

\* What is pushed again has the kind its name always had, and deletes nothing
\* protected that the server still has.
LEMMA TokenResolve ==
    ASSUME ConstantsAssumption, IInv, TokenInv, Resolve
    PROVE  TokenInv'
  <1> DEFINE dups == {u \in Conflicts : Duplicated(u)}
  <1>1. PICK name \in [dups -> Fresh] :
          LET named == {name[u] : u \in dups}
              origin(n) == CHOOSE u \in dups : name[u] = n
              next == [u \in UUID |-> IF u \in named THEN push[origin(u)] ELSE Resolution(u)]
          IN /\ \A u, v \in dups : name[u] = name[v] => u = v
             /\ Held(next) # {}
             /\ resolved' = next
             /\ copyOf' = [u \in UUID |-> IF u \in named THEN origin(u) ELSE copyOf[u]]
    BY Zenon DEF Resolve
  <1> DEFINE named == {name[u] : u \in dups}
             origin(n) == CHOOSE u \in dups : name[u] = n
  <1>2. \A n \in named : n \in Fresh /\ origin(n) \in dups
    BY <1>1
  <1>3. \A u \in dups : u \in UUID /\ ~push[u].del
    BY DEF Conflicts, Duplicated
  <1> HIDE DEF dups, named, origin
  <1>4. resolved' = [u \in UUID |-> IF u \in named THEN push[origin(u)] ELSE Resolution(u)]
    BY <1>1 DEF named, origin
  <1>5. /\ pc = "resolve" /\ pc' = "resync"
        /\ refused' = refused \cup {push[u].val : u \in GivenUp}
        /\ UNCHANGED <<db, flagged, token, server, clock, push, sent, answer, theirs, saved,
                       got, newToken, done>>
    BY DEF Resolve, dbVars, serverVars
  <1>6. pc' \in Answering /\ pc \in Answering /\ pc' \notin Writing
    BY <1>5, PhasesDistinct DEF Answering
  <1>7. TypeOK /\ ConflictsKnown /\ \A u \in Held(push) : u \in UUID /\ push[u] = db[u]
    BY <1>5 DEF IInv, PushCurrent, Held
  <1>8. ASSUME NEW u \in UUID, resolved'[u] # None
        PROVE  \/ db[u] = None /\ server[u] = None /\ ~resolved'[u].del
               \/ theirs[u] # None /\ resolved'[u] = theirs[u]
               \/ /\ push[u] # None /\ resolved'[u].kind = push[u].kind
                  /\ resolved'[u].del = push[u].del
    <2>1. CASE u \in named
      BY <1>2, <1>3, <1>4, <1>8, <2>1 DEF Fresh
    <2>2. CASE u \notin named
      BY <1>4, <1>5, <1>7, <1>8, <2>2, ResolutionIs
    <2>3. QED
      BY <2>1, <2>2
  <1>9. ClockInv'
    BY <1>5 DEF TokenInv, ClockInv, Held
  <1>10. KindsAgree'
    <2>1. /\ \A u \in Held(db) \cap Held(server) : db[u].kind = server[u].kind
          /\ \A u \in Held(theirs) : server[u] # None /\ theirs[u].kind = server[u].kind
      BY DEF TokenInv, KindsAgree
    <2>2. ASSUME NEW u \in UUID, resolved'[u] # None
          PROVE  /\ db[u] # None => resolved'[u].kind = db[u].kind
                 /\ server[u] # None => resolved'[u].kind = server[u].kind
      <3>1. push[u] # None => db[u] # None /\ push[u] = db[u]
        BY <1>7, <2>2 DEF Held
      <3>2. QED
        BY <1>8, <2>1, <2>2, <3>1 DEF Held
    <2>3. QED
      BY <1>5, <2>2 DEF TokenInv, KindsAgree, Held
  <1>11. BothCovered'
    <2>1. ASSUME NEW u \in UUID, Current(u) PROVE Current(u)'
      BY <1>5, <2>1 DEF Current
    <2>2. QED
      BY <1>5, <2>1 DEF TokenInv, BothCovered, CoveredTo, Horizons, Held
  <1>12. (SavedNew /\ GotCurrent)'
    BY <1>5, <1>6 DEF TokenInv, SavedNew, GotCurrent, Horizons, Held, Later
  <1>13. (AllRetrieved /\ AllWritten /\ AllCleaned)'
    BY <1>5, <1>6 DEF AllRetrieved, AllWritten, AllCleaned
  <1>14. BasedRefused'
    <2>1. \A u \in Held(push) : Based(u) => push[u].val \in refused'
      BY <1>5, BasedGivenUp
    <2>2. \A u \in flagged : push[u] = None => db[u].val \in refused'
      BY <1>5, <1>6 DEF TokenInv, BasedRefused
    <2>3. QED
      BY <1>5, <1>6, <2>1, <2>2 DEF BasedRefused, Based, Horizons, Held
  <1>15. NoProtectedPushed'
    <2>1. ASSUME NEW u \in UUID, resolved'[u] # None, ProtectedDeletion(resolved'[u])
          PROVE  server[u] # None /\ server[u].del
      <3>1. CASE theirs[u] # None /\ resolved'[u] = theirs[u]
        BY <1>5, <2>1, <3>1 DEF TokenInv, NoProtectedPushed, KindsAgree, Held
      <3>2. push[u] # None => ~ProtectedDeletion(push[u])
        BY <1>6 DEF TokenInv, NoProtectedPushed, Held
      <3>3. QED
        BY <1>8, <2>1, <3>1, <3>2 DEF ProtectedDeletion
    <2>2. QED
      BY <1>5, <1>6, <2>1 DEF TokenInv, NoProtectedPushed, Held
  <1>16. QED
    BY <1>9, <1>10, <1>11, <1>12, <1>13, <1>14, <1>15 DEF TokenInv

\* What the second exchange says and retrieves of one item, when it reports no
\* conflict.
SecondSays(a, drop, redo, u) ==
    /\ Stamped(resolved, a, drop \cup redo)[u] =
           IF u \in SavedIn(a) \ drop THEN server'[u] ELSE None
    /\ u \in Held(resolved) \ drop => u \in SavedIn(a)
    /\ \/ Retrieved(sent, resolved, a, drop, redo)[u] \in {None, server[u]}
       \/ u \in drop /\ Retrieved(sent, resolved, a, drop, redo)[u] = server'[u]
    /\ server'[u] # None /\ server'[u].ts > sent /\ u \notin SavedIn(a)
       => Retrieved(sent, resolved, a, drop, redo)[u] = server'[u]
    /\ redo = {}

LEMMA SecondExchangeAt ==
    ASSUME ConstantsAssumption, TypeOK,
           NEW a, NEW drop, NEW redo, NEW own, SecondExchange(a, drop, redo, own),
           ~Unresolved(Reported(a, drop, redo \cup own)),
           NEW u \in UUID
    PROVE  SecondSays(a, drop, redo, u)
  <1>1. Exchanged(resolved, sent, a, drop, redo, own) /\ resolved \in ItemMap
    BY DEF SecondExchange, TypeOK
  <1>2. /\ DOMAIN a = Held(resolved) /\ SavedIn(a) \subseteq Held(resolved)
        /\ Held(resolved) \subseteq UUID /\ drop \subseteq Held(resolved)
        /\ redo \subseteq SavedIn(a) /\ own \subseteq SavedIn(a)
        /\ redo \cap drop = {} /\ own \cap (drop \cup redo) = {}
    BY <1>1, ExchangedShape
  <1>3. redo = {} /\ own = {}
    <2>1. \A v \in redo \cup own : Reported(a, drop, redo \cup own)[v] = "sync_conflict"
      BY <1>2 DEF Reported
    <2>2. QED
      BY <1>2, <2>1 DEF Unresolved
  <1>4. u \in Held(resolved) \ drop => a[u] \in {"none", "saved"}
    <2>1. u \in Held(resolved) \ drop => Reported(a, drop, redo \cup own)[u] = a[u]
      BY <1>2, <1>3 DEF Reported
    <2>2. Reported(a, drop, redo \cup own)[u] \in {"none", "saved"}
      BY DEF Unresolved
    <2>3. QED
      BY <2>1, <2>2
  <1>5. u \in Held(resolved) \ drop => u \in SavedIn(a)
    <2>1. a \in Replies(resolved)
      BY <1>1, ExchangedShape
    <2>2. \A v \in Held(resolved) : a[v] # "none"
      BY <2>1, RepliesType
    <2>3. QED
      BY <1>2, <1>4, <2>2 DEF SavedIn
  <1>6. Stamped(resolved, a, drop \cup redo)[u] =
                 IF u \in SavedIn(a) \ drop THEN server'[u] ELSE None
    <2>1. Stamped(resolved, a, drop \cup redo)[u] =
              IF u \in drop \cup redo THEN None ELSE SavedItems(resolved, a)[u]
      BY DEF Stamped, Store, NoItems
    <2>2. u \in SavedIn(a) => server'[u] = SavedItems(resolved, a)[u]
      BY <1>1, SavedStored
    <2>3. u \notin SavedIn(a) => SavedItems(resolved, a)[u] = None
      BY DEF SavedItems
    <2>4. QED
      BY <1>3, <2>1, <2>2, <2>3
  <1> DEFINE R == Retrieved(sent, resolved, a, drop, redo)
  <1>7. /\ u \in drop => R[u] = IF server'[u] # None /\ server'[u].ts > sent
                               THEN server'[u] ELSE None
        /\ u \notin drop => R[u] = Changed(sent, a)[u]
    BY <1>1, <1>3, RetrievedShape
  <1>8. u \notin SavedIn(a) => server'[u] = server[u]
    BY <1>1 DEF Exchanged, ServerStores, Store
  <1> HIDE DEF R
  <1>9. server'[u] # None /\ server'[u].ts > sent /\ u \notin SavedIn(a) => R[u] = server'[u]
    <2>1. ASSUME u \notin drop, u \notin SavedIn(a) PROVE u \notin DOMAIN a
      BY <1>2, <1>5, <2>1
    <2>2. QED
      BY <1>7, <1>8, <2>1 DEF Changed
  <1>10. R[u] \in {None, server[u]} \/ (u \in drop /\ R[u] = server'[u])
    BY <1>7 DEF Changed
  <1>11. QED
    BY <1>3, <1>5, <1>6, <1>9, <1>10 DEF R, SecondSays

\* A resync that fails ends the sync; one that does not brings the output to
\* every version up to the new token.
LEMMA TokenResync ==
    ASSUME ConstantsAssumption, IInv, TokenInv, Resync
    PROVE  TokenInv'
  <1>1. PICK a, drop, redo, own :
              /\ SecondExchange(a, drop, redo, own)
              /\ \/ /\ Unresolved(Reported(a, drop, redo \cup own))
                    /\ Idle
                    /\ disturbed' = disturbed \cup Held(push) \cup Held(resolved)
                 \/ /\ ~Unresolved(Reported(a, drop, redo \cup own))
                    /\ saved' = Mine(a, drop, redo)
                    /\ got' = Newest(Newest(got, Retrieved(sent, resolved, a, drop, redo)),
                                     Mine(a, drop, redo))
                    /\ disturbed' = disturbed \cup drop
                    /\ pc' = "saveSaved"
                    /\ UNCHANGED <<dirty, push, sent, answer, theirs, resolved,
                                   newToken, done>>
    BY ResyncSplit
  <1>2. /\ pc = "resync" /\ UNCHANGED <<db, flagged, token>>
        /\ Exchanged(resolved, sent, a, drop, redo, own) /\ ServerStores(resolved, a)
        /\ a \in Replies(resolved) /\ refused \subseteq refused'
    <2>1. /\ pc = "resync" /\ UNCHANGED <<db, flagged, token>>
          /\ Exchanged(resolved, sent, a, drop, redo, own) /\ ServerStores(resolved, a)
          /\ a \in Replies(resolved)
      BY <1>1 DEF SecondExchange, Exchanged
    <2>2. refused \subseteq refused'
      BY <2>1, OverlooksShape DEF IInv, TypeOK
    <2>3. QED
      BY <2>1, <2>2
  <1>3. /\ TypeOK /\ server \in ItemMap /\ resolved \in ItemMap /\ db \in ItemMap
        /\ push \in ItemMap /\ saved \in ItemMap /\ got \in ItemMap /\ clock \in Nat
        /\ token \in Nat /\ sent \in Nat /\ newToken \in Nat /\ flagged \subseteq UUID
    BY DEF IInv, TypeOK
  <1>4. pc \in Answering /\ pc \notin Writing
    BY <1>2, PhasesDistinct DEF Answering
  <1> DEFINE S == SavedIn(a)
  <1>5. /\ S \subseteq Held(resolved) /\ clock <= clock' /\ clock' \in Nat
        /\ \A u \in UUID \ S : server'[u] = server[u]
        /\ \A u \in S : /\ clock' = clock + 1 /\ server'[u] # None
                        /\ server'[u].ts = clock + 1
                        /\ server'[u].kind = resolved[u].kind
                        /\ server'[u].del = resolved[u].del
    <2>1. clock' \in Nat
      BY <1>2, <1>3, NowType DEF ServerStores
    <2>2. QED
      BY <1>2, <1>3, <2>1, ServerAfter
  <1> HIDE DEF S
  <1>6. \A u \in Held(server) : /\ server[u].ts \in Nat /\ 0 < server[u].ts
                                /\ server[u].ts <= clock
    BY <1>3, ItemFields DEF TokenInv, ClockInv, Held
  <1>7. token <= clock /\ sent <= clock /\ newToken <= clock
    BY DEF TokenInv, ClockInv
  <1>8. \A u \in S : u \in UUID /\ u \in Held(resolved) /\ resolved[u] # None
    BY <1>5 DEF Held
  <1>9. ASSUME NEW u \in UUID
        PROVE  /\ server[u] # None => server'[u] # None /\ server'[u].kind = server[u].kind
               /\ db[u] # None /\ server'[u] # None => db[u].kind = server'[u].kind
    <2>1. CASE u \in S
      BY <1>2, <1>5, <1>8, <2>1 DEF TokenInv, KindsAgree
    <2>2. CASE u \notin S
      BY <1>5, <2>2 DEF TokenInv, KindsAgree, Held
    <2>3. QED
      BY <2>1, <2>2
  <1>10. \A u \in S : u \in Held(server') /\ clock < server'[u].ts
    BY <1>3, <1>5, <1>8 DEF Held
  <1>11. /\ sent' \in {sent, 0} /\ newToken' \in {newToken, 0}
    BY <1>1, Zenon DEF Idle
  <1>12. ClockInv'
    <2>1. \A u \in Held(server') : 0 < server'[u].ts /\ server'[u].ts <= clock'
      BY <1>3, <1>5, <1>6 DEF Held
    <2>2. QED
      BY <1>2, <1>3, <1>5, <1>7, <1>11, <2>1 DEF ClockInv
  <1>13. BothCovered'
    <2>1. ASSUME NEW u \in UUID \ S, Current(u) PROVE Current(u)'
      BY <1>2, <1>5, <2>1 DEF Current
    <2>2. ASSUME NEW t \in {token, sent, 0}, NEW u \in Held(server'), server'[u].ts <= t
          PROVE  Current(u)'
      <3>1. u \in UUID \ S
        BY <1>3, <1>7, <1>10, <1>5, <2>2 DEF Held
      <3>2. u \in Held(server) /\ server[u].ts <= t /\ t # 0
        BY <1>3, <1>5, <1>6, <2>2, <3>1 DEF Held
      <3>3. QED
        BY <2>1, <2>2, <3>1, <3>2 DEF TokenInv, BothCovered, CoveredTo, Horizons
    <2>3. QED
      BY <1>2, <1>11, <2>2 DEF BothCovered, CoveredTo, Horizons, Held
  <1>14. NoProtectedPushed' \/ pc' \in {"exchange"} \cup Answering
    BY <1>2 DEF TokenInv, NoProtectedPushed, Answering, Held
  <1>15. CASE Idle
    <2>1. pc' = "idle" /\ saved' = NoItems /\ got' = NoItems /\ theirs' = NoItems
      BY <1>15 DEF Idle
    <2>2. Held(saved') = {} /\ Held(got') = {} /\ Held(theirs') = {}
      BY <2>1, NoItemsType
    <2>3. pc' \notin Answering /\ pc' \notin Writing
      BY <2>1, PhasesDistinct DEF Answering
    <2>4. KindsAgree'
      BY <1>2, <1>9, <2>1, <2>2 DEF KindsAgree, Held
    <2>5. (SavedNew /\ GotCurrent /\ AllRetrieved /\ AllWritten /\ BasedRefused /\ AllCleaned)'
      BY <2>1, <2>2, <2>3
      DEF SavedNew, GotCurrent, AllRetrieved, AllWritten, BasedRefused, AllCleaned
    <2>6. QED
      BY <1>12, <1>13, <1>14, <2>1, <2>3, <2>4, <2>5 DEF TokenInv
  <1>16. CASE ~Idle
    <2> DEFINE R == Retrieved(sent, resolved, a, drop, redo)
               K == Stamped(resolved, a, drop \cup redo)
               mid == Newest(got, R)
               both == Newest(saved, K)
    <2>1. /\ SecondExchange(a, drop, redo, own)
          /\ ~Unresolved(Reported(a, drop, redo \cup own))
          /\ saved' = Mine(a, drop, redo) /\ got' = Newest(mid, saved') /\ pc' = "saveSaved"
          /\ UNCHANGED <<push, sent, answer, theirs, resolved, newToken>>
      BY <1>1, <1>16
    <2>2. /\ pc' \notin Answering /\ pc' \in Writing
          /\ pc' \notin {"saveItems", "deleteItems", "dropToken", "saveToken", "clean",
                         "exchange", "resolve", "resync"}
      BY <2>1, PhasesDistinct DEF Answering
    <2>3. R \in ItemMap /\ mid \in ItemMap /\ K \in ItemMap /\ both \in ItemMap
          /\ saved' \in ItemMap
      <3>1. TypeOK'
        BY ResyncType DEF IInv
      <3>2. R \in ItemMap
        BY <1>2, <1>3, RetrievedShape
      <3>3. Exchanged(resolved, sent, a, drop, redo, own) /\ TypeOK /\ resolved \in ItemMap
        BY <1>2, <1>3
      <3>4. K \in ItemMap
        BY <3>3, StampedShape
      <3>5. QED
        BY <1>3, <3>1, <3>2, <3>4, NewestType DEF TypeOK
    <2>4. ASSUME NEW u \in UUID, saved'[u] # None
          PROVE  /\ both[u] # None /\ push[u] # None
                 /\ saved'[u] = [push[u] EXCEPT !.ts = both[u].ts]
                 /\ saved'[u].kind = push[u].kind
      <3>1. both[u] # None /\ push[u] # None
            /\ saved'[u] = [push[u] EXCEPT !.ts = both[u].ts]
        BY <2>1, <2>4 DEF Mine
      <3>2. push[u] \in Item
        BY <1>3, <3>1, ItemFields
      <3>3. QED
        BY <3>1, <3>2, Restamped
    <2>5. \A u \in UUID \ S : both[u] = saved[u]
      <3>1. ASSUME NEW u \in UUID \ S PROVE K[u] = None
        <4>1. SecondSays(a, drop, redo, u)
          BY <1>3, <2>1, SecondExchangeAt
        <4>2. QED
          BY <4>1 DEF S, SecondSays
      <3>2. QED
        BY <1>3, <2>3, <3>1, NewestAt, ZenonT(40)
    <2>6. ASSUME NEW u \in UUID \ S, saved[u] # None
          PROVE  saved[u] = [push[u] EXCEPT !.ts = saved[u].ts] /\ push[u] # None
      BY <1>4, <2>6 DEF TokenInv, SavedNew, Held
    <2>18. \A u \in UUID : saved'[u] = IF both[u] # None /\ push[u] # None
                                      THEN [push[u] EXCEPT !.ts = both[u].ts] ELSE None
      BY <2>1 DEF Mine
    <2>19. ASSUME NEW u \in UUID
           PROVE  /\ R[u] \in {None, server[u]} \/ R[u] = server'[u]
                  /\ server'[u] # None /\ server'[u].ts > sent /\ u \notin S
                     => R[u] = server'[u]
      <3>1. SecondSays(a, drop, redo, u)
        BY <1>3, <2>1, SecondExchangeAt
      <3>2. QED
        BY <3>1 DEF S, SecondSays
    <2> HIDE DEF both, K, R
    <2>7. ASSUME NEW u \in UUID \ S
          PROVE  saved'[u] = saved[u]
      <3>1. CASE saved[u] = None
        BY <2>4, <2>5, <2>7, <3>1
      <3>2. CASE saved[u] # None
        BY <2>5, <2>6, <2>7, <2>18, <3>2
      <3>3. QED
        BY <3>1, <3>2
    <2>8. ASSUME NEW u \in Held(saved')
          PROVE  /\ u \in UUID /\ server'[u] # None /\ saved'[u].kind = server'[u].kind
                 /\ \A t \in Horizons : server'[u].ts > t
      <3>1. u \in UUID /\ saved'[u] # None /\ push[u] # None /\ push[u] = db[u]
            /\ saved'[u].kind = db[u].kind
        BY <1>2, <2>4 DEF Held, IInv, PushCurrent
      <3>2. CASE u \in S
        BY <1>3, <1>7, <1>9, <1>10, <1>5, <3>1, <3>2 DEF Horizons
      <3>3. CASE u \notin S
        <4>1. u \in Held(saved)
          BY <2>7, <3>1, <3>3 DEF Held
        <4>2. server[u] # None /\ \A t \in Horizons : server[u].ts > t
          BY <4>1 DEF TokenInv, KindsAgree, SavedNew
        <4>3. QED
          BY <1>5, <1>9, <3>1, <3>3, <4>2
      <3>4. QED
        BY <3>2, <3>3
    <2>9. ASSUME NEW u \in Held(got')
          PROVE  /\ server'[u] # None /\ got'[u].kind = server'[u].kind
                 /\ got'[u] = server'[u] \/ Later(u)'
      <3>1. u \in UUID /\ got'[u] # None
        BY DEF Held
      <3>2. got[u] # None => server[u] # None /\ got[u].kind = server[u].kind
        BY <3>1 DEF TokenInv, KindsAgree, Held
      <3>3. /\ R[u] \in {None, server[u]} \/ R[u] = server'[u]
            /\ mid[u] \in {got[u], R[u]}
            /\ got'[u] \in {mid[u], saved'[u]}
        BY <2>1, <2>19, <3>1 DEF Newest
      <3> HIDE DEF mid
      <3>4. server'[u] # None /\ got'[u].kind = server'[u].kind
        BY <1>9, <2>8, <3>1, <3>2, <3>3 DEF Held
      <3>5. CASE u \in S
        BY <1>2, <1>3, <1>5, <1>7, <2>1, <3>4, <3>5 DEF Later
      <3>6. CASE u \notin S /\ Later(u)
        BY <1>2, <1>5, <2>1, <3>1, <3>4, <3>6 DEF Later
      <3>7. CASE u \notin S /\ ~Later(u)
        <4>1. server'[u] = server[u] /\ saved'[u] = saved[u]
          BY <1>5, <2>7, <3>1, <3>7
        <4>2. saved[u] # None => saved[u] = server[u]
          BY <1>4, <3>1, <3>7 DEF TokenInv, SavedNew, Held
        <4>3. got[u] # None => \/ got[u] = server[u]
                               \/ saved[u] # None /\ got[u].ts < saved[u].ts
          BY <3>1, <3>7 DEF TokenInv, GotCurrent, Held
        <4>4. CASE got'[u] = saved'[u]
          BY <3>1, <4>1, <4>2, <4>4
        <4>5. CASE got'[u] # saved'[u]
          <5>1. got'[u] = mid[u] /\ (saved[u] # None => mid[u].ts >= saved[u].ts)
            BY <2>1, <2>3, <3>1, <3>3, <4>1, <4>5, NewestAt
          <5>2. mid[u] # None /\ mid[u].ts \in Nat
            BY <2>3, <3>1, <5>1, ItemFields
          <5>3. saved[u] # None => saved[u].ts \in Nat
            BY <1>3, <3>1, ItemFields
          <5>4. mid[u] = server[u]
            BY <3>3, <4>1, <4>3, <5>1, <5>2, <5>3
          <5>5. QED
            BY <4>1, <5>1, <5>2, <5>4
        <4>6. QED
          BY <4>4, <4>5
      <3>8. QED
        BY <3>4, <3>5, <3>6, <3>7
    <2>10. ASSUME NEW u \in Held(server'), server'[u].ts <= newToken,
                  ~(server'[u].ts <= sent)
           PROVE  got'[u] = server'[u]
      <3>1. u \in UUID \ S /\ server'[u] = server[u] /\ server[u] # None
        BY <1>3, <1>5, <1>7, <1>10, <2>10 DEF Held
      <3>2. server[u].ts \in Nat
        BY <1>6, <3>1 DEF Held
      <3>5. R[u] = server[u]
        BY <1>3, <2>10, <2>19, <3>1, <3>2
      <3>6. mid[u] # None
        BY <1>3, <2>3, <3>1, <3>5, NewestAt
      <3> HIDE DEF mid
      <3>7. got'[u] # None
        BY <2>1, <2>3, <3>1, <3>6, NewestAt
      <3>8. ~Later(u)'
        BY <1>3, <2>1, <2>10, <3>1, <3>2 DEF Later
      <3>9. QED
        BY <2>9, <3>1, <3>7, <3>8 DEF Held
    <2>11. KindsAgree'
      <3>1. \A u \in Held(theirs') : server'[u] # None /\ theirs'[u].kind = server'[u].kind
        BY <1>9, <2>1 DEF TokenInv, KindsAgree, Held
      <3>2. QED
        BY <1>2, <1>9, <2>1, <2>2, <2>8, <2>9, <3>1 DEF KindsAgree, Held
    <2>12. SavedNew'
      BY <1>2, <2>1, <2>2, <2>8 DEF SavedNew, Horizons, Held
    <2>13. GotCurrent'
      BY <2>9 DEF GotCurrent
    <2>14. AllWritten'
      BY <2>1, <2>2, <2>10 DEF AllWritten, Written
    <2>15. BasedRefused'
      <3>1. ASSUME NEW u \in flagged, Based(u)' PROVE db[u].val \in refused'
        <4>1. u \in UUID \ S
          BY <1>2, <1>3, <1>5, <1>7, <2>1, <3>1 DEF Based, Horizons
        <4>2. Based(u)
          BY <1>2, <1>5, <2>1, <3>1, <4>1 DEF Based, Horizons
        <4>3. CASE push[u] = None
          BY <1>2, <1>4, <3>1, <4>3 DEF TokenInv, BasedRefused
        <4>4. CASE push[u] # None
          <5>1. u \in Held(push) /\ push[u] = db[u]
            BY <1>2, <4>1, <4>4 DEF IInv, PushCurrent, Held
          <5>2. QED
            BY <1>2, <4>2, <5>1 DEF TokenInv, BasedRefused
        <4>5. QED
          BY <4>3, <4>4
      <3>2. QED
        BY <1>2, <2>1, <2>2, <3>1 DEF BasedRefused, Answering
    <2>16. (AllRetrieved /\ AllCleaned)'
      BY <2>2 DEF AllRetrieved, AllCleaned
    <2>17. QED
      BY <1>12, <1>13, <1>14, <2>2, <2>11, <2>12, <2>13, <2>14, <2>15, <2>16 DEF TokenInv
  <1>17. QED
    BY <1>15, <1>16

---------------------------------------------------------------------------
(* Writing the output, a transaction at a time. *)

\* What a write leaves alone.
TokenFrame ==
    /\ UNCHANGED <<token, server, clock, dirty, push, sent, answer, theirs, resolved, saved,
                   got, newToken, refused>>
    /\ pc \in Writing /\ pc' \in Writing

\* A transaction between write phases is framed so, and works on a batch of
\* what is left to do.
LEMMA TokenTransaction ==
    ASSUME NEW here \in Writing, NEW next \in Writing, NEW S, NEW b,
           Transaction(here, S, next, b)
    PROVE  /\ TokenFrame
           /\ pc = here /\ b \subseteq S
           /\ \/ pc' = next /\ done' = {} /\ done \cup b = S
              \/ pc' = here /\ done' = done \cup b
  BY DEF Transaction, Batches, TokenFrame, serverVars, history, mishaps

\* A write that puts items of the server's kind in the database, or removes
\* items that are not protected, keeps what is not about its own batch.
LEMMA TokenWrite ==
    ASSUME ConstantsAssumption, IInv, TokenInv, TokenFrame, NEW b \in SUBSET UUID,
           flagged' = flagged \ b,
           \A u \in UUID \ b : db'[u] = db[u],
           \A u \in b : \/ db'[u] = None
                        \/ db'[u] = db[u]
                        \/ /\ server[u] # None /\ db'[u].kind = server[u].kind
                           /\ ~db'[u].del,
           \A t \in Horizons : \A u \in b \cap Held(server) :
              server[u].ts <= t /\ Current(u) => Current(u)'
    PROVE  /\ ClockInv' /\ KindsAgree' /\ BothCovered' /\ SavedNew' /\ GotCurrent'
           /\ AllRetrieved' /\ BasedRefused' /\ NoProtectedPushed'
  <1>1. /\ pc' \notin {"exchange", "resolve", "resync"} /\ pc' \notin Answering
        /\ pc \notin Answering /\ pc' \in Writing /\ pc \in Writing
    BY PhasesDistinct DEF TokenFrame, Answering
  <1>2. UNCHANGED <<token, server, clock, push, sent, answer, theirs, resolved, saved, got,
                    newToken, refused>>
    BY DEF TokenFrame
  <1>3. ClockInv'
    BY <1>2 DEF TokenInv, ClockInv, Held
  <1>4. KindsAgree'
    <2>1. ASSUME NEW u \in UUID, db'[u] # None, server[u] # None
          PROVE  db'[u].kind = server[u].kind
      BY <2>1 DEF TokenInv, KindsAgree, Held
    <2>2. QED
      BY <1>1, <1>2, <2>1 DEF TokenInv, KindsAgree, Held
  <1>5. BothCovered'
    <2>1. ASSUME NEW u \in UUID \ b, Current(u) PROVE Current(u)'
      BY <1>2, <2>1 DEF Current
    <2>2. ASSUME NEW t \in Horizons, NEW u \in Held(server), server[u].ts <= t
          PROVE  Current(u)'
      <3>1. Current(u) /\ u \in UUID
        BY <2>2 DEF TokenInv, BothCovered, CoveredTo, Held
      <3>2. QED
        BY <2>1, <2>2, <3>1
    <2>3. QED
      BY <1>2, <2>2 DEF BothCovered, CoveredTo, Horizons, Held
  <1>6. (SavedNew /\ GotCurrent)'
    BY <1>1, <1>2 DEF TokenInv, SavedNew, GotCurrent, Horizons, Later, Held
  <1>7. AllRetrieved'
    BY <1>1 DEF AllRetrieved
  <1>8. BasedRefused'
    <2>1. ASSUME NEW u \in flagged', Based(u)' PROVE db'[u].val \in refused'
      <3>1. u \in flagged /\ u \in UUID \ b /\ Based(u)
        BY <1>2, <2>1 DEF Based, Horizons, IInv, TypeOK
      <3>2. QED
        BY <1>1, <1>2, <3>1 DEF TokenInv, BasedRefused
    <2>2. QED
      BY <1>1, <2>1 DEF BasedRefused, Answering
  <1>9. NoProtectedPushed'
    <2>1. \A u \in Held(db') : db'[u].kind # "Note" => ~db'[u].del
      BY DEF TokenInv, NoProtectedPushed, Held
    <2>2. QED
      BY <1>1, <2>1 DEF NoProtectedPushed, Answering
  <1>10. QED
    BY <1>3, <1>4, <1>5, <1>6, <1>7, <1>8, <1>9

\* What was saved is later than both tokens.
LEMMA TokenSavedWrite ==
    ASSUME ConstantsAssumption, IInv, TokenInv, SaveSaved \/ DeleteSaved
    PROVE  TokenInv'
  <1>1. ASSUME NEW b \in SUBSET UUID, b \subseteq Held(saved), TokenFrame,
               flagged' = flagged \ b, \A u \in UUID \ b : db'[u] = db[u],
               \A u \in b : db'[u] = None \/ (db'[u] = saved[u] /\ ~saved[u].del),
               pc' \in {"saveSaved", "deleteSaved"} \/ (pc' = "clean" /\ done' = {})
        PROVE  TokenInv'
    <2>1. \A u \in b : /\ server[u] # None /\ saved[u].kind = server[u].kind
                       /\ \A t \in Horizons : server[u].ts > t
      BY <1>1 DEF TokenInv, KindsAgree, SavedNew
    <2>2. \A t \in Horizons : \A u \in b : ~(server[u].ts <= t)
      <3>1. \A t \in Horizons : t \in Nat
        BY DEF Horizons, IInv, TypeOK
      <3>2. \A u \in b : server[u].ts \in Nat
        BY <2>1, ItemFields DEF IInv, TypeOK
      <3>3. QED
        BY <2>1, <3>1, <3>2
    <2>3. /\ ClockInv' /\ KindsAgree' /\ BothCovered' /\ SavedNew' /\ GotCurrent'
          /\ AllRetrieved' /\ BasedRefused' /\ NoProtectedPushed'
      BY <1>1, <2>1, <2>2, TokenWrite
    <2>4. AllWritten'
      <3>1. /\ pc' \in Writing /\ pc \in Writing
            /\ UNCHANGED <<server, got, sent, newToken>>
        BY <1>1 DEF TokenFrame
      <3>2. \A u \in UUID : Written(u)'
        BY <1>1 DEF Written
      <3>3. QED
        BY <3>1, <3>2 DEF TokenInv, AllWritten, Held
    <2>5. AllCleaned'
      BY <1>1 DEF AllCleaned
    <2>6. QED
      BY <2>3, <2>4, <2>5 DEF TokenInv
  <1>2. {"saveSaved", "deleteSaved", "clean"} \subseteq Writing
    BY DEF Writing
  <1>3. CASE SaveSaved
    <2>1. PICK b \in SUBSET UUID :
            Transaction("saveSaved", Live(saved), "deleteSaved", b) /\ Put(saved, b)
      BY <1>3 DEF SaveSaved
    <2>2. /\ TokenFrame /\ b \subseteq Live(saved) /\ pc' \in {"saveSaved", "deleteSaved"}
      BY <1>2, <2>1, TokenTransaction
    <2>3. QED
      BY <1>1, <2>1, <2>2 DEF Put, Store, Live
  <1>4. CASE DeleteSaved
    <2>1. PICK b \in SUBSET UUID :
            Transaction("deleteSaved", Removable(saved), "clean", b) /\ Remove(b)
      BY <1>4 DEF DeleteSaved
    <2>2. /\ TokenFrame /\ b \subseteq Removable(saved)
          /\ pc' = "deleteSaved" \/ (pc' = "clean" /\ done' = {})
      BY <1>2, <2>1, TokenTransaction
    <2>3. QED
      BY <1>1, <2>1, <2>2 DEF Remove, Store, NoItems, Removable, Gone
  <1>5. QED
    BY <1>3, <1>4

\* A change of a covered item that is cleaned without having been saved was
\* refused; no dirty item is left out.
LEMMA TokenClean ==
    ASSUME ConstantsAssumption, IInv, TokenInv, Clean
    PROVE  TokenInv'
  <1>1. PICK b \in SUBSET UUID :
          /\ Transaction("clean", dirty, "saveItems", b)
          /\ flagged' = flagged \ b
          /\ db' = db
    BY DEF Clean
  <1>2. {"clean", "saveItems"} \subseteq Writing
    BY DEF Writing
  <1>3. /\ TokenFrame /\ b \subseteq dirty /\ pc = "clean"
        /\ \/ pc' = "saveItems" /\ done' = {} /\ done \cup b = dirty
           \/ pc' = "clean" /\ done' = done \cup b
    BY <1>1, <1>2, TokenTransaction
  <1>4. pc \in Writing /\ UNCHANGED <<server, got, sent, newToken, refused>>
    BY <1>3 DEF TokenFrame
  <1>5. ASSUME NEW t \in Horizons, NEW u \in b \cap Held(server), server[u].ts <= t, Current(u)
        PROVE  Current(u)'
    <2>1. ~server[u].del /\ u \in flagged => db[u].val \in refused
      BY <1>4, <1>5 DEF TokenInv, BasedRefused, Based, Held
    <2>2. QED
      BY <1>1, <1>4, <1>5, <2>1 DEF Current
  <1>6. /\ ClockInv' /\ KindsAgree' /\ BothCovered' /\ SavedNew' /\ GotCurrent'
        /\ AllRetrieved' /\ BasedRefused' /\ NoProtectedPushed'
    BY <1>1, <1>3, <1>5, TokenWrite
  <1>7. AllWritten'
    <2>1. \A u \in UUID : Written(u)'
      BY <1>3 DEF Written
    <2>2. QED
      BY <1>4, <2>1 DEF TokenInv, AllWritten, Held
  <1>8. AllCleaned'
    <2>1. flagged \cap done = {} /\ flagged \subseteq dirty
      BY <1>3 DEF TokenInv, AllCleaned, IInv, DirtyKnown
    <2>2. QED
      BY <1>1, <1>3, <2>1 DEF AllCleaned
  <1>9. QED
    BY <1>6, <1>7, <1>8 DEF TokenInv

\* The version of the server is written, with its transaction.
LEMMA TokenSaveItems ==
    ASSUME ConstantsAssumption, IInv, TokenInv, SaveItems
    PROVE  TokenInv'
  <1>1. PICK b \in SUBSET UUID :
          Transaction("saveItems", Live(got), "deleteItems", b) /\ Put(got, b)
    BY DEF SaveItems
  <1>2. {"saveItems", "deleteItems"} \subseteq Writing
    BY DEF Writing
  <1>3. /\ TokenFrame /\ b \subseteq Live(got) /\ pc = "saveItems"
        /\ \/ pc' = "deleteItems" /\ done' = {} /\ done \cup b = Live(got)
           \/ pc' = "saveItems" /\ done' = done \cup b
    BY <1>1, <1>2, TokenTransaction
  <1>4. /\ pc \in Writing /\ pc \notin Answering
        /\ UNCHANGED <<server, token, got, sent, newToken, refused>>
    BY <1>3, PhasesDistinct DEF TokenFrame, Answering
  <1>5. /\ flagged' = flagged \ b
        /\ \A u \in UUID \ b : db'[u] = db[u]
        /\ \A u \in b : db'[u] = got[u] /\ u \in Held(got) /\ ~got[u].del
    BY <1>1, <1>3 DEF Put, Store, Live
  <1>6. \A u \in b : /\ server[u] # None /\ got[u].kind = server[u].kind
                     /\ got[u] = server[u] \/ Later(u)
    BY <1>4, <1>5 DEF TokenInv, KindsAgree, GotCurrent
  <1>7. ASSUME NEW t \in Horizons, NEW u \in b \cap Held(server), server[u].ts <= t
        PROVE  Current(u)'
    <2>1. server[u].ts \in Nat /\ t \in Nat
      BY ItemFields DEF Held, Horizons, IInv, TypeOK
    <2>2. ~Later(u)
      BY <1>7, <2>1 DEF Later, Horizons
    <2>3. QED
      BY <1>4, <1>5, <1>6, <2>2 DEF Current
  <1>8. /\ ClockInv' /\ KindsAgree' /\ BothCovered' /\ SavedNew' /\ GotCurrent'
        /\ AllRetrieved' /\ BasedRefused' /\ NoProtectedPushed'
    BY <1>3, <1>5, <1>6, <1>7, TokenWrite
  <1>9. AllWritten'
    <2>1. ASSUME NEW u \in Held(server), got[u] = server[u], Written(u) PROVE Written(u)'
      <3>1. u \in UUID /\ got[u] # None
        BY <2>1 DEF Held
      <3>2. ~server[u].del => u \in Live(got)
        BY <2>1, <3>1 DEF Live, Held
      <3>3. CASE u \in b
        BY <1>3, <1>4, <1>5, <2>1, <3>3 DEF Written
      <3>4. CASE u \notin b
        BY <1>3, <1>4, <1>5, <2>1, <3>1, <3>2, <3>4 DEF Written
      <3>5. QED
        BY <3>3, <3>4
    <2>2. QED
      BY <1>4, <2>1 DEF TokenInv, AllWritten, Held
  <1>10. AllCleaned'
    BY <1>3, <1>5 DEF TokenInv, AllCleaned
  <1>11. QED
    BY <1>8, <1>9, <1>10 DEF TokenInv

\* What the server deleted is removed, unless it is protected.
LEMMA TokenDeleteItems ==
    ASSUME ConstantsAssumption, IInv, TokenInv, DeleteItems
    PROVE  TokenInv'
  <1>1. PICK b \in SUBSET UUID :
          Transaction("deleteItems", Removable(got), "dropToken", b) /\ Remove(b)
    BY DEF DeleteItems
  <1>2. {"deleteItems", "dropToken"} \subseteq Writing
    BY DEF Writing
  <1>3. /\ TokenFrame /\ b \subseteq Removable(got) /\ pc = "deleteItems"
        /\ \/ pc' = "dropToken" /\ done' = {} /\ done \cup b = Removable(got)
           \/ pc' = "deleteItems" /\ done' = done \cup b
    BY <1>1, <1>2, TokenTransaction
  <1>4. /\ pc \in Writing /\ pc \notin Answering
        /\ UNCHANGED <<server, token, got, sent, newToken, refused>>
    BY <1>3, PhasesDistinct DEF TokenFrame, Answering
  <1>5. /\ flagged' = flagged \ b
        /\ \A u \in UUID \ b : db'[u] = db[u]
        /\ \A u \in b : db'[u] = None /\ u \in Held(got) /\ got[u].del
    BY <1>1, <1>3 DEF Remove, Store, NoItems, Removable, Gone
  <1>6. \A u \in b : got[u] = server[u] \/ Later(u)
    BY <1>4, <1>5 DEF TokenInv, GotCurrent
  <1>7. ASSUME NEW t \in Horizons, NEW u \in b \cap Held(server), server[u].ts <= t
        PROVE  Current(u)'
    <2>1. server[u].ts \in Nat /\ t \in Nat
      BY ItemFields DEF Held, Horizons, IInv, TypeOK
    <2>2. ~Later(u)
      BY <1>7, <2>1 DEF Later, Horizons
    <2>3. QED
      BY <1>4, <1>5, <1>6, <2>2 DEF Current
  <1>8. /\ ClockInv' /\ KindsAgree' /\ BothCovered' /\ SavedNew' /\ GotCurrent'
        /\ AllRetrieved' /\ BasedRefused' /\ NoProtectedPushed'
    BY <1>3, <1>5, <1>7, TokenWrite
  <1>9. AllWritten'
    <2>1. ASSUME NEW u \in Held(server), got[u] = server[u], Written(u) PROVE Written(u)'
      <3>1. u \in UUID /\ got[u] # None
        BY <2>1 DEF Held
      <3>2. server[u].del /\ server[u].kind = "Note" => u \in Removable(got)
        BY <2>1, <3>1 DEF Removable, Gone, ProtectedDeletion, Held
      <3>3. CASE u \in b
        BY <1>4, <1>5, <2>1, <3>3 DEF Written
      <3>4. CASE u \notin b
        BY <1>3, <1>4, <1>5, <2>1, <3>1, <3>2, <3>4 DEF Written
      <3>5. QED
        BY <3>3, <3>4
    <2>2. QED
      BY <1>4, <2>1 DEF TokenInv, AllWritten, Held
  <1>10. AllCleaned'
    BY <1>3, <1>5 DEF TokenInv, AllCleaned
  <1>11. QED
    BY <1>8, <1>9, <1>10 DEF TokenInv

\* Between the two writes of the token the database has none.
LEMMA TokenDropToken ==
    ASSUME ConstantsAssumption, IInv, TokenInv, DropToken
    PROVE  TokenInv'
  <1>1. /\ pc = "dropToken" /\ pc' = "saveToken" /\ token' = 0
        /\ UNCHANGED <<db, flagged, server, clock, push, sent, answer, theirs, resolved, saved,
                       got, newToken, done, refused>>
    BY DEF DropToken, serverVars, history, mishaps
  <1>2. /\ clock \in Nat /\ token \in Nat /\ flagged \subseteq UUID
        /\ \A u \in Held(server) : server[u].ts \in Nat /\ 0 < server[u].ts
    BY ItemFields DEF IInv, TypeOK, TokenInv, ClockInv, Held
  <1>3. pc \in Writing /\ pc' \in Writing /\ pc' \notin Answering /\ pc \notin Answering
    BY <1>1, PhasesDistinct DEF Answering
  <1>4. \A u \in Held(server) : ~(server[u].ts <= 0)
    BY <1>2
  <1>5. ClockInv'
    BY <1>1, <1>2 DEF TokenInv, ClockInv, Held
  <1>6. KindsAgree'
    BY <1>1 DEF TokenInv, KindsAgree, Held
  <1>7. BothCovered'
    <2>1. ASSUME NEW u \in UUID, Current(u) PROVE Current(u)'
      BY <1>1, <2>1 DEF Current
    <2>2. QED
      BY <1>1, <1>4, <2>1 DEF TokenInv, BothCovered, CoveredTo, Horizons, Held
  <1>8. SavedNew'
    <2>1. \A u \in Held(saved) : server[u].ts > sent /\ server[u].ts > 0
      BY <1>2 DEF TokenInv, SavedNew, KindsAgree, Horizons, Held
    <2>2. QED
      BY <1>1, <1>3, <2>1 DEF SavedNew, Horizons, Held
  <1>9. GotCurrent'
    <2>1. ASSUME NEW u \in Held(server), Later(u) PROVE Later(u)'
      BY <1>1, <1>2, <2>1 DEF Later
    <2>2. QED
      BY <1>1, <1>3, <2>1 DEF TokenInv, GotCurrent, KindsAgree, Held
  <1>10. AllWritten'
    <2>1. ASSUME NEW u \in UUID, Written(u) PROVE Written(u)'
      BY <1>1, <2>1 DEF Written
    <2>2. QED
      BY <1>1, <1>3, <2>1 DEF TokenInv, AllWritten, Held
  <1>11. (AllRetrieved /\ AllCleaned)'
    BY <1>1, <1>3 DEF TokenInv, AllRetrieved, AllCleaned
  <1>12. BasedRefused'
    <2>1. ASSUME NEW u \in flagged, Based(u)' PROVE Based(u)
      BY <1>1, <1>2, <1>4, <2>1 DEF Based, Horizons, Held
    <2>2. QED
      BY <1>1, <1>3, <2>1 DEF TokenInv, BasedRefused, Answering
  <1>13. NoProtectedPushed'
    BY <1>1, <1>3 DEF TokenInv, NoProtectedPushed, Held, Answering
  <1>14. QED
    BY <1>5, <1>6, <1>7, <1>8, <1>9, <1>10, <1>11, <1>12, <1>13 DEF TokenInv

\* A sync that ends has nothing in hand: what is left to show is that the token
\* it leaves behind is covered.
LEMMA TokenIdle ==
    ASSUME ConstantsAssumption, IInv, TokenInv, Idle, UNCHANGED <<db, server, clock>>,
           token' \in Nat, token' <= clock, BothCovered'
    PROVE  TokenInv'
  <1>1. /\ pc' = "idle" /\ sent' = 0 /\ newToken' = 0
        /\ Held(saved') = {} /\ Held(got') = {} /\ Held(theirs') = {}
    BY NoItemsType DEF Idle
  <1>2. pc' \notin Writing /\ pc' \notin Answering /\ clock \in Nat
    BY <1>1, PhasesDistinct DEF Answering, IInv, TypeOK
  <1>3. ClockInv'
    BY <1>1, <1>2 DEF TokenInv, ClockInv, Held
  <1>4. KindsAgree'
    BY <1>1 DEF TokenInv, KindsAgree, Held
  <1>5. (SavedNew /\ GotCurrent /\ AllRetrieved /\ AllWritten /\ BasedRefused /\ AllCleaned)'
    BY <1>1, <1>2
    DEF SavedNew, GotCurrent, AllRetrieved, AllWritten, BasedRefused, AllCleaned
  <1>6. NoProtectedPushed'
    BY <1>1, <1>2 DEF TokenInv, NoProtectedPushed, Held
  <1>7. QED
    BY <1>3, <1>4, <1>5, <1>6 DEF TokenInv

\* Every version up to the token that is saved has been written by then.
LEMMA TokenSaveToken ==
    ASSUME ConstantsAssumption, IInv, TokenInv, SaveToken
    PROVE  TokenInv'
  <1>1. /\ pc = "saveToken" /\ token' = newToken /\ Idle
        /\ UNCHANGED <<db, flagged, server, clock, refused>>
    BY DEF SaveToken, serverVars, history, mishaps
  <1>2. sent' = 0 /\ newToken \in Nat /\ newToken <= clock /\ pc \in Writing
    BY <1>1, PhasesDistinct DEF Idle, IInv, TypeOK, TokenInv, ClockInv
  <1>3. ASSUME NEW u \in Held(server), server[u].ts <= newToken PROVE Current(u)
    <2>1. CASE server[u].ts <= sent
      BY <2>1 DEF TokenInv, BothCovered, CoveredTo, Horizons
    <2>2. CASE got[u] = server[u] /\ Written(u)
      <3>1. ~server[u].del => db[u] = server[u]
        BY <1>1, <2>2 DEF Written
      <3>2. server[u].del /\ server[u].kind = "Note" => db[u] = None
        BY <1>1, <2>2 DEF Written
      <3>3. db[u] # None => db[u].kind = server[u].kind
        BY DEF TokenInv, KindsAgree, Held
      <3>4. server[u] # None
        BY DEF Held
      <3>5. QED
        BY <3>1, <3>2, <3>3, <3>4 DEF Current
    <2>3. QED
      BY <1>2, <1>3, <2>1, <2>2 DEF TokenInv, AllWritten
  <1>4. \A u \in Held(server) : ~(server[u].ts <= 0)
    BY ItemFields DEF IInv, TypeOK, TokenInv, ClockInv, Held
  <1>5. BothCovered'
    <2>1. ASSUME NEW u \in UUID, Current(u) PROVE Current(u)'
      BY <1>1, <2>1 DEF Current
    <2>2. QED
      BY <1>1, <1>2, <1>3, <1>4, <2>1 DEF BothCovered, CoveredTo, Horizons, Held
  <1>6. QED
    BY <1>1, <1>2, <1>5, TokenIdle

\* A crash, or an error, leaves the token of the last sync that ended, or none.
LEMMA TokenAbort ==
    ASSUME ConstantsAssumption, IInv, TokenInv, Abort
    PROVE  TokenInv'
  <1>1. Idle /\ UNCHANGED <<db, flagged, token, server, clock, refused>>
    BY DEF Abort, dbVars, serverVars
  <1>2. sent' = 0 /\ token \in Nat /\ token <= clock
    BY <1>1 DEF Idle, IInv, TypeOK, TokenInv, ClockInv
  <1>3. \A u \in Held(server) : ~(server[u].ts <= 0)
    BY ItemFields DEF IInv, TypeOK, TokenInv, ClockInv, Held
  <1>4. BothCovered'
    <2>1. ASSUME NEW u \in UUID, Current(u) PROVE Current(u)'
      BY <1>1, <2>1 DEF Current
    <2>2. QED
      BY <1>1, <1>2, <1>3, <2>1 DEF TokenInv, BothCovered, CoveredTo, Horizons, Held
  <1>5. QED
    BY <1>1, <1>2, <1>4, TokenIdle

---------------------------------------------------------------------------
(* Every step, and what follows. *)

\* Edits change neither the kind of an item nor the version it is based on.
LEMMA TokenEdits ==
    ASSUME ConstantsAssumption, IInv, TokenInv, Application \/ OtherClients
    PROVE  TokenInv'
  <1>1. TypeOK /\ db \in ItemMap /\ server \in ItemMap
    BY DEF IInv, TypeOK
  <1>2. ASSUME NEW u \in UUID, NEW k \in CreatedKinds, Create(u, k) PROVE TokenInv'
    BY <1>1, <1>2, CreatedItemType, TokenSaveLocally DEF Create, Fresh
  <1>3. ASSUME NEW u \in UUID, Edit(u) \/ Delete(u) PROVE TokenInv'
    <2> DEFINE edited == [db[u] EXCEPT !.val = edits + 1]
               deleted == [db[u] EXCEPT !.val = edits + 1, !.del = TRUE]
    <2>1. u \in Held(db) /\ db[u] \in Item
      BY <1>1, <1>3, ItemFields DEF Edit, Delete, Held
    <2>2. edited \in Item /\ deleted \in Item
      BY <1>1, <2>1, EditedItemType
    <2>3. /\ edited.kind = db[u].kind /\ edited.ts = db[u].ts
          /\ deleted.kind = db[u].kind /\ deleted.ts = db[u].ts
      BY <2>1 DEF Item
    <2>4. SaveLocally(u, edited) \/ SaveLocally(u, deleted)
      BY <1>3 DEF Edit, Delete
    <2> HIDE DEF edited, deleted
    <2>5. QED
      BY <2>1, <2>2, <2>3, <2>4, TokenSaveLocally DEF Held
  <1>4. ASSUME NEW u \in UUID, NEW k \in CreatedKinds, RemoteCreate(u, k) PROVE TokenInv'
    BY <1>1, <1>4, CreatedItemType, TokenStoreRemotely DEF RemoteCreate, Fresh
  <1>5. ASSUME NEW u \in UUID, RemoteEdit(u) \/ RemoteDelete(u) PROVE TokenInv'
    <2> DEFINE edited == [server[u] EXCEPT !.val = edits + 1]
               deleted == [server[u] EXCEPT !.val = edits + 1, !.del = TRUE]
    <2>1. u \in Held(server) /\ server[u] \in Item /\ ~server[u].del
      BY <1>1, <1>5, ItemFields DEF RemoteEdit, RemoteDelete, Held
    <2>2. edited \in Item /\ deleted \in Item
      BY <1>1, <2>1, EditedItemType
    <2>3. edited.kind = server[u].kind /\ deleted.kind = server[u].kind
      BY <2>1 DEF Item
    <2>4. StoreRemotely(u, edited) \/ StoreRemotely(u, deleted)
      BY <1>5 DEF RemoteEdit, RemoteDelete
    <2> HIDE DEF edited, deleted
    <2>5. QED
      BY <2>1, <2>2, <2>3, <2>4, TokenStoreRemotely DEF Held
  <1>6. QED
    BY <1>2, <1>3, <1>4, <1>5 DEF Application, OtherClients

\* Every step keeps TokenInv.
LEMMA TokenInvStep ==
    ASSUME ConstantsAssumption, IInv, TokenInv, [Next]_vars
    PROVE  TokenInv'
  <1>1. CASE \E age \in Ages : Begin(age)
    BY <1>1, TokenBegin
  <1>2. CASE UNCHANGED vars
    BY <1>2
    DEF vars, dbVars, serverVars, runVars, history, mishaps, TokenInv, ClockInv, KindsAgree,
        BothCovered, CoveredTo, Current, Horizons, Later, SavedNew, GotCurrent,
        AllRetrieved, AllWritten, Written, BasedRefused, Based, AllCleaned,
        NoProtectedPushed, Held
  <1>3. QED
    BY <1>1, <1>2, TokenEdits, TokenExchange, TokenNoConflict, TokenResolve,
       TokenAllSkipped, TokenResync, TokenSavedWrite, TokenClean, TokenSaveItems,
       TokenDeleteItems, TokenDropToken, TokenSaveToken, TokenAbort
    DEF Next, SyncStep

\* At first the database is empty and has no token.
LEMMA TokenInit == ASSUME ConstantsAssumption, Init PROVE TokenInv
  <1>1. /\ db = NoItems /\ flagged = {} /\ token = 0 /\ server = InitialItems /\ clock = 1
        /\ pc = "idle" /\ sent = 0 /\ newToken = 0
        /\ theirs = NoItems /\ saved = NoItems /\ got = NoItems
    BY DEF Init
  <1>2. Held(db) = {} /\ Held(theirs) = {} /\ Held(saved) = {} /\ Held(got) = {}
    BY <1>1, NoItemsType
  <1>3. \A u \in Held(server) : server[u].ts = 1
    BY <1>1 DEF ConstantsAssumption, Held
  <1>4. pc \notin Writing /\ pc \notin Answering /\ pc \notin {"exchange", "resolve", "resync"}
    BY <1>1, PhasesDistinct DEF Answering
  <1>5. ClockInv
    BY <1>1, <1>3 DEF ClockInv
  <1>6. KindsAgree
    BY <1>2, <1>4 DEF KindsAgree
  <1>7. BothCovered
    BY <1>1, <1>3 DEF BothCovered, CoveredTo, Horizons
  <1>8. (SavedNew /\ GotCurrent /\ AllRetrieved /\ AllWritten /\ BasedRefused /\ AllCleaned)
    BY <1>1, <1>2, <1>4
    DEF SavedNew, GotCurrent, AllRetrieved, AllWritten, BasedRefused, AllCleaned
  <1>9. NoProtectedPushed
    BY <1>2, <1>4 DEF NoProtectedPushed
  <1>10. QED
    BY <1>5, <1>6, <1>7, <1>8, <1>9 DEF TokenInv

\* Whatever the interleaving of edits, other clients, crashes and lost answers,
\* what a sync has in hand agrees with the versions on the server.
THEOREM TokenInductive == Spec => []TokenInv
  <1>1. Init => TokenInv
    BY ConstantsAssumption, TokenInit
  <1>2. IInv /\ TokenInv /\ [Next]_vars => TokenInv'
    BY ConstantsAssumption, TokenInvStep
  <1>3. QED
    BY <1>1, <1>2, Inductive, PTL DEF Spec

\* In every reachable state both hold: no edit is out of hand, and no version.
THEOREM SyncInductive == Spec => []SyncInv
  <1>1. IInv /\ TokenInv => SyncInv
    BY DEF SyncInv
  <1>2. QED
    BY <1>1, Inductive, TokenInductive, PTL

\* The saved sync token covers every version up to it: an incremental sync that
\* starts from it (cache.Sync reads it from the SyncToken bucket) misses nothing.
THEOREM TokenCoversAll == Spec => []TokenCovers
  <1>1. ASSUME IInv, TokenInv PROVE TokenCovers
    <2>1. SUFFICES ASSUME NEW u \in Held(server), server[u].ts <= token
                   PROVE  \/ u \in flagged
                          \/ /\ server[u].del
                             /\ db[u] = None \/ db[u].kind \in {"ItemsKey", "UserPreferences"}
                          \/ /\ ~server[u].del
                             /\ db[u] # None
                             /\ db[u].val \in refused \/ db[u] = server[u]
      BY DEF TokenCovers
    <2>2. Current(u)
      BY <1>1, <2>1 DEF TokenInv, BothCovered, CoveredTo, Horizons
    <2>3. db[u] # None => db[u].kind \in {"Note", "ItemsKey", "UserPreferences"}
      BY <1>1, <2>1 DEF IInv, TypeOK, ItemMap, Item, Kinds, Held
    <2>4. QED
      BY <1>1, <2>2, <2>3 DEF Current
  <1>2. QED
    BY <1>1, Inductive, TokenInductive, PTL

---------------------------------------------------------------------------
(* Items keys and preferences are kept. *)

\* An edit deletes no protected item, and moves no sync on.
LEMMA ProtectedEdits ==
    ASSUME ConstantsAssumption, IInv, TokenInv, Application \/ OtherClients
    PROVE  DatabaseKept /\ pc' = pc
  <1>1. db \in ItemMap
    BY DEF IInv, TypeOK
  <1>2. pc' = pc
    BY DEF Application, OtherClients, Create, Edit, Delete, RemoteCreate, RemoteEdit,
           RemoteDelete, SaveLocally, StoreRemotely, runVars
  <1>3. CASE OtherClients
    <2>1. db' = db
      BY <1>3 DEF OtherClients, RemoteCreate, RemoteEdit, RemoteDelete, StoreRemotely, dbVars
    <2>2. QED
      BY <1>2, <2>1 DEF DatabaseKept, TokenInv, NoProtectedPushed, Held
  <1>4. ASSUME NEW u \in UUID, NEW i \in Item, SaveLocally(u, i),
               db[u] # None => i.kind = db[u].kind
        PROVE  DatabaseKept
    <2>1. db' = [db EXCEPT ![u] = i] /\ ~ProtectedDeletion(i) /\ i # None
      BY <1>4 DEF SaveLocally, ConstantsAssumption
    <2>2. i.kind # "Note" => ~i.del
      BY <2>1 DEF ProtectedDeletion, Item, Kinds
    <2>3. QED
      BY <1>1, <1>4, <2>1, <2>2 DEF DatabaseKept, TokenInv, NoProtectedPushed, ItemMap, Held
  <1>5. ASSUME NEW u \in UUID, NEW k \in CreatedKinds, Create(u, k) PROVE DatabaseKept
    BY <1>4, <1>5, CreatedItemType DEF Create, Fresh, IInv
  <1>6. ASSUME NEW u \in UUID, Edit(u) \/ Delete(u) PROVE DatabaseKept
    <2> DEFINE edited == [db[u] EXCEPT !.val = edits + 1]
               deleted == [db[u] EXCEPT !.val = edits + 1, !.del = TRUE]
    <2>1. u \in Held(db) /\ db[u] \in Item
      BY <1>1, <1>6, ItemFields DEF Edit, Delete, Held
    <2>2. edited \in Item /\ deleted \in Item
      BY <1>1, <2>1, EditedItemType DEF IInv
    <2>3. edited.kind = db[u].kind /\ deleted.kind = db[u].kind
      BY <2>1 DEF Item
    <2>4. SaveLocally(u, edited) \/ SaveLocally(u, deleted)
      BY <1>6 DEF Edit, Delete
    <2> HIDE DEF edited, deleted
    <2>5. QED
      BY <1>4, <2>2, <2>3, <2>4
  <1>7. QED
    BY <1>2, <1>3, <1>5, <1>6 DEF Application

\* A write puts live items, and removes only what is not protected.
LEMMA ProtectedWrites ==
    ASSUME ConstantsAssumption, IInv, TokenInv,
           SaveSaved \/ DeleteSaved \/ Clean \/ SaveItems \/ DeleteItems
    PROVE  DatabaseKept /\ server' = server
  <1>1. server' = server
    BY DEF SaveSaved, DeleteSaved, Clean, SaveItems, DeleteItems, Transaction, serverVars
  <1>2. \A u \in Held(db) : db[u].kind # "Note" => ~db[u].del
    BY DEF TokenInv, NoProtectedPushed
  <1>3. \A u \in UUID : db[u] # None =>
          /\ saved[u] # None => saved[u].kind = db[u].kind
          /\ got[u] # None => got[u].kind = db[u].kind
    BY DEF TokenInv, KindsAgree, Held
  <1>4. \A u \in UUID : db[u] # None /\ db[u].kind # "Note"
                        => db[u].kind \in {"ItemsKey", "UserPreferences"}
    BY DEF IInv, TypeOK, ItemMap, Item, Kinds
  <1>5. CASE SaveSaved
    <2>1. PICK b \in SUBSET UUID :
            Transaction("saveSaved", Live(saved), "deleteSaved", b) /\ Put(saved, b)
      BY <1>5 DEF SaveSaved
    <2>2. QED
      BY <1>1, <1>2, <2>1 DEF Transaction, Batches, Put, Store, Live, DatabaseKept, Held
  <1>6. CASE DeleteSaved
    <2>1. PICK b \in SUBSET UUID :
            Transaction("deleteSaved", Removable(saved), "clean", b) /\ Remove(b)
      BY <1>6 DEF DeleteSaved
    <2>2. QED
      BY <1>1, <1>2, <1>3, <1>4, <2>1
      DEF Transaction, Batches, Remove, Store, NoItems, Removable, Gone, ProtectedDeletion,
          DatabaseKept, Held
  <1>7. CASE SaveItems
    <2>1. PICK b \in SUBSET UUID :
            Transaction("saveItems", Live(got), "deleteItems", b) /\ Put(got, b)
      BY <1>7 DEF SaveItems
    <2>2. QED
      BY <1>1, <1>2, <2>1 DEF Transaction, Batches, Put, Store, Live, DatabaseKept, Held
  <1>8. CASE DeleteItems
    <2>1. PICK b \in SUBSET UUID :
            Transaction("deleteItems", Removable(got), "dropToken", b) /\ Remove(b)
      BY <1>8 DEF DeleteItems
    <2>2. QED
      BY <1>1, <1>2, <1>3, <1>4, <2>1
      DEF Transaction, Batches, Remove, Store, NoItems, Removable, Gone, ProtectedDeletion,
          DatabaseKept, Held
  <1>9. CASE Clean
    BY <1>1, <1>2, <1>9 DEF Clean, DatabaseKept, Held
  <1>10. QED
    BY <1>5, <1>6, <1>7, <1>8, <1>9

\* A push deletes nothing protected that the server still has.
LEMMA ProtectedPush ==
    ASSUME ConstantsAssumption, IInv, TokenInv, Exchange \/ Resync
    PROVE  ServerKept
  <1>1. TypeOK /\ push \in ItemMap /\ resolved \in ItemMap /\ server \in ItemMap
    BY DEF IInv, TypeOK
  <1>2. \A u \in UUID : server[u] # None /\ server[u].kind # "Note"
                        => server[u].kind \in {"ItemsKey", "UserPreferences"}
    BY <1>1 DEF ItemMap, Item, Kinds
  <1>3. ASSUME NEW p \in ItemMap, NEW a \in Replies(p), ServerStores(p, a),
               \A u \in Held(p) : server[u] # None =>
                  p[u].kind = server[u].kind /\ (ProtectedDeletion(p[u]) => server[u].del)
        PROVE  ServerKept
    <2>1. /\ SavedIn(a) \subseteq Held(p)
          /\ \A u \in UUID \ SavedIn(a) : server'[u] = server[u]
          /\ \A u \in SavedIn(a) : server'[u].del = p[u].del
      BY <1>1, <1>3, ServerAfter
    <2>2. QED
      BY <1>2, <1>3, <2>1, ItemFields, <1>1 DEF ServerKept, ProtectedDeletion, Held
  <1>4. CASE Exchange
    <2>1. PICK a \in Replies(push) : ServerStores(push, a)
      BY <1>4 DEF Exchange
    <2>2. pc = "exchange"
      BY <1>4 DEF Exchange
    <2>3. \A u \in Held(push) : ~ProtectedDeletion(push[u]) /\ push[u] = db[u] /\ push[u] # None
      BY <2>2 DEF TokenInv, NoProtectedPushed, IInv, PushCurrent, Held
    <2>4. \A u \in Held(push) : server[u] # None => push[u].kind = server[u].kind
      BY <2>3 DEF TokenInv, KindsAgree, Held
    <2>5. QED
      BY <1>1, <1>3, <2>1, <2>3, <2>4
  <1>5. CASE Resync
    <2>1. PICK a \in Replies(resolved) : ServerStores(resolved, a)
      BY <1>5 DEF Resync
    <2>2. pc = "resync"
      BY <1>5 DEF Resync
    <2>3. \A u \in Held(resolved) : server[u] # None =>
            /\ resolved[u].kind = server[u].kind
            /\ ProtectedDeletion(resolved[u]) => server[u].del
      BY <2>2 DEF TokenInv, NoProtectedPushed, KindsAgree
    <2>4. QED
      BY <1>1, <1>3, <2>1, <2>3
  <1>6. QED
    BY <1>4, <1>5

\* Items keys and preferences never leave the database, and no step of the sync
\* deletes one on the server: cache.Sync drops such deletions before the push,
\* before a removal and in SaveItems.
THEOREM ProtectedAreKept == Spec => ProtectedKept
  <1> DEFINE Kept == DatabaseKept /\ (pc' # pc => ServerKept)
  <1>1. ASSUME IInv, TokenInv, Next PROVE Kept
    <2>1. \A u \in Held(db) : db[u].kind # "Note" => ~db[u].del
      BY <1>1 DEF TokenInv, NoProtectedPushed
    <2>2. CASE Application \/ OtherClients
      BY <1>1, <2>2, ConstantsAssumption, ProtectedEdits
    <2>3. CASE SaveSaved \/ DeleteSaved \/ Clean \/ SaveItems \/ DeleteItems
      BY <1>1, <2>3, ConstantsAssumption, ProtectedWrites DEF ServerKept
    <2>4. CASE Exchange \/ Resync
      <3>1. db' = db
        BY <2>4 DEF Exchange, Resync, dbVars
      <3>2. QED
        BY <1>1, <2>1, <2>4, <3>1, ConstantsAssumption, ProtectedPush DEF DatabaseKept, Held
    <2>5. CASE \/ \E age \in Ages : Begin(age)
               \/ NoConflict \/ Resolve \/ AllSkipped \/ DropToken \/ SaveToken \/ Abort
      <3>1. db' = db /\ server' = server
        BY <2>5 DEF Begin, NoConflict, Resolve, AllSkipped, DropToken, SaveToken, Abort,
                    dbVars, serverVars
      <3>2. QED
        BY <2>1, <3>1 DEF DatabaseKept, ServerKept, Held
    <2>6. QED
      BY <1>1, <2>2, <2>3, <2>4, <2>5 DEF Next, SyncStep
  <1>2. IInv /\ TokenInv /\ [Next]_vars => [Kept]_vars
    BY <1>1
  <1>3. QED
    BY <1>2, Inductive, TokenInductive, PTL DEF Spec, ProtectedKept

---------------------------------------------------------------------------
(* No spurious duplicates: the server answers saved or sync_conflict.        *)

\* An edit here keeps the base; an edit by another client disturbs the item.
LEMMA DuplicateEdits ==
    ASSUME ConstantsAssumption, IInv, DuplicateInv, Application \/ OtherClients
    PROVE  DuplicateInv'
  <1>1. db \in ItemMap /\ server \in ItemMap /\ TypeOK
    BY DEF IInv, TypeOK
  <1>2. ASSUME NEW u \in UUID, NEW i \in Item, SaveLocally(u, i),
               IF db[u] = None THEN server[u] = None ELSE i.ts = db[u].ts
        PROVE  DuplicateInv'
    <2>1. /\ pc = "idle" /\ pc' = "idle" /\ db' = [db EXCEPT ![u] = i]
          /\ UNCHANGED <<server, saved, got, done, copyOf, disturbed>>
      BY <1>2 DEF SaveLocally, serverVars, runVars, mishaps
    <2>2. Held(saved) = {} /\ Held(got) = {} /\ pc \notin Writing /\ pc \notin Answering
      BY <2>1, PhasesDistinct DEF DuplicateInv, NothingAnswered, Answering
    <2>3. BasesKnown'
      BY <1>1, <1>2, <2>1, <2>2 DEF DuplicateInv, BasesKnown, Agreed, Unwritten, ItemMap
    <2>4. QED
      BY <2>1, <2>2, <2>3
      DEF DuplicateInv, NothingAnswered, StampsKnown, ConflictsDisturbed,
          NoSpuriousDuplicate, Held
  <1>3. ASSUME NEW u \in UUID, NEW i \in Item, StoreRemotely(u, i),
               server[u] = None => resolved[u] = None
        PROVE  DuplicateInv'
    <2>1. /\ server' = [server EXCEPT ![u] = [i EXCEPT !.ts = clock + 1]]
          /\ disturbed' = disturbed \cup {u}
          /\ UNCHANGED <<db, pc, push, answer, resolved, saved, got, done, copyOf>>
      BY <1>3 DEF StoreRemotely, dbVars, runVars
    <2>2. \A w \in UUID \ disturbed' : w \notin disturbed /\ server'[w] = server[w]
      BY <1>1, <2>1 DEF ItemMap
    <2>3. QED
      BY <2>1, <2>2
      DEF DuplicateInv, NothingAnswered, BasesKnown, Agreed, Unwritten, StampsKnown,
          ConflictsDisturbed, Conflicts, NoSpuriousDuplicate, Held
  <1>4. ASSUME NEW u \in UUID, NEW k \in CreatedKinds, Create(u, k) PROVE DuplicateInv'
    BY <1>1, <1>2, <1>4, CreatedItemType DEF Create, Fresh
  <1>5. ASSUME NEW u \in UUID, Edit(u) \/ Delete(u) PROVE DuplicateInv'
    <2> DEFINE edited == [db[u] EXCEPT !.val = edits + 1]
               deleted == [db[u] EXCEPT !.val = edits + 1, !.del = TRUE]
    <2>1. u \in Held(db) /\ db[u] \in Item
      BY <1>1, <1>5, ItemFields DEF Edit, Delete, Held
    <2>2. edited \in Item /\ deleted \in Item
      BY <1>1, <2>1, EditedItemType
    <2>3. edited.ts = db[u].ts /\ deleted.ts = db[u].ts
      BY <2>1 DEF Item
    <2>4. SaveLocally(u, edited) \/ SaveLocally(u, deleted)
      BY <1>5 DEF Edit, Delete
    <2> HIDE DEF edited, deleted
    <2>5. QED
      BY <1>2, <2>1, <2>2, <2>3, <2>4 DEF Held
  <1>6. ASSUME NEW u \in UUID, NEW k \in CreatedKinds, RemoteCreate(u, k) PROVE DuplicateInv'
    BY <1>1, <1>3, <1>6, CreatedItemType DEF RemoteCreate, Fresh
  <1>7. ASSUME NEW u \in UUID, RemoteEdit(u) \/ RemoteDelete(u) PROVE DuplicateInv'
    <2> DEFINE edited == [server[u] EXCEPT !.val = edits + 1]
               deleted == [server[u] EXCEPT !.val = edits + 1, !.del = TRUE]
    <2>1. u \in Held(server) /\ server[u] # None
      BY <1>7 DEF RemoteEdit, RemoteDelete, Held
    <2>2. edited \in Item /\ deleted \in Item
      BY <1>1, <2>1, EditedItemType
    <2>3. StoreRemotely(u, edited) \/ StoreRemotely(u, deleted)
      BY <1>7 DEF RemoteEdit, RemoteDelete
    <2> HIDE DEF edited, deleted
    <2>4. QED
      BY <1>3, <2>1, <2>2, <2>3
  <1>8. QED
    BY <1>4, <1>5, <1>6, <1>7 DEF Application, OtherClients

\* Only a disturbed item can be stale, so conflicts are about disturbed items.
LEMMA DuplicateExchange ==
    ASSUME ConstantsAssumption, Refusals = {}, IInv, TokenInv, DuplicateInv, Exchange
    PROVE  DuplicateInv'
  <1>1. PICK a, drop, redo, own : FirstExchange(a, drop, redo, own)
    BY ExchangeSplit
  <1>2. /\ pc = "exchange" /\ pc' = "resolve"
        /\ disturbed' = disturbed \cup drop \cup redo \cup own
        /\ answer' = Reported(a, drop, redo \cup own)
        /\ Exchanged(push, sent, a, drop, redo, own) /\ ServerStores(push, a)
        /\ UNCHANGED <<db, push, resolved, done, copyOf>>
    BY <1>1 DEF FirstExchange, Exchanged
  <1>3. TypeOK /\ push \in ItemMap /\ server \in ItemMap /\ clock \in Nat
    BY DEF IInv, TypeOK
  <1>4. pc \notin Writing /\ pc' \notin Writing /\ pc' \in Answering /\ pc \notin Answering
    BY <1>2, PhasesDistinct DEF Answering
  <1> DEFINE S == SavedIn(a)
  <1>5. /\ a \in Replies(push) /\ DOMAIN a = Held(push) /\ S \subseteq Held(push)
        /\ redo \subseteq S /\ own \subseteq S
    BY <1>2, <1>3, ExchangedShape
  <1>6. /\ \A u \in UUID \ S : server'[u] = server[u]
        /\ \A u \in S : /\ server'[u] # None /\ server'[u].ts = clock + 1
                        /\ server'[u].kind = push[u].kind /\ server'[u].del = push[u].del
    BY <1>2, <1>3, <1>5, ServerAfter
  <1>7. ASSUME NEW u \in Held(push), u \notin S
        PROVE  a[u] = "sync_conflict" /\ u \in disturbed
    <2>1. u \in UUID /\ push[u] = db[u] /\ push[u] # None
      BY <1>2, <1>7 DEF IInv, PushCurrent, Held
    <2>2. a[u] = "sync_conflict" /\ Stale(push[u], u)
      BY <1>5, <1>7 DEF SavedIn, Replies
    <2>3. ~Agreed(u)
      BY <2>1, <2>2 DEF Stale, Agreed
    <2>4. QED
      BY <1>2, <1>4, <2>1, <2>2, <2>3 DEF DuplicateInv, BasesKnown, Unwritten
  <1>8. \A u \in UUID \ disturbed : Agreed(u)
    BY <1>2, <1>4 DEF DuplicateInv, BasesKnown, Unwritten
  <1>9. ASSUME NEW u \in UUID
        PROVE  /\ saved'[u] # None => u \in S /\ saved'[u] = server'[u]
               /\ u \in S /\ u \notin disturbed' => saved'[u] = server'[u]
               /\ u \notin disturbed' => got'[u] = None \/ got'[u] = server[u]
    <2>1. /\ saved'[u] = IF u \in S \ (drop \cup redo) THEN server'[u] ELSE None
          /\ u \notin drop \cup redo => got'[u] = None \/ got'[u] = server[u]
      BY <1>1, <1>3, FirstExchangeAt
    <2>2. QED
      BY <1>2, <2>1
  <1> HIDE DEF S
  <1>10. NothingAnswered'
    BY <1>2, <1>4 DEF DuplicateInv, NothingAnswered
  <1>11. BasesKnown'
    <2>1. ASSUME NEW u \in UUID \ disturbed' PROVE Agreed(u)' \/ Unwritten(u)'
      <3>1. u \notin disturbed
        BY <1>2, <2>1
      <3>2. CASE u \in S
        BY <1>4, <1>6, <1>9, <2>1, <3>2 DEF Unwritten
      <3>3. CASE u \notin S
        BY <1>2, <1>6, <1>8, <2>1, <3>1, <3>3 DEF Agreed
      <3>4. QED
        BY <3>2, <3>3
    <2>2. QED
      BY <2>1 DEF BasesKnown
  <1>12. StampsKnown'
    <2>1. \A u \in Held(push) : ~ProtectedDeletion(push[u])
      BY <1>2 DEF TokenInv, NoProtectedPushed
    <2>2. ASSUME NEW u \in Held(saved')
          PROVE  /\ push'[u] # None /\ ~ProtectedDeletion(saved'[u])
                 /\ saved'[u].ts = server'[u].ts
      <3>1. u \in S /\ saved'[u] = server'[u]
        BY <1>9, <2>2 DEF Held
      <3>2. u \in Held(push) /\ push'[u] # None
        BY <1>2, <1>5, <3>1 DEF Held, S
      <3>3. QED
        BY <1>6, <2>1, <3>1, <3>2 DEF ProtectedDeletion
    <2>3. ASSUME NEW u \in Held(got') \ disturbed'
          PROVE  \/ got'[u].ts = server'[u].ts
                 \/ saved'[u] # None /\ got'[u].ts < saved'[u].ts
      <3>1. u \in UUID /\ got'[u] = server[u] /\ server[u] # None
        BY <1>9, <2>3 DEF Held
      <3>2. CASE u \notin S
        BY <1>6, <3>1, <3>2
      <3>3. CASE u \in S
        <4>1. server[u].ts \in Nat /\ server[u].ts <= clock
          BY <1>3, <3>1, ItemFields DEF TokenInv, ClockInv, Held
        <4>2. saved'[u] = server'[u] /\ saved'[u] # None /\ saved'[u].ts = clock + 1
          BY <1>6, <1>9, <2>3, <3>1, <3>3
        <4>3. QED
          BY <1>3, <3>1, <4>1, <4>2
      <3>4. QED
        BY <3>2, <3>3
    <2>4. QED
      BY <1>4, <2>2, <2>3 DEF StampsKnown
  <1>13. ConflictsDisturbed'
    <2>1. ASSUME NEW u \in Conflicts' PROVE answer'[u] = "sync_conflict" /\ u \in disturbed'
      <3>1. u \in Held(push) \ drop
        BY <1>2, <1>5, <2>1 DEF Conflicts, Reported
      <3>2. CASE u \in redo \cup own
        BY <1>2, <3>1, <3>2, <2>1 DEF Conflicts, Reported
      <3>3. CASE u \notin redo \cup own
        <4>1. answer'[u] = a[u]
          BY <1>2, <1>5, <2>1, <3>1, <3>3 DEF Conflicts, Reported
        <4>2. u \notin S
          BY <2>1, <4>1 DEF Conflicts, S, SavedIn
        <4>3. QED
          BY <1>2, <1>7, <3>1, <4>1, <4>2
      <3>4. QED
        BY <3>2, <3>3
    <2>2. QED
      BY <1>2, <2>1 DEF ConflictsDisturbed
  <1>14. NoSpuriousDuplicate'
    BY <1>2 DEF DuplicateInv, NoSpuriousDuplicate
  <1>15. QED
    BY <1>10, <1>11, <1>12, <1>13, <1>14 DEF DuplicateInv

\* A conflict of such a server is always resolved: nothing is skipped.
LEMMA NothingSkipped ==
    ASSUME ConstantsAssumption, IInv, DuplicateInv
    PROVE  ~AllSkipped
  <1>1. SUFFICES ASSUME AllSkipped PROVE FALSE
    OBVIOUS
  <1>2. /\ pc = "resolve" /\ Conflicts # {}
        /\ \A u \in Conflicts : ~Duplicated(u) /\ Resolution(u) = None
    BY <1>1 DEF AllSkipped
  <1>3. PICK u \in Conflicts : TRUE
    BY <1>2
  <1>4. answer[u] = "sync_conflict" /\ push[u] # None /\ theirs[u] # None
    BY <1>2, <1>3 DEF DuplicateInv, ConflictsDisturbed, IInv, ConflictsKnown
  <1>5. u \in GivenUp
    BY <1>2, <1>3, ConflictOutcome DEF IInv, ConstantsAssumption
  <1>6. ~LocalWins(u) /\ ~DeletionWins(u) /\ ~Duplicated(u)
    BY <1>5, Zenon DEF GivenUp
  <1>7. ServerWins(u)
    BY <1>4, <1>6 DEF DeletionWins, Duplicated
  <1>8. Resolution(u) = theirs[u]
    BY <1>3, <1>7, Zenon DEF Resolution
  <1>9. QED
    BY <1>2, <1>4, <1>8

\* A duplicate is made of a conflict, and everything else that is pushed again is
\* in conflict too.
LEMMA DuplicateResolve ==
    ASSUME ConstantsAssumption, IInv, TokenInv, DuplicateInv, Resolve
    PROVE  DuplicateInv'
  <1> DEFINE dups == {u \in Conflicts : Duplicated(u)}
  <1>1. PICK name \in [dups -> Fresh] :
          LET named == {name[u] : u \in dups}
              origin(n) == CHOOSE u \in dups : name[u] = n
              next == [u \in UUID |-> IF u \in named THEN push[origin(u)] ELSE Resolution(u)]
          IN /\ \A u, v \in dups : name[u] = name[v] => u = v
             /\ Held(next) # {}
             /\ resolved' = next
             /\ copyOf' = [u \in UUID |-> IF u \in named THEN origin(u) ELSE copyOf[u]]
    BY Zenon DEF Resolve
  <1> DEFINE named == {name[u] : u \in dups}
             origin(n) == CHOOSE u \in dups : name[u] = n
  <1>2. \A n \in named : n \in Fresh /\ origin(n) \in dups
    BY <1>1
  <1>3. \A u \in dups : u \in Conflicts
    OBVIOUS
  <1> HIDE DEF dups, named, origin
  <1>4. /\ resolved' = [u \in UUID |-> IF u \in named THEN push[origin(u)] ELSE Resolution(u)]
        /\ copyOf' = [u \in UUID |-> IF u \in named THEN origin(u) ELSE copyOf[u]]
    BY <1>1 DEF named, origin
  <1>5. /\ pc = "resolve" /\ pc' = "resync"
        /\ UNCHANGED <<db, server, push, saved, got, done, disturbed>>
    BY DEF Resolve, dbVars, serverVars, mishaps
  <1>6. pc \in Answering /\ pc' \in Answering /\ pc \notin Writing /\ pc' \notin Writing
    BY <1>5, PhasesDistinct DEF Answering
  <1>7. \A u \in Conflicts : u \in disturbed
    BY <1>5 DEF DuplicateInv, ConflictsDisturbed
  <1>8. ConflictsDisturbed'
    <2>1. ASSUME NEW u \in UUID \ disturbed, resolved'[u] # None
          PROVE  db[u] = None /\ server[u] = None /\ got[u] = None
      <3>1. u \in named
        <4>1. u \notin Conflicts
          BY <1>7
        <4>2. Resolution(u) = None
          BY <4>1, Zenon DEF Resolution
        <4>3. QED
          BY <1>4, <2>1, <4>2
      <3>2. QED
        BY <1>2, <3>1 DEF Fresh, TokenInv, KindsAgree, Held
    <2>2. QED
      BY <1>5, <2>1 DEF ConflictsDisturbed, Held
  <1>9. NoSpuriousDuplicate'
    BY <1>2, <1>3, <1>4, <1>5, <1>7 DEF DuplicateInv, NoSpuriousDuplicate
  <1>10. QED
    BY <1>5, <1>6, <1>8, <1>9
    DEF DuplicateInv, NothingAnswered, BasesKnown, Agreed, Unwritten, StampsKnown, Held

\* Without a conflict the later of two answers is the server's.
LEMMA DuplicateNoConflict ==
    ASSUME ConstantsAssumption, IInv, DuplicateInv, NoConflict
    PROVE  DuplicateInv'
  <1>1. /\ pc = "resolve" /\ pc' = "saveSaved" /\ got' = Newest(got, saved)
        /\ UNCHANGED <<db, server, push, saved, done, disturbed, copyOf>>
    BY DEF NoConflict, dbVars, serverVars, history, mishaps
  <1>2. got \in ItemMap /\ saved \in ItemMap
    BY DEF IInv, TypeOK
  <1>3. /\ pc \notin Writing /\ pc' \in Writing /\ pc \in Answering /\ pc' \notin Answering
    BY <1>1, PhasesDistinct DEF Answering
  <1>4. done = {}
    BY <1>3 DEF DuplicateInv, NothingAnswered
  <1>5. ASSUME NEW u \in UUID \ disturbed, got'[u] # None PROVE got'[u].ts = server[u].ts
    <2>1. saved[u] # None => saved[u].ts = server[u].ts
      BY <1>5 DEF DuplicateInv, StampsKnown, Held
    <2>2. got[u] # None => \/ got[u].ts = server[u].ts
                           \/ saved[u] # None /\ got[u].ts < saved[u].ts
      BY <1>5 DEF DuplicateInv, StampsKnown, Held
    <2>3. CASE got'[u] = saved[u]
      BY <1>5, <2>1, <2>3
    <2>4. CASE got'[u] = got[u] /\ (saved[u] # None => got[u].ts >= saved[u].ts)
      <3>1. got[u].ts \in Nat /\ (saved[u] # None => saved[u].ts \in Nat)
        BY <1>2, <1>5, <2>4, ItemFields
      <3>2. QED
        BY <1>5, <2>2, <2>4, <3>1
    <2>5. QED
      BY <1>1, <1>2, <1>5, <2>3, <2>4, NewestAt
  <1>6. StampsKnown'
    BY <1>1, <1>5 DEF DuplicateInv, StampsKnown, Held
  <1>7. QED
    BY <1>1, <1>3, <1>4, <1>6
    DEF DuplicateInv, NothingAnswered, BasesKnown, Agreed, Unwritten, ConflictsDisturbed,
        NoSpuriousDuplicate

\* A resync stores disturbed items and new names: the stamps of the others are
\* those of the first request.
LEMMA DuplicateResync ==
    ASSUME ConstantsAssumption, IInv, TokenInv, DuplicateInv, Resync
    PROVE  DuplicateInv'
  <1>1. PICK a, drop, redo, own :
              /\ SecondExchange(a, drop, redo, own)
              /\ \/ /\ Unresolved(Reported(a, drop, redo \cup own))
                    /\ Idle
                    /\ disturbed' = disturbed \cup Held(push) \cup Held(resolved)
                 \/ /\ ~Unresolved(Reported(a, drop, redo \cup own))
                    /\ saved' = Mine(a, drop, redo)
                    /\ got' = Newest(Newest(got, Retrieved(sent, resolved, a, drop, redo)),
                                     Mine(a, drop, redo))
                    /\ disturbed' = disturbed \cup drop
                    /\ pc' = "saveSaved"
                    /\ UNCHANGED <<dirty, push, sent, answer, theirs, resolved,
                                   newToken, done>>
    BY ResyncSplit
  <1>2. /\ pc = "resync" /\ UNCHANGED <<db, copyOf>>
        /\ Exchanged(resolved, sent, a, drop, redo, own) /\ ServerStores(resolved, a)
        /\ a \in Replies(resolved)
    BY <1>1 DEF SecondExchange, Exchanged
  <1>3. /\ TypeOK /\ server \in ItemMap /\ resolved \in ItemMap /\ push \in ItemMap
        /\ saved \in ItemMap /\ got \in ItemMap
    BY DEF IInv, TypeOK
  <1>4. pc \in Answering /\ pc \notin Writing
    BY <1>2, PhasesDistinct DEF Answering
  <1> DEFINE S == SavedIn(a)
  <1>5. /\ S \subseteq Held(resolved)
        /\ \A u \in UUID \ S : server'[u] = server[u]
    BY <1>2, <1>3, ServerAfter
  <1> HIDE DEF S
  <1>6. ASSUME NEW u \in UUID \ disturbed, u \in S
        PROVE  /\ db[u] = None /\ server[u] = None /\ got[u] = None /\ push[u] = None
    <2>1. db[u] = None /\ server[u] = None /\ got[u] = None
      BY <1>2, <1>5, <1>6 DEF DuplicateInv, ConflictsDisturbed
    <2>2. QED
      BY <1>2, <2>1 DEF IInv, PushCurrent, Held
  <1>7. NoSpuriousDuplicate'
    <2>1. disturbed \subseteq disturbed'
      BY <1>1
    <2>2. QED
      BY <1>2, <2>1 DEF DuplicateInv, NoSpuriousDuplicate
  <1>8. \A u \in Held(saved) : push[u] # None
    BY DEF DuplicateInv, StampsKnown
  <1>9. CASE Unresolved(Reported(a, drop, redo \cup own))
    <2>1. /\ pc' = "idle" /\ done' = {} /\ saved' = NoItems /\ got' = NoItems
          /\ disturbed' = disturbed \cup Held(push) \cup Held(resolved)
      BY <1>1, <1>9 DEF Idle
    <2>2. Held(saved') = {} /\ Held(got') = {}
      BY <2>1, NoItemsType
    <2>3. pc' \notin Answering /\ pc' \notin Writing
      BY <2>1, PhasesDistinct DEF Answering
    <2>4. BasesKnown'
      <3>1. ASSUME NEW u \in UUID \ disturbed' PROVE Agreed(u)'
        <4>1. u \notin disturbed /\ push[u] = None /\ u \notin S
          BY <1>5, <2>1, <3>1 DEF Held
        <4>2. saved[u] = None
          BY <1>8, <4>1 DEF Held
        <4>3. Agreed(u)
          BY <4>1, <4>2 DEF DuplicateInv, BasesKnown, Unwritten
        <4>4. QED
          BY <1>2, <1>5, <4>1, <4>3 DEF Agreed
      <3>2. QED
        BY <3>1 DEF BasesKnown
    <2>5. QED
      BY <1>7, <2>1, <2>2, <2>3, <2>4
      DEF DuplicateInv, NothingAnswered, StampsKnown, ConflictsDisturbed
  <1>10. CASE ~Unresolved(Reported(a, drop, redo \cup own))
    <2> DEFINE stamped == Stamped(resolved, a, drop \cup redo)
               fetched == Retrieved(sent, resolved, a, drop, redo)
               both == Newest(saved, stamped)
               mid == Newest(got, fetched)
    <2>1. /\ saved' = Mine(a, drop, redo) /\ got' = Newest(mid, saved') /\ pc' = "saveSaved"
          /\ disturbed' = disturbed \cup drop
          /\ UNCHANGED <<push, sent, resolved, done>>
      BY <1>1, <1>10
    <2>2. /\ pc' \notin Answering /\ pc' \in Writing
          /\ pc' \notin {"idle", "exchange", "resolve", "resync"}
      BY <2>1, PhasesDistinct DEF Answering
    <2>3. stamped \in ItemMap /\ fetched \in ItemMap
      <3>1. stamped \in ItemMap
        BY <1>2, <1>3, StampedShape, ZenonT(40)
      <3>2. fetched \in ItemMap
        BY <1>2, <1>3, RetrievedShape
      <3>3. QED
        BY <3>1, <3>2
    <2>a. ASSUME NEW u \in UUID
          PROVE  /\ stamped[u] = IF u \in S \ drop THEN server'[u] ELSE None
                 /\ u \in Held(resolved) \ drop => u \in S
                 /\ fetched[u] \in {None, server[u]} \/ u \in drop
      <3>1. SecondSays(a, drop, redo, u)
        BY <1>1, <1>3, <1>10, SecondExchangeAt
      <3>2. QED
        BY <3>1 DEF SecondSays, S
    <2> HIDE DEF stamped, fetched
    <2>b. both \in ItemMap /\ mid \in ItemMap
      BY <1>3, <2>3, NewestType
    <2>c. saved' = [u \in UUID |-> IF both[u] # None /\ push[u] # None
                                  THEN [push[u] EXCEPT !.ts = both[u].ts] ELSE None]
      BY <2>1 DEF Mine, stamped
    <2>4. ASSUME NEW u \in UUID, saved'[u] # None
          PROVE  /\ both[u] # None /\ push[u] # None
                 /\ saved'[u].ts = both[u].ts
                 /\ saved'[u].kind = push[u].kind /\ saved'[u].del = push[u].del
      <3>1. both[u] # None /\ push[u] # None
            /\ saved'[u] = [push[u] EXCEPT !.ts = both[u].ts]
        BY <2>c, <2>4
      <3>2. push[u] \in Item
        BY <1>3, <3>1, ItemFields
      <3>3. QED
        BY <3>1, <3>2, Restamped
    <2>5. \A u \in UUID \ S : both[u] = saved[u]
      BY <1>3, <2>3, <2>a, NewestAt
    <2>6. ASSUME NEW u \in UUID, both[u] # None, push[u] # None PROVE saved'[u] # None
      <3>1. saved'[u] = [push[u] EXCEPT !.ts = both[u].ts]
        BY <2>c, <2>6
      <3>2. push[u] \in Item /\ both[u].ts \in Nat
        BY <1>3, <2>b, <2>6, ItemFields
      <3>3. [push[u] EXCEPT !.ts = both[u].ts] \in Item
        BY <3>2 DEF Item
      <3>4. QED
        BY <3>1, <3>3 DEF ConstantsAssumption
    <2>d. saved' \in ItemMap
      <3>1. TypeOK'
        BY ResyncType DEF IInv
      <3>2. QED
        BY <3>1 DEF TypeOK
    <2> HIDE DEF both
    <2>7. ASSUME NEW u \in UUID \ disturbed
          PROVE  /\ saved'[u] # None => saved[u] # None /\ saved'[u].ts = server'[u].ts
                 /\ u \notin S /\ saved[u] # None => saved'[u] # None
      <3>1. ASSUME saved'[u] # None PROVE saved[u] # None /\ saved'[u].ts = server'[u].ts
        <4>1. u \notin S
          BY <1>6, <2>4, <2>7, <3>1
        <4>2. saved[u] # None /\ saved'[u].ts = saved[u].ts
          BY <2>4, <2>5, <2>7, <3>1, <4>1
        <4>3. QED
          BY <1>5, <2>7, <4>1, <4>2 DEF DuplicateInv, StampsKnown, Held
      <3>2. QED
        BY <1>8, <2>5, <2>6, <2>7, <3>1 DEF Held
    <2>8. ASSUME NEW u \in UUID \ disturbed', got'[u] # None
          PROVE  got'[u].ts = server'[u].ts
      <3>0. u \in UUID \ disturbed /\ u \notin drop
        BY <2>1, <2>8
      <3>1. /\ fetched[u] # None => fetched[u] = server[u]
            /\ server[u] = None => fetched[u] = None
            /\ mid[u] \in {got[u], fetched[u]}
            /\ got'[u] \in {mid[u], saved'[u]}
        BY <2>1, <2>a, <2>8, <3>0 DEF Newest
      <3> HIDE DEF mid
      <3>2. CASE got'[u] = saved'[u]
        BY <2>7, <2>8, <3>0, <3>2
      <3>3. CASE u \in S
        BY <1>6, <2>7, <2>8, <3>0, <3>1, <3>2, <3>3
      <3>4. CASE u \notin S /\ got'[u] # saved'[u]
        <4>1. server'[u] = server[u]
          BY <1>5, <2>8, <3>4
        <4>2. got'[u] = mid[u] /\ (saved'[u] # None => mid[u].ts >= saved'[u].ts)
          BY <2>1, <2>b, <2>d, <2>8, <3>1, <3>4, NewestAt
        <4>3. got[u] # None => \/ got[u].ts = server[u].ts
                               \/ saved[u] # None /\ got[u].ts < saved[u].ts
          BY <1>2, <1>4, <3>0 DEF DuplicateInv, StampsKnown, Held
        <4>4. saved[u] # None => /\ saved'[u] # None /\ saved'[u].ts = server[u].ts
                                 /\ saved[u].ts = server[u].ts
          BY <2>7, <2>8, <3>0, <3>4, <4>1 DEF DuplicateInv, StampsKnown, Held
        <4>5. mid[u].ts \in Nat /\ (saved[u] # None => saved[u].ts \in Nat)
          BY <1>3, <2>b, <2>8, <4>2, ItemFields
        <4>6. QED
          BY <2>8, <3>1, <4>1, <4>2, <4>3, <4>4, <4>5
      <3>5. QED
        BY <3>2, <3>3, <3>4
    <2>9. BasesKnown'
      <3>1. ASSUME NEW u \in UUID \ disturbed PROVE (Agreed(u) \/ Unwritten(u))'
        <4>1. CASE u \in S
          BY <1>2, <1>6, <3>1, <4>1 DEF Agreed
        <4>2. CASE u \notin S /\ Agreed(u)
          BY <1>2, <1>5, <3>1, <4>2 DEF Agreed
        <4>3. CASE u \notin S /\ Unwritten(u)
          <5>1. saved'[u] # None
            BY <2>7, <3>1, <4>3 DEF Unwritten
          <5>2. done' = {}
            BY <1>4, <2>1 DEF DuplicateInv, NothingAnswered
          <5>3. QED
            BY <2>1, <5>1, <5>2 DEF Unwritten
        <4>4. QED
          BY <3>1, <4>1, <4>2, <4>3 DEF DuplicateInv, BasesKnown
      <3>2. QED
        BY <2>1, <3>1 DEF BasesKnown
    <2>10. StampsKnown'
      <3>1. \A u \in Held(push) : ~ProtectedDeletion(push[u])
        BY <1>4 DEF TokenInv, NoProtectedPushed
      <3>2. \A u \in Held(saved') : push[u] # None /\ ~ProtectedDeletion(saved'[u])
        BY <2>4, <3>1 DEF ProtectedDeletion, Held
      <3>3. QED
        BY <2>1, <2>7, <2>8, <3>2 DEF StampsKnown, Held
    <2>11. QED
      BY <1>7, <2>2, <2>9, <2>10 DEF DuplicateInv, NothingAnswered, ConflictsDisturbed
  <1>11. QED
    BY <1>9, <1>10

\* A write puts the stamps of its batch, and those alone.
LEMMA DuplicateWrite ==
    ASSUME IInv, DuplicateInv, TokenFrame,
           \A u \in UUID \ disturbed : (Agreed(u) \/ Unwritten(u))',
           UNCHANGED <<copyOf, disturbed>>
    PROVE  DuplicateInv'
  <1>1. /\ pc' \notin {"idle", "exchange", "resolve", "resync"}
        /\ pc \notin Answering /\ pc' \notin Answering /\ pc' \in Writing
        /\ UNCHANGED <<server, push, saved, got>>
    BY PhasesDistinct DEF TokenFrame, Answering
  <1>2. BasesKnown'
    BY DEF BasesKnown
  <1>3. StampsKnown'
    BY <1>1 DEF DuplicateInv, StampsKnown, Held
  <1>4. QED
    BY <1>1, <1>2, <1>3
    DEF DuplicateInv, NothingAnswered, ConflictsDisturbed, NoSpuriousDuplicate

\* After the writes of what was saved, no stamp is left to write.
LEMMA DuplicateWrites ==
    ASSUME ConstantsAssumption, IInv, TokenInv, DuplicateInv,
           SaveSaved \/ DeleteSaved \/ Clean \/ SaveItems \/ DeleteItems
    PROVE  DuplicateInv'
  <1>1. /\ {"saveSaved", "deleteSaved", "clean", "saveItems", "deleteItems", "dropToken"}
             \subseteq Writing
        /\ \A p \in Writing : p \notin Answering
    BY DEF Writing, Answering
  <1>2. UNCHANGED <<copyOf, disturbed, saved, got, server>>
    BY DEF SaveSaved, DeleteSaved, Clean, SaveItems, DeleteItems, Transaction, history, mishaps,
           serverVars
  <1>3. CASE SaveSaved
    <2>1. PICK b \in SUBSET UUID :
            Transaction("saveSaved", Live(saved), "deleteSaved", b) /\ Put(saved, b)
      BY <1>3 DEF SaveSaved
    <2>2. /\ TokenFrame /\ b \subseteq Live(saved) /\ pc = "saveSaved"
          /\ \/ pc' = "deleteSaved" /\ done' = {} /\ done \cup b = Live(saved)
             \/ pc' = "saveSaved" /\ done' = done \cup b
      BY <1>1, <2>1, TokenTransaction
    <2>3. ASSUME NEW u \in UUID \ disturbed PROVE (Agreed(u) \/ Unwritten(u))'
      <3>1. CASE u \in b
        BY <1>2, <2>1, <2>2, <2>3, <3>1
        DEF Put, Store, Live, Agreed, DuplicateInv, StampsKnown
      <3>2. CASE u \notin b /\ Agreed(u)
        BY <1>2, <2>1, <2>3, <3>2 DEF Put, Store, Agreed
      <3>3. CASE u \notin b /\ Unwritten(u)
        <4>1. saved[u] # None /\ (saved[u].del \/ u \notin done)
          BY <1>1, <2>2, <3>3 DEF Unwritten
        <4>2. ~saved[u].del => u \in Live(saved)
          BY <2>3, <4>1 DEF Live, Held
        <4>3. QED
          BY <1>2, <2>2, <3>3, <4>1, <4>2 DEF Unwritten
      <3>4. QED
        BY <2>3, <3>1, <3>2, <3>3 DEF DuplicateInv, BasesKnown
    <2>4. QED
      BY <1>2, <2>2, <2>3, DuplicateWrite
  <1>4. CASE DeleteSaved
    <2>1. PICK b \in SUBSET UUID :
            Transaction("deleteSaved", Removable(saved), "clean", b) /\ Remove(b)
      BY <1>4 DEF DeleteSaved
    <2>2. /\ TokenFrame /\ b \subseteq Removable(saved) /\ pc = "deleteSaved"
          /\ \/ pc' = "clean" /\ done' = {} /\ done \cup b = Removable(saved)
             \/ pc' = "deleteSaved" /\ done' = done \cup b
      BY <1>1, <2>1, TokenTransaction
    <2>3. ASSUME NEW u \in UUID \ disturbed PROVE (Agreed(u) \/ Unwritten(u))'
      <3>1. CASE u \in b
        BY <2>1, <2>3, <3>1 DEF Remove, Store, NoItems, Agreed
      <3>2. CASE u \notin b /\ Agreed(u)
        BY <1>2, <2>1, <2>3, <3>2 DEF Remove, Store, Agreed
      <3>3. CASE u \notin b /\ Unwritten(u)
        <4>1. saved[u] # None /\ saved[u].del /\ u \notin done
          BY <1>1, <2>2, <3>3 DEF Unwritten
        <4>2. u \in Removable(saved)
          BY <2>3, <4>1 DEF Removable, Gone, Held, DuplicateInv, StampsKnown
        <4>3. QED
          BY <1>2, <2>2, <3>3, <4>1, <4>2 DEF Unwritten
      <3>4. QED
        BY <2>3, <3>1, <3>2, <3>3 DEF DuplicateInv, BasesKnown
    <2>4. QED
      BY <1>2, <2>2, <2>3, DuplicateWrite
  <1>5. pc \in {"clean", "saveItems", "deleteItems"}
        => \A u \in UUID \ disturbed : Agreed(u)
    BY <1>1 DEF DuplicateInv, BasesKnown, Unwritten
  <1>6. pc \in Writing => \A u \in Held(got) \ disturbed : got[u].ts = server[u].ts
    BY <1>1 DEF DuplicateInv, StampsKnown
  <1>7. CASE Clean
    <2>1. PICK b \in SUBSET UUID : Transaction("clean", dirty, "saveItems", b) /\ db' = db
      BY <1>7 DEF Clean
    <2>2. TokenFrame /\ pc = "clean"
      BY <1>1, <2>1, TokenTransaction
    <2>3. \A u \in UUID \ disturbed : Agreed(u)'
      BY <1>2, <1>5, <2>1, <2>2 DEF Agreed
    <2>4. QED
      BY <1>2, <2>2, <2>3, DuplicateWrite
  <1>8. CASE SaveItems
    <2>1. PICK b \in SUBSET UUID :
            Transaction("saveItems", Live(got), "deleteItems", b) /\ Put(got, b)
      BY <1>8 DEF SaveItems
    <2>2. TokenFrame /\ b \subseteq Live(got) /\ pc = "saveItems"
      BY <1>1, <2>1, TokenTransaction
    <2>3. \A u \in UUID \ disturbed : Agreed(u)'
      BY <1>1, <1>2, <1>5, <1>6, <2>1, <2>2 DEF Put, Store, Live, Agreed
    <2>4. QED
      BY <1>2, <2>2, <2>3, DuplicateWrite
  <1>9. CASE DeleteItems
    <2>1. PICK b \in SUBSET UUID :
            Transaction("deleteItems", Removable(got), "dropToken", b) /\ Remove(b)
      BY <1>9 DEF DeleteItems
    <2>2. TokenFrame /\ pc = "deleteItems"
      BY <1>1, <2>1, TokenTransaction
    <2>3. \A u \in UUID \ disturbed : Agreed(u)'
      BY <1>2, <1>5, <2>1, <2>2 DEF Remove, Store, NoItems, Agreed
    <2>4. QED
      BY <1>2, <2>2, <2>3, DuplicateWrite
  <1>10. QED
    BY <1>3, <1>4, <1>7, <1>8, <1>9

\* A sync that ends early disturbs what it had pushed.
LEMMA DuplicateRunSteps ==
    ASSUME ConstantsAssumption, IInv, DuplicateInv,
           \/ \E age \in Ages : Begin(age)
           \/ DropToken \/ SaveToken \/ Abort
    PROVE  DuplicateInv'
  <1>1. UNCHANGED <<db, server, copyOf>> /\ disturbed \subseteq disturbed'
    BY DEF Begin, DropToken, SaveToken, Abort, dbVars, serverVars, history, mishaps
  <1>2. NoSpuriousDuplicate'
    BY <1>1 DEF DuplicateInv, NoSpuriousDuplicate
  <1>3. pc \in {"idle", "exchange", "dropToken", "saveToken"}
        => \A u \in UUID \ disturbed : Agreed(u)
    BY PhasesDistinct DEF DuplicateInv, BasesKnown, Unwritten, Answering
  <1>4. CASE \E age \in Ages : Begin(age)
    <2>1. pc = "idle" /\ pc' = "exchange" /\ UNCHANGED <<saved, got, done, disturbed>>
      BY <1>4 DEF Begin, mishaps
    <2>2. pc \notin Writing /\ Held(saved) = {} /\ Held(got) = {}
      BY <2>1, PhasesDistinct DEF DuplicateInv, NothingAnswered
    <2>3. QED
      BY <1>1, <1>2, <1>3, <2>1, <2>2
      DEF DuplicateInv, NothingAnswered, BasesKnown, Agreed, StampsKnown,
          ConflictsDisturbed, Held
  <1>5. CASE DropToken
    <2>1. /\ pc = "dropToken" /\ pc' = "saveToken"
          /\ UNCHANGED <<push, saved, got, done, disturbed>>
      BY <1>5 DEF DropToken, history, mishaps
    <2>2. pc \notin Answering /\ pc' \in Writing
      BY <2>1, PhasesDistinct DEF Answering
    <2>3. QED
      BY <1>1, <1>2, <1>3, <2>1, <2>2
      DEF DuplicateInv, NothingAnswered, BasesKnown, Agreed, StampsKnown,
          ConflictsDisturbed, Held
  <1>6. ASSUME Idle, \A u \in UUID \ disturbed' : Agreed(u) PROVE DuplicateInv'
    <2>1. pc' = "idle" /\ done' = {} /\ Held(saved') = {} /\ Held(got') = {}
      BY <1>6, NoItemsType DEF Idle
    <2>2. QED
      BY <1>1, <1>2, <1>6, <2>1
      DEF NothingAnswered, BasesKnown, Agreed, StampsKnown, ConflictsDisturbed, DuplicateInv
  <1>7. CASE SaveToken
    BY <1>1, <1>3, <1>6, <1>7 DEF SaveToken
  <1>8. CASE Abort
    <2>1. CASE pc = "exchange"
      BY <1>1, <1>3, <1>6, <1>8, <2>1 DEF Abort
    <2>2. CASE pc # "exchange"
      <3>1. Idle /\ disturbed' = disturbed \cup Held(push) \cup Held(resolved)
        BY <1>8, <2>2 DEF Abort
      <3>2. ASSUME NEW u \in UUID \ disturbed' PROVE Agreed(u)
        <4>1. u \notin disturbed /\ push[u] = None
          BY <3>1, <3>2 DEF Held
        <4>2. saved[u] = None
          BY <3>2, <4>1 DEF DuplicateInv, StampsKnown, Held
        <4>3. QED
          BY <3>2, <4>1, <4>2 DEF DuplicateInv, BasesKnown, Unwritten
      <3>3. QED
        BY <1>6, <3>1, <3>2
    <2>3. QED
      BY <2>1, <2>2
  <1>9. QED
    BY <1>4, <1>5, <1>7, <1>8

\* With a server that answers saved or sync_conflict, an item that no other client
\* changed, and no answer about which was lost, has the version of the server in
\* the database, or in the output that is being written.
THEOREM DuplicateInductive == ASSUME Refusals = {} PROVE Spec => []DuplicateInv
  <1>1. Init => DuplicateInv
    <2>1. SUFFICES ASSUME Init PROVE DuplicateInv
      OBVIOUS
    <2>2. /\ db = NoItems /\ saved = NoItems /\ got = NoItems /\ pc = "idle" /\ done = {}
          /\ copyOf = [u \in UUID |-> None]
      BY <2>1 DEF Init
    <2>3. Held(saved) = {} /\ Held(got) = {} /\ \A u \in UUID : db[u] = None
      BY <2>2, NoItemsType DEF NoItems
    <2>4. QED
      BY <2>2, <2>3
      DEF DuplicateInv, NothingAnswered, BasesKnown, Agreed, StampsKnown,
          ConflictsDisturbed, NoSpuriousDuplicate
  <1>2. IInv /\ TokenInv /\ DuplicateInv /\ [Next]_vars => DuplicateInv'
    <2>1. SUFFICES ASSUME IInv, TokenInv, DuplicateInv, [Next]_vars PROVE DuplicateInv'
      OBVIOUS
    <2>2. CASE UNCHANGED vars
      BY <2>1, <2>2
      DEF vars, dbVars, serverVars, runVars, history, mishaps, DuplicateInv, NothingAnswered,
          BasesKnown, Agreed, Unwritten, StampsKnown, ConflictsDisturbed, Conflicts,
          NoSpuriousDuplicate, Held
    <2>3. QED
      BY <2>1, <2>2, ConstantsAssumption, DuplicateEdits, DuplicateExchange,
         NothingSkipped, DuplicateResolve, DuplicateNoConflict, DuplicateResync,
         DuplicateWrites, DuplicateRunSteps
      DEF Next, SyncStep
  <1>3. QED
    BY <1>1, <1>2, Inductive, TokenInductive, PTL DEF Spec

\* So a duplicate (items.Sync, processSyncConflict) is only made of an item that
\* another client changed, or whose answer was lost.
THEOREM NoneSpurious == ASSUME Refusals = {} PROVE Spec => []NoSpuriousDuplicate
  <1>1. DuplicateInv => NoSpuriousDuplicate
    BY DEF DuplicateInv
  <1>2. QED
    BY <1>1, DuplicateInductive, PTL

---------------------------------------------------------------------------
(* Where the database and the server meet.                                  *)

\* What the server once has it keeps, tombstones included.
LEMMA ServerGrows ==
    ASSUME ConstantsAssumption, TypeOK, [Next]_vars
    PROVE  \A u \in UUID : server[u] # None => server'[u] # None
  <1> DEFINE Grows == \A u \in UUID : server[u] # None => server'[u] # None
  <1>1. ASSUME NEW u \in UUID, NEW i \in Item, StoreRemotely(u, i) PROVE Grows
    <2>1. server' = [server EXCEPT ![u] = [i EXCEPT !.ts = clock + 1]] /\ clock + 1 \in Nat
      BY <1>1 DEF StoreRemotely, TypeOK
    <2>2. [i EXCEPT !.ts = clock + 1] \in Item
      BY <2>1 DEF Item
    <2>3. QED
      BY <2>1, <2>2 DEF TypeOK, ItemMap, ConstantsAssumption
  <1>2. CASE OtherClients
    <2>1. ASSUME NEW u \in UUID, NEW k \in CreatedKinds, RemoteCreate(u, k) PROVE Grows
      BY <1>1, <2>1, CreatedItemType DEF RemoteCreate, TypeOK
    <2>2. ASSUME NEW u \in UUID, RemoteEdit(u) \/ RemoteDelete(u) PROVE Grows
      <3> DEFINE edited == [server[u] EXCEPT !.val = edits + 1]
                 deleted == [server[u] EXCEPT !.val = edits + 1, !.del = TRUE]
      <3>1. u \in Held(server) /\ server \in ItemMap
        BY <2>2 DEF RemoteEdit, RemoteDelete, Held, TypeOK
      <3>2. edited \in Item /\ deleted \in Item
        BY <3>1, EditedItemType
      <3>3. StoreRemotely(u, edited) \/ StoreRemotely(u, deleted)
        BY <2>2 DEF RemoteEdit, RemoteDelete
      <3> HIDE DEF edited, deleted
      <3>4. QED
        BY <1>1, <3>2, <3>3
    <2>3. QED
      BY <1>2, <2>1, <2>2 DEF OtherClients
  <1>3. ASSUME NEW p \in ItemMap, NEW a \in Replies(p), ServerStores(p, a) PROVE Grows
    BY <1>3, ServerAfter
  <1>4. CASE Exchange \/ Resync
    <2>1. push \in ItemMap /\ resolved \in ItemMap
      BY DEF TypeOK
    <2>2. CASE Exchange
      <3>1. PICK a \in Replies(push) : ServerStores(push, a)
        BY <2>2, Zenon DEF Exchange
      <3>2. QED
        BY <1>3, <2>1, <3>1
    <2>3. CASE Resync
      <3>1. PICK a \in Replies(resolved) : ServerStores(resolved, a)
        BY <2>3, ZenonT(40) DEF Resync
      <3>2. QED
        BY <1>3, <2>1, <3>1
    <2>4. QED
      BY <1>4, <2>2, <2>3
  <1>5. (UNCHANGED server) => Grows
    OBVIOUS
  <1>6. CASE Application
    BY <1>5, <1>6 DEF Application, Create, Edit, Delete, SaveLocally, serverVars
  <1>7. CASE \/ \E age \in Ages : Begin(age)
             \/ NoConflict \/ Resolve \/ AllSkipped \/ DropToken \/ SaveToken \/ Abort
    BY <1>5, <1>7 DEF Begin, NoConflict, Resolve, AllSkipped, DropToken, SaveToken, Abort,
                      serverVars
  <1>8. CASE SaveSaved \/ DeleteSaved \/ Clean \/ SaveItems \/ DeleteItems
    BY <1>5, <1>8 DEF SaveSaved, DeleteSaved, Clean, SaveItems, DeleteItems, Transaction,
                      serverVars
  <1>9. CASE UNCHANGED vars
    BY <1>5, <1>9 DEF vars, serverVars
  <1>10. QED
    BY <1>2, <1>4, <1>6, <1>7, <1>8, <1>9 DEF Next, SyncStep

\* A step that leaves the database alone keeps what is known of it.
LEMMA StoredFrame ==
    ASSUME StoredInv, UNCHANGED <<db, flagged>>, db \in ItemMap, dirty \subseteq UUID,
           \A u \in UUID : server[u] # None => server'[u] # None,
           \/ pc' = "idle"
           \/ /\ pc \in Answering \cup Writing /\ pc' \in Answering \cup Writing
              /\ dirty' = dirty
    PROVE  StoredInv'
  <1>1. pc' # "exchange" /\ (pc' = "idle" => pc' \notin Answering \cup Writing)
    BY PhasesDistinct DEF Answering
  <1>2. QED
    BY <1>1 DEF StoredInv, Held

\* An edit is dirty, and has a stamp only if the item had one.
LEMMA StoredEdits ==
    ASSUME ConstantsAssumption, IInv, StoredInv, Application
    PROVE  StoredInv'
  <1>1. db \in ItemMap /\ TypeOK
    BY DEF IInv, TypeOK
  <1>2. ASSUME NEW u \in UUID, NEW i \in Item, SaveLocally(u, i),
               IF db[u] = None THEN i.ts = 0 ELSE i.ts = db[u].ts
        PROVE  StoredInv'
    <2>1. /\ pc' = "idle" /\ server' = server
          /\ db' = [db EXCEPT ![u] = i] /\ flagged' = flagged \cup {u}
      BY <1>2 DEF SaveLocally, runVars, serverVars
    <2>2. pc' # "exchange" /\ pc' \notin Answering \cup Writing
      BY <2>1, PhasesDistinct DEF Answering
    <2>3. \A w \in UUID : db'[w] = IF w = u THEN i ELSE db[w]
      BY <1>1, <2>1 DEF ItemMap
    <2>4. QED
      BY <1>2, <2>1, <2>2, <2>3 DEF StoredInv, Held
  <1>3. ASSUME NEW u \in UUID, NEW k \in CreatedKinds, Create(u, k) PROVE StoredInv'
    <2> DEFINE created == [kind |-> k, val |-> edits + 1, ts |-> 0, del |-> FALSE]
    <2>1. created \in Item /\ created.ts = 0
      BY <1>1, CreatedItemType
    <2>2. SaveLocally(u, created) /\ db[u] = None
      BY <1>3 DEF Create, Fresh
    <2> HIDE DEF created
    <2>3. QED
      BY <1>2, <2>1, <2>2
  <1>4. ASSUME NEW u \in UUID, Edit(u) \/ Delete(u) PROVE StoredInv'
    <2> DEFINE edited == [db[u] EXCEPT !.val = edits + 1]
               deleted == [db[u] EXCEPT !.val = edits + 1, !.del = TRUE]
    <2>1. u \in Held(db) /\ db[u] \in Item
      BY <1>1, <1>4, ItemFields DEF Edit, Delete, Held
    <2>2. edited \in Item /\ deleted \in Item
      BY <1>1, <2>1, EditedItemType
    <2>3. edited.ts = db[u].ts /\ deleted.ts = db[u].ts
      BY <2>1 DEF Item
    <2>4. SaveLocally(u, edited) \/ SaveLocally(u, deleted)
      BY <1>4 DEF Edit, Delete
    <2> HIDE DEF edited, deleted
    <2>5. QED
      BY <1>2, <2>1, <2>2, <2>3, <2>4 DEF Held
  <1>5. QED
    BY <1>3, <1>4 DEF Application

\* What a sync holds back is an items key with a stamp, which the server has.
LEMMA StoredBegin ==
    ASSUME ConstantsAssumption, IInv, TokenInv, StoredInv, NEW age, Begin(age)
    PROVE  StoredInv'
  <1>1. /\ UNCHANGED <<db, flagged, server>> /\ pc' = "exchange" /\ dirty' = flagged
        /\ push' = [u \in UUID |-> IF u \in flagged /\ ~Blocked(db[u]) THEN db[u] ELSE None]
    BY DEF Begin, serverVars
  <1>2. pc' \notin Answering \cup Writing
    BY <1>1, PhasesDistinct DEF Answering
  <1>3. ASSUME NEW u \in dirty', push'[u] = None PROVE server'[u] # None
    <2>1. u \in UUID /\ u \in Held(db) /\ db[u] # None /\ u \in flagged
      BY <1>1 DEF IInv, DirtyExist, Held
    <2>2. Blocked(db[u])
      BY <1>1, <1>3, <2>1
    <2>3. ~ProtectedDeletion(db[u])
      BY <2>1 DEF TokenInv, NoProtectedPushed, ProtectedDeletion
    <2>4. db[u].ts # 0
      BY <2>2, <2>3 DEF Blocked
    <2>5. QED
      BY <1>1, <2>1, <2>4 DEF StoredInv
  <1>4. QED
    BY <1>1, <1>2, <1>3 DEF StoredInv, Held

\* The server stores what is pushed, or has a version that conflicts with it.
LEMMA StoredExchange ==
    ASSUME ConstantsAssumption, Refusals = {}, IInv, StoredInv, Exchange,
           \A u \in UUID : server[u] # None => server'[u] # None
    PROVE  StoredInv'
  <1>1. PICK a \in Replies(push) : ServerStores(push, a)
    BY ExchangeSplit, ZenonT(40) DEF FirstExchange, Exchanged
  <1>2. /\ pc = "exchange" /\ pc' = "resolve" /\ UNCHANGED <<db, flagged, dirty>>
    BY DEF Exchange, dbVars
  <1>3. TypeOK /\ push \in ItemMap /\ dirty \subseteq UUID
    BY DEF IInv, TypeOK
  <1>4. \A u \in SavedIn(a) : server'[u] # None
    BY <1>1, <1>3, ServerAfter
  <1>5. ASSUME NEW u \in Held(push), u \notin SavedIn(a) PROVE server[u] # None
    <2>1. DOMAIN a = Held(push) /\ a[u] = "sync_conflict"
      BY <1>1, <1>5, RepliesType DEF SavedIn, Replies
    <2>2. QED
      BY <1>1, <2>1 DEF Replies, Stale
  <1>6. \A u \in dirty : server'[u] # None
    BY <1>2, <1>3, <1>4, <1>5 DEF StoredInv, Held
  <1>7. QED
    BY <1>2, <1>6 DEF StoredInv, Held

\* What is written is the server's, and what is cleaned is there.
LEMMA StoredWrites ==
    ASSUME ConstantsAssumption, IInv, TokenInv, StoredInv,
           SaveSaved \/ DeleteSaved \/ Clean \/ SaveItems \/ DeleteItems
    PROVE  StoredInv'
  <1>1. ASSUME NEW b \in SUBSET UUID, TokenFrame, flagged' = flagged \ b,
               \A u \in UUID \ b : db'[u] = db[u],
               \A u \in b : db'[u] = None \/ server[u] # None
        PROVE  StoredInv'
    <2>1. /\ pc \in Writing /\ pc' \in Writing /\ pc' # "exchange"
          /\ UNCHANGED <<server, dirty>>
      BY <1>1, PhasesDistinct DEF TokenFrame
    <2>2. ASSUME NEW u \in Held(db'), u \notin flagged' \/ db'[u].ts # 0
          PROVE  server'[u] # None
      BY <1>1, <2>1, <2>2 DEF StoredInv, Held
    <2>3. QED
      BY <2>1, <2>2 DEF StoredInv
  <1>2. \A f \in {saved, got} : \A u \in Held(f) : server[u] # None
    BY DEF TokenInv, KindsAgree
  <1>3. {"saveSaved", "deleteSaved", "clean", "saveItems", "deleteItems", "dropToken"}
        \subseteq Writing
    BY PhasesDistinct
  <1>4. CASE SaveSaved
    <2>1. PICK b \in SUBSET UUID :
            Transaction("saveSaved", Live(saved), "deleteSaved", b) /\ Put(saved, b)
      BY <1>4 DEF SaveSaved
    <2>2. TokenFrame /\ b \subseteq Live(saved)
      BY <1>3, <2>1, TokenTransaction
    <2>3. QED
      BY <1>1, <1>2, <2>1, <2>2 DEF Put, Store, Live
  <1>5. CASE SaveItems
    <2>1. PICK b \in SUBSET UUID :
            Transaction("saveItems", Live(got), "deleteItems", b) /\ Put(got, b)
      BY <1>5 DEF SaveItems
    <2>2. TokenFrame /\ b \subseteq Live(got)
      BY <1>3, <2>1, TokenTransaction
    <2>3. QED
      BY <1>1, <1>2, <2>1, <2>2 DEF Put, Store, Live
  <1>6. CASE DeleteSaved
    <2>1. PICK b \in SUBSET UUID :
            Transaction("deleteSaved", Removable(saved), "clean", b) /\ Remove(b)
      BY <1>6 DEF DeleteSaved
    <2>2. TokenFrame
      BY <1>3, <2>1, TokenTransaction
    <2>3. QED
      BY <1>1, <2>1, <2>2 DEF Remove, Store, NoItems
  <1>7. CASE DeleteItems
    <2>1. PICK b \in SUBSET UUID :
            Transaction("deleteItems", Removable(got), "dropToken", b) /\ Remove(b)
      BY <1>7 DEF DeleteItems
    <2>2. TokenFrame
      BY <1>3, <2>1, TokenTransaction
    <2>3. QED
      BY <1>1, <2>1, <2>2 DEF Remove, Store, NoItems
  <1>8. CASE Clean
    <2>1. PICK b \in SUBSET UUID :
            Transaction("clean", dirty, "saveItems", b) /\ flagged' = flagged \ b /\ db' = db
      BY <1>8 DEF Clean
    <2>2. TokenFrame /\ b \subseteq dirty
      BY <1>3, <2>1, TokenTransaction
    <2>3. \A u \in b : server[u] # None
      BY <2>2 DEF TokenFrame, StoredInv
    <2>4. QED
      BY <1>1, <2>1, <2>2, <2>3
  <1>9. QED
    BY <1>4, <1>5, <1>6, <1>7, <1>8

\* Every step keeps it, if the server refuses nothing.
LEMMA StoredStep ==
    ASSUME ConstantsAssumption, Refusals = {}, IInv, TokenInv, StoredInv, [Next]_vars
    PROVE  StoredInv'
  <1>1. /\ \A u \in UUID : server[u] # None => server'[u] # None
        /\ db \in ItemMap /\ dirty \subseteq UUID
    BY ServerGrows DEF IInv, TypeOK
  <1>2. CASE UNCHANGED vars
    BY <1>2 DEF vars, dbVars, serverVars, runVars, StoredInv, Held
  <1>3. CASE OtherClients
    <2>1. UNCHANGED <<db, flagged, pc, dirty, push>>
      BY <1>3 DEF OtherClients, RemoteCreate, RemoteEdit, RemoteDelete, StoreRemotely,
                  dbVars, runVars
    <2>2. QED
      BY <1>1, <2>1 DEF StoredInv, Held
  <1>4. CASE NoConflict \/ Resolve \/ AllSkipped \/ DropToken
    <2>1. /\ UNCHANGED <<db, flagged, dirty>>
          /\ pc \in {"resolve", "dropToken"} /\ pc' \in {"saveSaved", "resync", "saveToken"}
      BY <1>4 DEF NoConflict, Resolve, AllSkipped, DropToken, dbVars
    <2>2. pc \in Answering \cup Writing /\ pc' \in Answering \cup Writing
      BY <2>1, PhasesDistinct DEF Answering
    <2>3. QED
      BY <1>1, <2>1, <2>2, StoredFrame
  <1>5. CASE Resync
    <2>1. /\ UNCHANGED <<db, flagged>> /\ pc = "resync"
          /\ pc' = "idle" \/ (pc' = "saveSaved" /\ dirty' = dirty)
      BY <1>5 DEF Resync, Idle, dbVars
    <2>2. pc \in Answering \cup Writing /\ "saveSaved" \in Answering \cup Writing
      BY <2>1, PhasesDistinct DEF Answering
    <2>3. QED
      BY <1>1, <2>1, <2>2, StoredFrame
  <1>6. CASE SaveToken \/ Abort
    <2>1. UNCHANGED <<db, flagged>> /\ pc' = "idle"
      BY <1>6 DEF SaveToken, Abort, Idle, dbVars
    <2>2. QED
      BY <1>1, <2>1, StoredFrame
  <1>7. QED
    BY <1>1, <1>2, <1>3, <1>4, <1>5, <1>6, StoredEdits, StoredBegin, StoredExchange,
       StoredWrites
    DEF Next, SyncStep

\* Notes stay notes, whatever is merged with them, written over them or stamped.
LEMMA NotesMerged ==
    ASSUME NEW f, NEW g, NEW S, AllNotes(f), AllNotes(g)
    PROVE  AllNotes(Newest(f, g)) /\ AllNotes(Store(f, g, S))
  <1>1. \A u \in UUID : /\ f[u] # None => f[u].kind = "Note"
                        /\ g[u] # None => g[u].kind = "Note"
    BY DEF AllNotes, Held
  <1>2. AllNotes(Newest(f, g))
    BY <1>1 DEF AllNotes, Newest, Held
  <1>3. AllNotes(Store(f, g, S))
    BY <1>1 DEF AllNotes, Store, Held
  <1>4. QED
    BY <1>2, <1>3

\* An empty map holds only notes.
LEMMA NoNotes == AllNotes(NoItems)
  BY NoItemsType DEF AllNotes

\* So they do on the server, and in its answer.
LEMMA NotesAnswered ==
    ASSUME ConstantsAssumption, TypeOK, AllNotes(server),
           NEW p \in ItemMap, AllNotes(p), NEW t,
           NEW a, NEW drop, NEW redo, NEW own, Exchanged(p, t, a, drop, redo, own)
    PROVE  /\ AllNotes(Stamped(p, a, drop \cup redo)) /\ AllNotes(server')
           /\ AllNotes(Retrieved(t, p, a, drop, redo))
  <1>1. clock \in Nat /\ a \in Replies(p) /\ ServerStores(p, a)
    BY DEF TypeOK, Exchanged
  <1>2. ASSUME NEW u \in Held(SavedItems(p, a)) PROVE SavedItems(p, a)[u].kind = "Note"
    <2>1. u \in SavedIn(a) /\ u \in Held(p) /\ u \in UUID /\ p[u] \in Item
      BY <1>1, <1>2, SavedItemsType, RepliesType, HeldType
    <2>2. SavedItems(p, a)[u] = [p[u] EXCEPT !.ts = Now(a)]
      BY <2>1 DEF SavedItems
    <2>3. QED
      BY <2>1, <2>2, Restamped DEF AllNotes
  <1>3. AllNotes(SavedItems(p, a))
    BY <1>2 DEF AllNotes
  <1>4. AllNotes(Stamped(p, a, drop \cup redo))
    BY <1>3, NoNotes, NotesMerged DEF Stamped
  <1>5. AllNotes(server')
    BY <1>1, <1>3, NotesMerged DEF ServerStores
  <1>6. ASSUME NEW u \in UUID, Retrieved(t, p, a, drop, redo)[u] # None
        PROVE  Retrieved(t, p, a, drop, redo)[u].kind = "Note"
    <2> DEFINE R == Retrieved(t, p, a, drop, redo)
    <2>1. /\ u \in redo => R[u] = None
          /\ u \in drop => R[u] \in {None, server'[u]}
          /\ u \notin drop \cup redo => R[u] = Changed(t, a)[u]
      BY RetrievedShape
    <2>2. Changed(t, a)[u] \in {None, server[u]}
      BY DEF Changed
    <2>3. R[u] = server'[u] \/ R[u] = server[u]
      BY <1>6, <2>1, <2>2
    <2>4. QED
      BY <1>5, <1>6, <2>3 DEF AllNotes, Held
  <1>7. QED
    BY <1>4, <1>5, <1>6 DEF AllNotes, Held

\* A server that answers saved or sync_conflict refuses no edit.
LEMMA NothingRefused ==
    ASSUME ConstantsAssumption, Refusals = {}, TypeOK, NEW p \in ItemMap, NEW t,
           NEW a, NEW drop, NEW redo, NEW own, Exchanged(p, t, a, drop, redo, own)
    PROVE  refused' = refused
  <1> DEFINE lost == {u \in drop : a[u] \in {"sync_conflict", "uuid_conflict"}}
  <1>1. refused' = refused \cup {p[u].val : u \in (drop \ SavedIn(a)) \ lost}
    BY DEF Exchanged, Overlooks
  <1>2. ASSUME NEW u \in drop, u \notin SavedIn(a) PROVE u \in lost
    <2>1. a \in Replies(p) /\ DOMAIN a = Held(p) /\ u \in Held(p)
      BY <1>2, ExchangedShape
    <2>2. a[u] = "sync_conflict"
      BY <1>2, <2>1 DEF Replies, SavedIn
    <2>3. QED
      BY <2>2
  <1> HIDE DEF lost
  <1>3. (drop \ SavedIn(a)) \ lost = {}
    BY <1>2
  <1>4. QED
    BY <1>1, <1>3

\* A conflict about a note is resolved: it gives up no edit.
LEMMA NotesResolved ==
    ASSUME ConstantsAssumption, IInv, DuplicateInv, NotesOnly, pc = "resolve"
    PROVE  GivenUp = {}
  <1>1. SUFFICES ASSUME NEW u \in GivenUp PROVE FALSE
    OBVIOUS
  <1>2. u \in Conflicts /\ ~LocalWins(u) /\ ~DeletionWins(u) /\ ~Duplicated(u)
    BY Zenon DEF GivenUp
  <1>3. answer[u] = "sync_conflict"
    BY <1>2 DEF DuplicateInv, ConflictsDisturbed
  <1>4. ServerWins(u)
    BY <1>2, <1>3 DEF DeletionWins, Duplicated
  <1>5. u \in Held(theirs) /\ theirs[u].kind = "ItemsKey"
    BY <1>2, <1>3, <1>4 DEF ServerWins, Held, Conflicts
  <1>6. QED
    BY <1>5 DEF NotesOnly, AllNotes

\* What is pushed again is the resolution of a conflict, or what was pushed, under
\* a new name.
LEMMA ResolvedAre ==
    ASSUME Resolve, NEW u \in UUID
    PROVE  \/ resolved'[u] = Resolution(u)
           \/ \E w \in Conflicts : resolved'[u] = push[w]
  <1> DEFINE dups == {v \in Conflicts : Duplicated(v)}
  <1>1. PICK name \in [dups -> Fresh] :
          LET named == {name[v] : v \in dups}
              origin(n) == CHOOSE v \in dups : name[v] = n
              next == [v \in UUID |-> IF v \in named THEN push[origin(v)] ELSE Resolution(v)]
          IN resolved' = next
    BY Zenon DEF Resolve
  <1> DEFINE named == {name[v] : v \in dups}
             origin(n) == CHOOSE v \in dups : name[v] = n
  <1>2. \A n \in named : origin(n) \in dups
    OBVIOUS
  <1>3. dups \subseteq Conflicts
    OBVIOUS
  <1> HIDE DEF dups, named, origin
  <1>4. resolved' = [v \in UUID |-> IF v \in named THEN push[origin(v)] ELSE Resolution(v)]
    BY <1>1 DEF named, origin
  <1>5. QED
    BY <1>2, <1>3, <1>4

\* Every step keeps it, if only notes are created.
LEMMA NotesStep ==
    ASSUME ConstantsAssumption, Refusals = {}, CreatedKinds \subseteq {"Note"},
           IInv, TokenInv, DuplicateInv, NotesOnly, [Next]_vars
    PROVE  NotesOnly'
  <1>1. /\ TypeOK /\ db \in ItemMap /\ server \in ItemMap /\ push \in ItemMap
        /\ resolved \in ItemMap /\ saved \in ItemMap /\ got \in ItemMap
    BY DEF IInv, TypeOK
  <1>2. /\ AllNotes(db) /\ AllNotes(server) /\ AllNotes(push) /\ AllNotes(theirs)
        /\ AllNotes(resolved) /\ AllNotes(saved) /\ AllNotes(got) /\ refused = {}
    BY DEF NotesOnly
  <1>3. (UNCHANGED <<db, server, push, theirs, resolved, saved, got, refused>>) => NotesOnly'
    BY <1>2 DEF NotesOnly, AllNotes, Held
  <1>4. ASSUME Idle, AllNotes(db'), AllNotes(server'), refused' = refused PROVE NotesOnly'
    BY <1>2, <1>4, NoNotes DEF Idle, NotesOnly, AllNotes, Held
  <1>5. ASSUME NEW u \in UUID, NEW i \in Item, i.kind = "Note",
               SaveLocally(u, i) \/ StoreRemotely(u, i)
        PROVE  NotesOnly'
    <2>1. UNCHANGED <<push, theirs, resolved, saved, got, refused>>
      BY <1>5 DEF SaveLocally, StoreRemotely, runVars
    <2>2. [i EXCEPT !.ts = clock + 1].kind = "Note"
      BY <1>5, Restamped
    <2>3. /\ \A w \in UUID : db'[w] = db[w] \/ db'[w].kind = "Note"
          /\ \A w \in UUID : server'[w] = server[w] \/ server'[w].kind = "Note"
      BY <1>1, <1>5, <2>2 DEF SaveLocally, StoreRemotely, dbVars, serverVars, ItemMap
    <2>4. QED
      BY <1>2, <2>1, <2>3 DEF NotesOnly, AllNotes, Held
  <1>6. CASE Application \/ OtherClients
    <2>1. ASSUME NEW u \in UUID, NEW k \in CreatedKinds, Create(u, k) \/ RemoteCreate(u, k)
          PROVE  NotesOnly'
      <3> DEFINE created == [kind |-> k, val |-> edits + 1, ts |-> 0, del |-> FALSE]
      <3>1. created \in Item /\ created.kind = "Note"
        BY <1>1, CreatedItemType
      <3>2. SaveLocally(u, created) \/ StoreRemotely(u, created)
        BY <2>1 DEF Create, RemoteCreate
      <3> HIDE DEF created
      <3>3. QED
        BY <1>5, <3>1, <3>2
    <2>2. ASSUME NEW f \in ItemMap, AllNotes(f), NEW u \in Held(f),
                 \/ SaveLocally(u, [f[u] EXCEPT !.val = edits + 1])
                 \/ SaveLocally(u, [f[u] EXCEPT !.val = edits + 1, !.del = TRUE])
                 \/ StoreRemotely(u, [f[u] EXCEPT !.val = edits + 1])
                 \/ StoreRemotely(u, [f[u] EXCEPT !.val = edits + 1, !.del = TRUE])
          PROVE  NotesOnly'
      <3> DEFINE edited == [f[u] EXCEPT !.val = edits + 1]
                 deleted == [f[u] EXCEPT !.val = edits + 1, !.del = TRUE]
      <3>1. edited \in Item /\ deleted \in Item /\ u \in UUID /\ f[u] \in Item
        BY <1>1, EditedItemType, HeldType
      <3>2. edited.kind = "Note" /\ deleted.kind = "Note"
        BY <2>2, <3>1 DEF AllNotes, Item
      <3>3. \/ SaveLocally(u, edited) \/ StoreRemotely(u, edited)
            \/ SaveLocally(u, deleted) \/ StoreRemotely(u, deleted)
        BY <2>2
      <3> HIDE DEF edited, deleted
      <3>4. QED
        BY <1>5, <3>1, <3>2, <3>3
    <2>3. ASSUME NEW u \in UUID, Edit(u) \/ Delete(u) PROVE NotesOnly'
      BY <1>1, <1>2, <2>2, <2>3 DEF Edit, Delete, Held
    <2>4. ASSUME NEW u \in UUID, RemoteEdit(u) \/ RemoteDelete(u) PROVE NotesOnly'
      BY <1>1, <1>2, <2>2, <2>4 DEF RemoteEdit, RemoteDelete, Held
    <2>5. QED
      BY <1>6, <2>1, <2>3, <2>4 DEF Application, OtherClients
  <1>7. ASSUME NEW age, Begin(age) PROVE NotesOnly'
    <2>1. /\ UNCHANGED <<db, server, theirs, resolved, saved, got>>
          /\ push' = [u \in UUID |-> IF u \in flagged /\ ~Blocked(db[u]) THEN db[u] ELSE None]
          /\ refused' = refused \cup {db[u].val : u \in {v \in flagged : Blocked(db[v])}}
      BY <1>7 DEF Begin, serverVars
    <2>2. AllNotes(push')
      BY <1>2, <2>1 DEF AllNotes, Held
    <2>3. ASSUME NEW u \in flagged PROVE ~Blocked(db[u])
      <3>1. db[u].kind = "Note"
        BY <1>2 DEF AllNotes, IInv, DirtyExist
      <3>2. QED
        BY <3>1 DEF Blocked, ProtectedDeletion
    <2>4. refused' = {}
      BY <1>2, <2>1, <2>3
    <2>5. /\ AllNotes(db)' /\ AllNotes(server)' /\ AllNotes(theirs)'
          /\ AllNotes(resolved)' /\ AllNotes(saved)' /\ AllNotes(got)'
      BY <1>2, <2>1 DEF AllNotes, Held
    <2>6. QED
      BY <2>2, <2>4, <2>5 DEF NotesOnly
  <1>8. CASE Exchange
    <2>1. PICK a, drop, redo, own : FirstExchange(a, drop, redo, own)
      BY <1>8, ExchangeSplit
    <2>2. /\ UNCHANGED <<db, push, resolved>>
          /\ Exchanged(push, sent, a, drop, redo, own)
          /\ saved' = Stamped(push, a, drop \cup redo)
          /\ got' = Retrieved(sent, push, a, drop, redo)
          /\ theirs' = Store(NoItems, server',
                             {u \in UUID : answer'[u] \notin {"none", "saved"}})
      BY <2>1 DEF FirstExchange
    <2>3. AllNotes(saved') /\ AllNotes(got') /\ AllNotes(server')
      BY <1>1, <1>2, <2>2, NotesAnswered
    <2>4. AllNotes(theirs')
      BY <2>2, <2>3, NoNotes, NotesMerged
    <2>5. refused' = {}
      BY <1>1, <1>2, <2>2, NothingRefused
    <2>6. AllNotes(db') /\ AllNotes(push') /\ AllNotes(resolved')
      BY <1>2, <2>2
    <2>7. QED
      BY <2>3, <2>4, <2>5, <2>6 DEF NotesOnly, AllNotes, Held
  <1>9. CASE NoConflict
    <2>1. /\ got' = Newest(got, saved)
          /\ UNCHANGED <<db, server, push, theirs, resolved, saved, refused>>
      BY <1>9 DEF NoConflict, dbVars, serverVars, history, mishaps
    <2>2. AllNotes(got')
      BY <1>2, <2>1, NotesMerged
    <2>3. QED
      BY <1>2, <2>1, <2>2 DEF NotesOnly, AllNotes, Held
  <1>10. CASE Resolve
    <2>1. /\ UNCHANGED <<db, server, push, theirs, saved, got>> /\ pc = "resolve"
          /\ refused' = refused \cup {push[u].val : u \in GivenUp}
      BY <1>10 DEF Resolve, dbVars, serverVars
    <2>2. refused' = {}
      BY <1>2, <2>1, NotesResolved
    <2>3. AllNotes(resolved')
      <3>1. ASSUME NEW u \in UUID, resolved'[u] # None
            PROVE  \/ resolved'[u] = Resolution(u)
                   \/ \E w \in Conflicts : resolved'[u] = push[w]
        BY <1>10, <3>1, ResolvedAre
      <3>2. ASSUME NEW u \in UUID, Resolution(u) # None PROVE Resolution(u).kind = "Note"
        BY <1>1, <1>2, <2>1, <3>2, ResolutionIs DEF AllNotes, Held, IInv
      <3>3. ASSUME NEW w \in Conflicts PROVE push[w].kind = "Note"
        BY <1>2, <2>1 DEF AllNotes, Held, IInv, ConflictsKnown, Conflicts
      <3>4. QED
        BY <3>1, <3>2, <3>3 DEF AllNotes, Held
    <2>4. QED
      BY <1>2, <2>1, <2>2, <2>3 DEF NotesOnly, AllNotes, Held
  <1>11. CASE Resync
    <2>1. PICK a, drop, redo, own :
              /\ SecondExchange(a, drop, redo, own)
              /\ \/ /\ Unresolved(Reported(a, drop, redo \cup own))
                    /\ Idle
                    /\ disturbed' = disturbed \cup Held(push) \cup Held(resolved)
                 \/ /\ ~Unresolved(Reported(a, drop, redo \cup own))
                    /\ saved' = Mine(a, drop, redo)
                    /\ got' = Newest(Newest(got, Retrieved(sent, resolved, a, drop, redo)),
                                     Mine(a, drop, redo))
                    /\ disturbed' = disturbed \cup drop
                    /\ pc' = "saveSaved"
                    /\ UNCHANGED <<dirty, push, sent, answer, theirs, resolved,
                                   newToken, done>>
      BY <1>11, ResyncSplit
    <2>2. db' = db /\ Exchanged(resolved, sent, a, drop, redo, own)
      BY <2>1 DEF SecondExchange
    <2>3. /\ AllNotes(server') /\ AllNotes(db')
          /\ AllNotes(Retrieved(sent, resolved, a, drop, redo))
      BY <1>1, <1>2, <2>2, NotesAnswered
    <2>4. refused' = {}
      BY <1>1, <1>2, <2>2, NothingRefused
    <2>5. AllNotes(Mine(a, drop, redo))
      <3> DEFINE both == Newest(saved, Stamped(resolved, a, drop \cup redo))
                 mine == Mine(a, drop, redo)
      <3>1. mine = [u \in UUID |-> IF both[u] # None /\ push[u] # None
                                  THEN [push[u] EXCEPT !.ts = both[u].ts] ELSE None]
        BY DEF Mine
      <3> HIDE DEF both, mine
      <3>2. ASSUME NEW u \in UUID, mine[u] # None PROVE mine[u].kind = "Note"
        <4>1. push[u] # None /\ mine[u] = [push[u] EXCEPT !.ts = both[u].ts]
          BY <3>1, <3>2
        <4>2. push[u] \in Item /\ push[u].kind = "Note"
          BY <1>1, <1>2, <4>1 DEF ItemMap, AllNotes, Held
        <4>3. QED
          BY <4>1, <4>2 DEF Item
      <3>3. AllNotes(mine)
        BY <3>2 DEF AllNotes, Held
      <3>4. QED
        BY <3>3 DEF mine
    <2>6. CASE Idle
      BY <1>2, <1>4, <2>3, <2>4, <2>6
    <2>7. CASE ~Idle
      <3>1. /\ saved' = Mine(a, drop, redo)
            /\ got' = Newest(Newest(got, Retrieved(sent, resolved, a, drop, redo)),
                             Mine(a, drop, redo))
            /\ UNCHANGED <<push, theirs, resolved>>
        BY <2>1, <2>7, Zenon
      <3>2. AllNotes(saved') /\ AllNotes(got')
        BY <1>2, <2>3, <2>5, <3>1, NotesMerged
      <3>3. QED
        BY <1>2, <2>3, <2>4, <3>1, <3>2 DEF NotesOnly, AllNotes, Held
    <2>8. QED
      BY <2>6, <2>7
  <1>12. CASE SaveSaved \/ DeleteSaved \/ Clean \/ SaveItems \/ DeleteItems
    <2>1. /\ UNCHANGED <<server, push, theirs, resolved, saved, got, refused>>
          /\ \/ db' = db
             \/ \E f \in {saved, got, NoItems} : \E b \in SUBSET UUID : db' = Store(db, f, b)
      BY <1>12 DEF SaveSaved, DeleteSaved, Clean, SaveItems, DeleteItems, Transaction,
                   Put, Remove, serverVars, history, mishaps
    <2>2. ASSUME NEW f \in {saved, got, NoItems}, NEW b PROVE AllNotes(Store(db, f, b))
      BY <1>2, NoNotes, NotesMerged
    <2>3. AllNotes(db')
      BY <1>2, <2>1, <2>2
    <2>4. QED
      BY <1>2, <2>1, <2>3 DEF NotesOnly, AllNotes, Held
  <1>13. CASE DropToken \/ UNCHANGED vars
    BY <1>3, <1>13 DEF DropToken, vars, dbVars, serverVars, runVars, history, mishaps
  <1>14. CASE SaveToken \/ Abort
    <2>1. UNCHANGED <<db, server, refused>> /\ Idle
      BY <1>14 DEF SaveToken, Abort, dbVars, serverVars, history, mishaps
    <2>2. AllNotes(db') /\ AllNotes(server')
      BY <1>2, <2>1
    <2>3. QED
      BY <1>4, <2>1, <2>2
  <1>15. QED
    BY <1>6, <1>7, <1>8, <1>9, <1>10, <1>11, <1>12, <1>13, <1>14, NothingSkipped
    DEF Next, SyncStep

\* With a server that refuses nothing, an item of the database (cache.Sync) that is
\* clean, or was ever stamped, is on the server, be it as a tombstone: no crash,
\* conflict or lost answer leaves one that only the database knows and no push sends.
THEOREM StoredInductive == ASSUME Refusals = {} PROVE Spec => []StoredInv
  <1>1. Init => StoredInv
    <2>1. SUFFICES ASSUME Init PROVE StoredInv
      OBVIOUS
    <2>2. db = NoItems /\ pc = "idle"
      BY <2>1 DEF Init
    <2>3. QED
      BY <2>2, NoItemsType, PhasesDistinct DEF StoredInv, Answering
  <1>2. IInv /\ TokenInv /\ StoredInv /\ [Next]_vars => StoredInv'
    BY ConstantsAssumption, StoredStep
  <1>3. QED
    BY <1>1, <1>2, Inductive, TokenInductive, PTL DEF Spec

\* An account that starts with notes and gets only notes never refuses an edit.
LEMMA NotesInductive ==
    ASSUME Refusals = {}, CreatedKinds \subseteq {"Note"}, AllNotes(InitialItems)
    PROVE  Spec => []NotesOnly
  <1>1. Init => NotesOnly
    BY NoNotes DEF Init, NotesOnly
  <1>2. IInv /\ TokenInv /\ DuplicateInv /\ NotesOnly /\ [Next]_vars => NotesOnly'
    BY ConstantsAssumption, NotesStep
  <1>3. Spec => [](IInv /\ TokenInv /\ DuplicateInv)
    BY Inductive, TokenInductive, DuplicateInductive, PTL
  <1>4. QED
    BY <1>1, <1>2, <1>3, PTL DEF Spec

\* Safety of where Convergence ends: in an account of notes, with a server that
\* answers saved or sync_conflict, a database (cache.Sync) without dirty items
\* whose token is of the server's last change is equal to the server.
THEOREM CaughtUpIsInSync ==
    ASSUME Refusals = {}, CreatedKinds \subseteq {"Note"}, AllNotes(InitialItems)
    PROVE  Spec => []CaughtUp
  <1>1. TokenInv /\ StoredInv /\ NotesOnly => CaughtUp
    <2>1. SUFFICES ASSUME TokenInv, StoredInv, NotesOnly, flagged = {}, token = clock,
                          NEW u \in UUID
                   PROVE  IF server[u] = None \/ server[u].del THEN db[u] = None
                                                               ELSE db[u] = server[u]
      BY DEF CaughtUp, InSync
    <2>2. AllNotes(db) /\ refused = {}
      BY <2>1 DEF NotesOnly
    <2>3. CASE server[u] = None
      BY <2>1, <2>3 DEF StoredInv, Held
    <2>4. CASE server[u] # None
      <3>1. u \in Held(server) /\ server[u].ts <= token
        BY <2>1, <2>4 DEF TokenInv, ClockInv, Held
      <3>2. Current(u)
        BY <2>1, <3>1 DEF TokenInv, BothCovered, CoveredTo, Horizons
      <3>3. QED
        BY <2>1, <2>2, <2>4, <3>2 DEF Current, AllNotes, Held
    <2>5. QED
      BY <2>3, <2>4
  <1>2. QED
    BY <1>1, TokenInductive, StoredInductive, NotesInductive, PTL

---------------------------------------------------------------------------
(* A sync comes to its end.                                                 *)

\* A transaction that does not end its phase writes something more of it.
LEMMA TransactionWrites ==
    ASSUME ConstantsAssumption, NEW here, NEW next, here # next, NEW S, NEW b,
           done \subseteq S, Transaction(here, S, next, b)
    PROVE  \/ pc' = next /\ done' = {}
           \/ pc' = here /\ done' \subseteq S /\ done \subseteq done' /\ done # done'
  <1>1. /\ b \in Batches(S \ done)
        /\ IF done \cup b = S
           THEN pc' = next /\ done' = {}
           ELSE pc' = here /\ done' = done \cup b
    BY DEF Transaction
  <1>2. b \subseteq S \ done /\ (Cardinality(b) = BatchSize \/ b = S \ done)
    BY <1>1 DEF Batches
  <1>3. CASE done \cup b = S
    BY <1>1, <1>3
  <1>4. CASE done \cup b # S
    <2>1. b # {}
      <3>1. SUFFICES ASSUME b = {} PROVE FALSE
        OBVIOUS
      <3>2. Cardinality(b) = 0 /\ BatchSize # 0
        BY <3>1, FS_EmptySet DEF ConstantsAssumption
      <3>3. QED
        BY <1>2, <1>4, <3>1, <3>2
    <2>2. QED
      BY <1>1, <1>2, <1>4, <2>1
  <1>5. QED
    BY <1>3, <1>4

\* What a step of a sync does to its phase and to what is written in it.
Onward ==
    \/ PhasesLeft' < PhasesLeft
    \/ PhasesLeft' = PhasesLeft /\ done \subseteq done' /\ done # done'

\* The five phases that write are left for the next one, or go on.
LEMMA WritesGoOn ==
    ASSUME ConstantsAssumption, DoneKnown,
           SaveSaved \/ DeleteSaved \/ Clean \/ SaveItems \/ DeleteItems
    PROVE  Onward /\ DoneKnown'
  <1>1. ASSUME NEW here, NEW next, here # next, NEW S, NEW b, done \subseteq S,
               Transaction(here, S, next, b)
        PROVE  /\ pc = here /\ UNCHANGED <<dirty, saved, got>>
               /\ \/ pc' = next /\ done' = {}
                  \/ pc' = here /\ done' \subseteq S /\ done \subseteq done' /\ done # done'
    <2>1. pc = here /\ UNCHANGED <<dirty, saved, got>>
      BY <1>1 DEF Transaction
    <2>2. QED
      BY <1>1, <2>1, TransactionWrites
  <1>2. (UNCHANGED <<saved, got>>) =>
          /\ Live(saved)' = Live(saved) /\ Removable(saved)' = Removable(saved)
          /\ Live(got)' = Live(got) /\ Removable(got)' = Removable(got)
    BY DEF Live, Removable, Gone, Held
  <1>3. CASE SaveSaved
    <2>1. PICK b \in SUBSET UUID : Transaction("saveSaved", Live(saved), "deleteSaved", b)
      BY <1>3 DEF SaveSaved
    <2>2. done \subseteq Live(saved)
      BY <2>1 DEF Transaction, DoneKnown
    <2>3. /\ pc = "saveSaved" /\ UNCHANGED <<saved, got>>
          /\ \/ pc' = "deleteSaved" /\ done' = {}
             \/ /\ pc' = "saveSaved" /\ done' \subseteq Live(saved)
                /\ done \subseteq done' /\ done # done'
      <3>1. "saveSaved" # "deleteSaved"
        OBVIOUS
      <3>2. QED
        BY <2>1, <2>2, <3>1, TransactionWrites, ZenonT(40) DEF Transaction
    <2>4. QED
      BY <1>2, <2>3 DEF Onward, PhasesLeft, DoneKnown
  <1>4. CASE DeleteSaved
    <2>1. PICK b \in SUBSET UUID : Transaction("deleteSaved", Removable(saved), "clean", b)
      BY <1>4 DEF DeleteSaved
    <2>2. done \subseteq Removable(saved)
      BY <2>1 DEF Transaction, DoneKnown
    <2>3. /\ pc = "deleteSaved" /\ UNCHANGED <<saved, got>>
          /\ \/ pc' = "clean" /\ done' = {}
             \/ /\ pc' = "deleteSaved" /\ done' \subseteq Removable(saved)
                /\ done \subseteq done' /\ done # done'
      BY <1>1, <2>1, <2>2
    <2>4. QED
      BY <1>2, <2>3 DEF Onward, PhasesLeft, DoneKnown
  <1>5. CASE Clean
    <2>1. PICK b \in SUBSET UUID : Transaction("clean", dirty, "saveItems", b)
      BY <1>5 DEF Clean
    <2>2. done \subseteq dirty
      BY <2>1 DEF Transaction, DoneKnown
    <2>3. /\ pc = "clean" /\ dirty' = dirty
          /\ \/ pc' = "saveItems" /\ done' = {}
             \/ /\ pc' = "clean" /\ done' \subseteq dirty
                /\ done \subseteq done' /\ done # done'
      BY <1>1, <2>1, <2>2
    <2>4. QED
      BY <2>3 DEF Onward, PhasesLeft, DoneKnown
  <1>6. CASE SaveItems
    <2>1. PICK b \in SUBSET UUID : Transaction("saveItems", Live(got), "deleteItems", b)
      BY <1>6 DEF SaveItems
    <2>2. done \subseteq Live(got)
      BY <2>1 DEF Transaction, DoneKnown
    <2>3. /\ pc = "saveItems" /\ UNCHANGED <<saved, got>>
          /\ \/ pc' = "deleteItems" /\ done' = {}
             \/ /\ pc' = "saveItems" /\ done' \subseteq Live(got)
                /\ done \subseteq done' /\ done # done'
      BY <1>1, <2>1, <2>2
    <2>4. QED
      BY <1>2, <2>3 DEF Onward, PhasesLeft, DoneKnown
  <1>7. CASE DeleteItems
    <2>1. PICK b \in SUBSET UUID : Transaction("deleteItems", Removable(got), "dropToken", b)
      BY <1>7 DEF DeleteItems
    <2>2. done \subseteq Removable(got)
      BY <2>1 DEF Transaction, DoneKnown
    <2>3. /\ pc = "deleteItems" /\ UNCHANGED <<saved, got>>
          /\ \/ pc' = "dropToken" /\ done' = {}
             \/ /\ pc' = "deleteItems" /\ done' \subseteq Removable(got)
                /\ done \subseteq done' /\ done # done'
      BY <1>1, <2>1, <2>2
    <2>4. QED
      BY <1>2, <2>3 DEF Onward, PhasesLeft, DoneKnown
  <1>8. QED
    BY <1>3, <1>4, <1>5, <1>6, <1>7

\* So do the other steps of a sync, and its end.
LEMMA SyncGoesOn ==
    ASSUME ConstantsAssumption, TypeOK, DoneKnown, SyncStep \/ Abort
    PROVE  Onward /\ DoneKnown'
  <1>1. CASE Exchange
    BY <1>1 DEF Exchange, Onward, PhasesLeft, DoneKnown
  <1>2. CASE NoConflict
    BY <1>2 DEF NoConflict, Onward, PhasesLeft, DoneKnown
  <1>3. CASE Resolve
    <2>1. pc = "resolve" /\ pc' = "resync" /\ done' = done
      BY <1>3 DEF Resolve
    <2>2. QED
      BY <2>1 DEF Onward, PhasesLeft, DoneKnown
  <1>4. CASE AllSkipped
    BY <1>4 DEF AllSkipped, Onward, PhasesLeft, DoneKnown
  <1>5. CASE Resync
    <2>1. /\ pc = "resync" /\ \/ pc' = "idle" /\ done' = {}
                              \/ pc' = "saveSaved" /\ done' = done
      BY <1>5 DEF Resync, Idle
    <2>2. QED
      BY <2>1 DEF Onward, PhasesLeft, DoneKnown
  <1>6. CASE DropToken
    BY <1>6 DEF DropToken, Onward, PhasesLeft, DoneKnown
  <1>7. CASE SaveToken
    BY <1>7 DEF SaveToken, Idle, Onward, PhasesLeft, DoneKnown
  <1>8. CASE Abort
    <2>1. pc # "idle" /\ pc \in Phases /\ pc' = "idle" /\ done' = {}
      BY <1>8 DEF Abort, Idle, TypeOK
    <2>2. QED
      BY <2>1 DEF Phases, Writing, Onward, PhasesLeft, DoneKnown
  <1>9. QED
    BY <1>1, <1>2, <1>3, <1>4, <1>5, <1>6, <1>7, <1>8, WritesGoOn DEF SyncStep

\* Each sync ends after as many phases, and as many transactions in each, as there
\* can be: cache.Sync has no loop that other clients or the server can keep going.
THEOREM SyncsAreBounded == Spec => SyncRunsOut
  <1> DEFINE Nearer == pc # "idle" => Onward \/ (OtherClients /\ UNCHANGED runVars)
  <1>1. Init => DoneKnown
    BY DEF Init, DoneKnown
  <1>2. ASSUME TypeOK, DoneKnown, Next PROVE DoneKnown' /\ Nearer
    <2>1. CASE Application
      <3>1. pc = "idle" /\ UNCHANGED runVars
        BY <2>1 DEF Application, Create, Edit, Delete, SaveLocally
      <3>2. QED
        BY <1>2, <3>1 DEF DoneKnown, runVars
    <2>2. CASE OtherClients
      <3>1. UNCHANGED runVars
        BY <2>2 DEF OtherClients, RemoteCreate, RemoteEdit, RemoteDelete, StoreRemotely
      <3>2. UNCHANGED <<pc, done, dirty, saved, got>>
        BY <3>1 DEF runVars
      <3>3. QED
        BY <1>2, <2>2, <3>1, <3>2 DEF DoneKnown, Live, Removable, Gone, Held
    <2>3. ASSUME NEW age \in Ages, Begin(age) PROVE DoneKnown' /\ Nearer
      <3>1. pc = "idle" /\ pc' = "exchange" /\ done' = done
        BY <2>3 DEF Begin
      <3>2. QED
        BY <1>2, <3>1 DEF DoneKnown
    <2>4. QED
      BY <1>2, <2>1, <2>2, <2>3, ConstantsAssumption, SyncGoesOn DEF Next
  <1>3. DoneKnown /\ UNCHANGED vars => DoneKnown'
    BY DEF vars, runVars, DoneKnown, Live, Removable, Gone, Held
  <1>4. TypeOK /\ DoneKnown /\ [Next]_vars => DoneKnown' /\ [Nearer]_vars
    BY <1>2, <1>3
  <1>5. QED
    BY <1>1, <1>4, TypeCorrect, PTL DEF Spec, SyncRunsOut, Onward

=============================================================================
