--------------------------- MODULE ItemsKeysProofs ---------------------------
(* Theorems about ItemsKeys, for every value of its constants. *)
EXTENDS ItemsKeys, TLAPS

---------------------------------------------------------------------------
(* What the operators return. *)

\* The empty map is a map of items and holds nothing.
LEMMA NoItemsFacts == NoItems \in ItemMap /\ \A n \in Name : NoItems[n] = None
  BY DEF NoItems, ItemMap

\* An item is something.
LEMMA ItemFacts ==
    ASSUME KeysAssumption, NEW k \in Key \cup {None}, NEW made \in Nat, NEW t \in Nat,
           NEW marked \in BOOLEAN, NEW d \in BOOLEAN
    PROVE  /\ [under |-> k, made |-> made, ts |-> t, marked |-> marked, del |-> d] \in Item
           /\ [under |-> k, made |-> made, ts |-> t, marked |-> marked, del |-> d] # None
  <1>1. [under |-> k, made |-> made, ts |-> t, marked |-> marked, del |-> d] \in Item
    BY DEF Item
  <1>2. QED
    BY <1>1 DEF KeysAssumption

\* Which of two lists wins, and what it holds.
LEMMA NewestFacts ==
    ASSUME NEW f \in ItemMap, NEW g \in ItemMap
    PROVE  /\ Newest(f, g) \in ItemMap
           /\ \A n \in Name : Newest(f, g)[n] \in {f[n], g[n]}
           /\ \A n \in Name : f[n] # None => Newest(f, g)[n] # None
  BY DEF Newest, ItemMap

\* The time of an answer is not before the present.
LEMMA NowFacts ==
    ASSUME NEW f, clock \in Nat
    PROVE  Now(f) \in Nat /\ clock <= Now(f)
  BY DEF Now

\* Saved items are the pushed ones under a new time.
LEMMA SavedFacts ==
    ASSUME KeysAssumption, NEW f \in ItemMap, clock \in Nat
    PROVE  /\ SavedOf(f) \in ItemMap
           /\ \A n \in Name : SavedOf(f)[n] # None =>
                 f[n] # None /\ SavedOf(f)[n].under = f[n].under
  <1>1. ASSUME NEW n \in Held(f)
        PROVE  /\ n \in Name /\ f[n] # None /\ [f[n] EXCEPT !.ts = Now(f)] \in Item
               /\ [f[n] EXCEPT !.ts = Now(f)].under = f[n].under
    <2>1. n \in Name /\ f[n] # None /\ f[n] \in Item
      BY DEF Held, ItemMap
    <2>2. QED
      BY <2>1, NowFacts DEF Item
  <1>2. QED
    BY <1>1 DEF SavedOf, ItemMap

\* Retrieved items are the server's, and include every key after the token.
LEMMA ChangedFacts ==
    ASSUME server \in ItemMap, NEW t, NEW f \in ItemMap
    PROVE  /\ ChangedSince(t, f) \in ItemMap
           /\ \A n \in Name : ChangedSince(t, f)[n] \in {server[n], None}
           /\ \A n \in Name : f[n] = None /\ server[n] # None /\ server[n].ts > t =>
                 ChangedSince(t, f)[n] = server[n]
  BY DEF ChangedSince, ItemMap, Stale, Held

\* A request that pushes no key leaves the server's keys alone.
LEMMA StoresFacts ==
    ASSUME KeysAssumption, server \in ItemMap, clock \in Nat, NEW f \in ItemMap,
           \A k \in Key : f[k] = None, UnderKnown(server), UnderKnown(f), Stores(f)
    PROVE  /\ server' \in ItemMap /\ clock' \in Nat /\ clock <= clock' /\ clock' = Now(f)
           /\ \A k \in Key : server'[k] = server[k]
           /\ \A u \in UUID : server'[u] # None => server'[u].under \in Key
                                                  /\ server'[server'[u].under] # None
  <1>1. /\ SavedOf(f) \in ItemMap
        /\ \A n \in Name : SavedOf(f)[n] # None =>
              f[n] # None /\ SavedOf(f)[n].under = f[n].under
    BY SavedFacts
  <1>2. server' = [n \in Name |-> IF SavedOf(f)[n] # None THEN SavedOf(f)[n] ELSE server[n]]
    BY DEF Stores, Over
  <1>3. server' \in ItemMap
    BY <1>1, <1>2 DEF ItemMap
  <1>4. \A k \in Key : server'[k] = server[k]
    BY <1>1, <1>2 DEF Name
  <1>5. ASSUME NEW u \in UUID, server'[u] # None
        PROVE  server'[u].under \in Key /\ server'[server'[u].under] # None
    BY <1>1, <1>2, <1>4, <1>5 DEF UnderKnown, Name
  <1>6. QED
    BY <1>3, <1>4, <1>5, NowFacts DEF Stores

\* processSessionItemsKeysInSavedItems: the session has the keys of the list, or
\* what it had, and its default key is one of them.
LEMMA ReplaceFacts ==
    ASSUME KeysAssumption, NEW f \in ItemMap, ReplaceKeys(f),
           keys \in [Key -> SessionKey \cup {None}], default \in Key \cup {None}
    PROVE  /\ keys' \in [Key -> SessionKey \cup {None}] /\ default' \in Key \cup {None}
           /\ KeysIn(f) = {} => UNCHANGED <<keys, default>>
           /\ KeysIn(f) # {} =>
                 /\ \A k \in Key : keys'[k] # None <=> f[k] # None
                 /\ default' \in Key /\ keys'[default'] # None
  <1>1. CASE KeysIn(f) = {}
    BY <1>1 DEF ReplaceKeys, sessionVars
  <1>2. CASE KeysIn(f) # {}
    <2>1. keys' = [k \in Key |-> IF f[k] = None THEN None ELSE AsSessionKey(f[k])]
      BY <1>2 DEF ReplaceKeys
    <2>2. \A k \in Key : f[k] # None => AsSessionKey(f[k]) \in SessionKey
      BY DEF AsSessionKey, SessionKey, ItemMap, Item, Name
    <2>3. \A k \in Key : f[k] # None => AsSessionKey(f[k]) # None
      BY <2>2 DEF KeysAssumption
    <2>4. default' \in Held(keys')
      BY <1>2 DEF ReplaceKeys, Marked
    <2>5. QED
      BY <1>2, <2>1, <2>2, <2>3, <2>4 DEF Held
  <1>3. QED
    BY <1>1, <1>2

\* processCachedItemsKeys: the session gains the keys of the list and loses none,
\* and its default key is one of them.
LEMMA MergeFacts ==
    ASSUME KeysAssumption, NEW f \in ItemMap, MergeKeys(f),
           keys \in [Key -> SessionKey \cup {None}], default \in Key \cup {None},
           default # None => keys[default] # None
    PROVE  /\ keys' \in [Key -> SessionKey \cup {None}] /\ default' \in Key \cup {None}
           /\ \A k \in Key : keys'[k] # None <=> (keys[k] # None \/ f[k] # None)
           /\ default' # None => keys'[default'] # None
           /\ default # None \/ KeysIn(f) # {} => default' # None
  <1>1. keys' = [k \in Key |-> IF f[k] = None \/ (keys[k] # None /\ keys[k].ts >= f[k].ts)
                               THEN keys[k] ELSE Unmarked(f[k])]
    BY DEF MergeKeys, MergedKeys
  <1>2. \A k \in Key : f[k] # None => Unmarked(f[k]) \in SessionKey
    BY DEF Unmarked, SessionKey, ItemMap, Item, Name
  <1>3. \A k \in Key : f[k] # None => Unmarked(f[k]) # None
    BY <1>2 DEF KeysAssumption
  <1>4. keys' \in [Key -> SessionKey \cup {None}]
    BY <1>1, <1>2
  <1>5. \A k \in Key : keys'[k] # None <=> (keys[k] # None \/ f[k] # None)
    BY <1>1, <1>3
  <1>6. None \notin Key
    BY DEF KeysAssumption, Name
  <1>7. CASE Held(keys') = {}
    <2>1. default' = default
      BY <1>7 DEF MergeKeys
    <2>2. \A k \in Key : keys'[k] = None
      BY <1>4, <1>7 DEF Held
    <2>3. default = None /\ KeysIn(f) = {}
      BY <1>5, <2>2 DEF KeysIn
    <2>4. QED
      BY <1>4, <1>5, <2>1, <2>3
  <1>8. CASE Held(keys') # {}
    <2>1. default' \in Held(keys')
      BY <1>8 DEF MergeKeys, Marked
    <2>2. default' \in Key /\ keys'[default'] # None
      BY <1>4, <2>1 DEF Held
    <2>3. QED
      BY <1>4, <1>5, <1>6, <2>2
  <1>9. QED
    BY <1>7, <1>8

\* Writing a list to the database.
LEMMA WrittenFacts ==
    ASSUME db \in ItemMap, NEW f \in ItemMap, NEW b
    PROVE  /\ Written(f, b) \in ItemMap
           /\ \A n \in Name : Written(f, b)[n] \in {db[n], f[n], None}
           /\ \A n \in Name : f[n] = None => Written(f, b)[n] = db[n]
           /\ \A n \in Name : f[n] # None /\ ~f[n].del => Written(f, b)[n] \in {db[n], f[n]}
           /\ \A n \in Name : n \in b /\ f[n] # None /\ ~f[n].del => Written(f, b)[n] = f[n]
  BY DEF Written, ItemMap

---------------------------------------------------------------------------
(* The invariant holds initially and every step keeps it. *)

\* The initial state.
LEMMA InitInv == ASSUME KeysAssumption, Init PROVE KeyInv
  <1> USE NoItemsFacts DEF Init
  <1>1. FirstKey \in Name /\ \A k \in Key : k \in Name
    BY DEF KeysAssumption, Name
  <1> DEFINE first == [under |-> None, made |-> 1, ts |-> 1, marked |-> TRUE, del |-> FALSE]
  <1>2. first \in Item /\ first # None
    BY ItemFacts
  <1>3. server \in ItemMap /\ server[FirstKey] = first
        /\ \A n \in Name : n # FirstKey => server[n] = None
    BY <1>1, <1>2 DEF ItemMap
  <1>4. TypeOK
    BY <1>3 DEF TypeOK
  <1>5. KeysStay
    BY <1>1, <1>2, <1>3 DEF KeysStay
  <1>6. NoKeyPushed
    BY <1>1 DEF NoKeyPushed
  <1>7. \A u \in UUID : u # FirstKey /\ u \in Name
    BY DEF KeysAssumption, Name
  <1>8. KeysKnown
    BY <1>1, <1>3, <1>7 DEF KeysKnown, UnderKnown
  <1>9. KeysCovered
    BY <1>1, <1>3, <1>2 DEF KeysCovered, KeysUpTo, Asking, Stored
  <1>10. DefaultComing
    BY DEF DefaultComing, Writing
  <1>11. QED
    BY <1>4, <1>5, <1>6, <1>8, <1>9, <1>10 DEF KeyInv

\* Another client rotates the key: keys only come, and with a later time.
LEMMA RotateInv ==
    ASSUME KeysAssumption, KeyInv, NEW k \in Key, NEW olds, RemoteRotate(k, olds)
    PROVE  KeyInv'
  <1>0. /\ clock' = clock + 1
        /\ UNCHANGED <<db, dirty, token, keys, default, pc, push, sent, theirs, resolved,
                       saved, got, newToken, synced, faults>>
    BY DEF RemoteRotate, dbVars, sessionVars, runVars
  <1>1. \A j \in Key : j \in Name
    BY DEF Name
  <1> DEFINE new == [under |-> None, made |-> clock + 1, ts |-> clock + 1,
                     marked |-> TRUE, del |-> FALSE]
  <1>2. clock \in Nat /\ new \in Item /\ new # None
    <2>1. clock \in Nat /\ clock + 1 \in Nat
      BY DEF KeyInv, TypeOK
    <2>2. QED
      BY <2>1, ItemFacts
  <1>3. \A n \in olds : /\ server[n] # None /\ n \in Key
                        /\ [server[n] EXCEPT !.marked = FALSE, !.ts = clock + 1] \in Item
                        /\ [server[n] EXCEPT !.marked = FALSE, !.ts = clock + 1] # None
                        /\ [server[n] EXCEPT !.marked = FALSE, !.ts = clock + 1].del = server[n].del
    <2>1. ASSUME NEW n \in olds PROVE server[n] # None /\ n \in Key /\ server[n] \in Item
      BY ZenonT(30), <1>1 DEF RemoteRotate, RemoteKeys, KeysIn, KeyInv, TypeOK, ItemMap
    <2>2. ASSUME NEW n \in olds
          PROVE  /\ [server[n] EXCEPT !.marked = FALSE, !.ts = clock + 1] \in Item
                 /\ [server[n] EXCEPT !.marked = FALSE, !.ts = clock + 1].del = server[n].del
      BY <1>2, <2>1 DEF Item
    <2>3. QED
      BY <2>1, <2>2 DEF KeysAssumption
  <1>4. \A n \in Name : server'[n] =
          IF n = k THEN new
          ELSE IF n \in olds THEN [server[n] EXCEPT !.marked = FALSE, !.ts = clock + 1]
          ELSE server[n]
    BY DEF RemoteRotate
  <1>5. \A n \in Name : server[n] # None => server'[n] # None
    BY <1>2, <1>3, <1>4
  <1>6. \A u \in UUID : u \in Name /\ server'[u] = server[u]
    BY <1>3, <1>4 DEF KeysAssumption, Name
  <1>7. ASSUME NEW j \in Key, server'[j] # None, server'[j] # server[j]
        PROVE  server'[j].ts = clock + 1 /\ ~server'[j].del
    <2>1. CASE j = k
      <3>1. server'[j] = new
        BY <1>1, <1>4, <2>1
      <3>2. QED
        BY <3>1
    <2>2. CASE j # k /\ j \in olds
      <3>1. server'[j] = [server[j] EXCEPT !.marked = FALSE, !.ts = clock + 1]
        BY <1>1, <1>4, <2>2
      <3>2. server[j] \in Item /\ ~server[j].del
        BY <1>1, <1>3, <2>2 DEF KeyInv, TypeOK, ItemMap, KeysStay
      <3>3. QED
        BY <3>1, <3>2 DEF Item
    <2>3. QED
      BY <1>1, <1>4, <1>7, <2>1, <2>2
  <1>8. TypeOK'
    <2>1. server' \in ItemMap
      BY <1>2, <1>3 DEF RemoteRotate, KeyInv, TypeOK, ItemMap
    <2>2. QED
      BY <1>0, <1>2, <2>1 DEF KeyInv, TypeOK
  <1>9. KeysStay'
    <2>1. FirstKey \in Name
      BY DEF KeysAssumption, Name
    <2>2. \A j \in Key : server[j] # None => server[j].ts \in 1..clock /\ ~server[j].del
      BY DEF KeyInv, KeysStay
    <2>3. ASSUME NEW j \in Key, server'[j] # None
          PROVE  server'[j].ts \in 1..clock' /\ ~server'[j].del
      BY <1>0, <1>2, <1>7, <2>2, <2>3
    <2>4. QED
      BY <1>0, <1>1, <1>5, <2>1, <2>3 DEF KeyInv, KeysStay
  <1>10. NoKeyPushed'
    BY <1>0 DEF KeyInv, NoKeyPushed
  <1>11. KeysKnown'
    BY <1>0, <1>1, <1>5, <1>6 DEF KeyInv, KeysKnown, UnderKnown
  <1>12. KeysCovered'
    <2>1. ASSUME NEW t \in Nat, t <= clock, NEW f, KeysUpTo(t, f)
          PROVE  \A j \in Key : server'[j] # None /\ server'[j].ts <= t => db[j] # None \/ f[j] # None
      <3> SUFFICES ASSUME NEW j \in Key, server'[j] # None, server'[j].ts <= t
                   PROVE  db[j] # None \/ f[j] # None
        OBVIOUS
      <3>1. server'[j] = server[j]
        BY <1>2, <1>7, <2>1
      <3>2. QED
        BY <2>1, <3>1 DEF KeysUpTo
    <2>2. token \in Nat /\ newToken \in Nat
      BY DEF KeyInv, TypeOK
    <2>3. NoItems' = NoItems
      BY DEF NoItems
    <2>4. KeysUpTo(token, NoItems)'
      BY <1>0, <2>1, <2>2, <2>3 DEF KeyInv, KeysCovered, KeysUpTo
    <2>5. pc # "idle" /\ pc # "request" => KeysUpTo(newToken, got)'
      BY <1>0, <2>1, <2>2 DEF KeyInv, KeysCovered, KeysUpTo
    <2>6. pc \in Stored => KeysUpTo(newToken, NoItems)'
      BY <1>0, <2>1, <2>2, <2>3 DEF KeyInv, KeysCovered, KeysUpTo, Stored
    <2>7. QED
      BY <1>0, <1>2, <2>2, <2>4, <2>5, <2>6 DEF KeyInv, KeysCovered, Asking, Stored
  <1>13. DefaultComing'
    BY <1>0 DEF KeyInv, DefaultComing, KeysIn
  <1>14. QED
    BY <1>8, <1>9, <1>10, <1>11, <1>12, <1>13 DEF KeyInv

\* Another client saves an item under a key of the server.
LEMMA RemoteSaveInv ==
    ASSUME KeysAssumption, KeyInv, NEW u \in UUID, NEW k \in Key, NEW del \in BOOLEAN,
           RemoteSave(u, k, del)
    PROVE  KeyInv'
  <1> USE DEF RemoteSave
  <1> DEFINE new == [under |-> k, made |-> 0, ts |-> clock + 1, marked |-> FALSE, del |-> del]
  <1>1. clock \in Nat /\ new \in Item /\ new # None /\ server[k] # None
    <2>1. clock \in Nat /\ clock + 1 \in Nat
      BY DEF KeyInv, TypeOK
    <2>2. new \in Item /\ new # None
      BY <2>1, ItemFacts
    <2>3. QED
      BY <2>1, <2>2 DEF RemoteKeys, KeysIn
  <1>2. server' \in ItemMap /\ server'[u] = new /\ \A n \in Name : n # u => server'[n] = server[n]
    BY <1>1 DEF KeyInv, TypeOK, ItemMap, Name
  <1>3. \A j \in Key : server'[j] = server[j]
    BY <1>2 DEF KeysAssumption, Name
  <1>4. TypeOK'
    BY <1>1, <1>2 DEF KeyInv, TypeOK, dbVars, sessionVars, runVars
  <1>5. KeysStay'
    BY <1>1, <1>3 DEF KeyInv, TypeOK, KeysStay, runVars, KeysAssumption
  <1>6. NoKeyPushed'
    BY DEF KeyInv, NoKeyPushed, dbVars, runVars
  <1>7. UnderKnown(server)'
    <2>1. \A v \in UUID : v \in Name
      BY DEF Name
    <2>2. QED
      BY <1>1, <1>2, <1>3, <2>1 DEF KeyInv, KeysKnown, UnderKnown
  <1>8. KeysKnown'
    BY <1>3, <1>7 DEF KeyInv, KeysKnown, UnderKnown, dbVars, sessionVars, runVars
  <1>9. KeysCovered'
    <2>1. NoItems' = NoItems
      BY DEF NoItems
    <2>2. token \in Nat /\ newToken \in Nat
      BY DEF KeyInv, TypeOK
    <2>3. QED
      BY <1>1, <1>3, <2>1, <2>2 DEF KeyInv, KeysCovered, KeysUpTo, Asking, Stored, dbVars, runVars
  <1>10. DefaultComing'
    BY DEF KeyInv, DefaultComing, dbVars, sessionVars, runVars, KeysIn
  <1>11. QED
    BY <1>4, <1>5, <1>6, <1>8, <1>9, <1>10 DEF KeyInv

\* The application saves an item under the default key.
LEMMA SaveItemInv ==
    ASSUME KeysAssumption, KeyInv, NEW u \in UUID, SaveItem(u)
    PROVE  KeyInv'
  <1> USE DEF SaveItem
  <1> DEFINE new == [under |-> default, made |-> 0,
                     ts |-> IF db[u] = None THEN 0 ELSE db[u].ts,
                     marked |-> FALSE, del |-> FALSE]
  <1>1. u \in Name /\ default \in Key /\ server[default] # None
    BY DEF KeyInv, TypeOK, KeysKnown, Name
  <1>2. new \in Item /\ new # None
    <2>1. (IF db[u] = None THEN 0 ELSE db[u].ts) \in Nat
      BY <1>1 DEF KeyInv, TypeOK, ItemMap, Item
    <2>2. QED
      BY <1>1, <2>1, ItemFacts
  <1>3. db' \in ItemMap /\ db'[u] = new /\ \A n \in Name : n # u => db'[n] = db[n]
    BY <1>1, <1>2 DEF KeyInv, TypeOK, ItemMap
  <1>4. \A j \in Key : db'[j] = db[j]
    BY <1>3 DEF KeysAssumption, Name
  <1>5. TypeOK'
    BY <1>1, <1>3 DEF KeyInv, TypeOK, serverVars, sessionVars, runVars
  <1>6. KeysStay' /\ NoKeyPushed'
    BY DEF KeyInv, KeysStay, NoKeyPushed, serverVars, runVars
  <1>7. UnderKnown(db)'
    <2>1. \A v \in UUID : v \in Name
      BY DEF Name
    <2>2. QED
      BY <1>1, <1>3, <2>1 DEF KeyInv, KeysKnown, UnderKnown, serverVars
  <1>8. KeysKnown'
    BY <1>4, <1>7 DEF KeyInv, KeysKnown, UnderKnown, serverVars, sessionVars, runVars
  <1>9. KeysCovered'
    <2>1. NoItems' = NoItems
      BY DEF NoItems
    <2>2. QED
      BY <1>4, <2>1 DEF KeyInv, KeysCovered, KeysUpTo, Asking, Stored, serverVars, runVars
  <1>10. DefaultComing'
    BY DEF KeyInv, DefaultComing, sessionVars, runVars, KeysIn
  <1>11. QED
    BY <1>5, <1>6, <1>8, <1>9, <1>10 DEF KeyInv

\* A sync starts: the keys of the database join those of the session.
LEMMA BeginInv == ASSUME KeysAssumption, KeyInv, Begin PROVE KeyInv'
  <1> USE DEF Begin
  <1>1. /\ keys' \in [Key -> SessionKey \cup {None}] /\ default' \in Key \cup {None}
        /\ \A k \in Key : keys'[k] # None => keys[k] # None \/ db[k] # None
        /\ default' # None => keys'[default'] # None
        /\ default # None => default' # None
    <2>1. CASE Held(db) = {}
      BY <2>1 DEF KeyInv, TypeOK, KeysKnown, sessionVars
    <2>2. CASE Held(db) # {}
      BY <2>2, MergeFacts DEF KeyInv, TypeOK, KeysKnown
    <2>3. QED
      BY <2>1, <2>2
  <1>2. push' \in ItemMap /\ \A n \in Name : push'[n] \in {db[n], None}
                                              /\ (n \notin dirty => push'[n] = None)
    BY DEF KeyInv, TypeOK, ItemMap
  <1>3. sent' \in Nat /\ sent' <= token /\ (sent' # 0 => default' # None)
    BY DEF TokenSent, KeyInv, TypeOK
  <1>4. TypeOK'
    BY <1>1, <1>2, <1>3 DEF KeyInv, TypeOK, serverVars, dbVars
  <1>5. KeysStay'
    BY DEF KeyInv, KeysStay, serverVars
  <1>6. \A k \in Key : k \notin UUID /\ k \in Name
    BY DEF KeysAssumption, Name
  <1>7. NoKeyPushed'
    BY <1>2, <1>6 DEF KeyInv, NoKeyPushed, dbVars
  <1>8. \A v \in UUID : v \in Name
    BY DEF Name
  <1>9. UnderKnown(push)'
    BY <1>2, <1>8 DEF KeyInv, KeysKnown, UnderKnown, serverVars
  <1>10. KeysKnown'
    BY <1>1, <1>9 DEF KeyInv, KeysKnown, UnderKnown, serverVars, dbVars
  <1>11. KeysCovered'
    <2>1. NoItems' = NoItems
      BY DEF NoItems
    <2>2. QED
      BY <1>3, <2>1 DEF KeyInv, KeysCovered, KeysUpTo, Asking, Stored, serverVars, dbVars
  <1>12. DefaultComing'
    BY <1>3 DEF DefaultComing, Writing
  <1>13. QED
    BY <1>4, <1>5, <1>7, <1>10, <1>11, <1>12 DEF KeyInv

\* A sync that returns: its lists are empty, its input stays when it tries again.
LEMMA ReturnInv ==
    ASSUME KeysAssumption, KeyInv, NEW next \in {"idle", "request"},
           pc = "idle" \/ next = "idle" \/ pc \in Asking, Return(next),
           db' \in ItemMap, dirty' \subseteq dirty, faults' \in Nat, synced' \in BOOLEAN,
           UNCHANGED serverVars, token' \in Nat, token' <= clock,
           UnderKnown(db)', KeysUpTo(token, NoItems)', pc' = "request" => token' = token,
           \A k \in Key : db'[k] # None => db[k] # None \/ server[k] # None,
           \/ UNCHANGED sessionVars
           \/ keys' = [k \in Key |-> None] /\ default' = None /\ next = "idle",
           synced' => default' # None,
           pc = "idle" => next = "idle"
    PROVE  KeyInv'
  <1> USE DEF Return
  <1>1. /\ push' \in ItemMap /\ theirs' = NoItems /\ resolved' = NoItems
        /\ saved' = NoItems /\ got' = NoItems /\ newToken' = 0 /\ sent' \in Nat
        /\ \A n \in Name : push'[n] \in {push[n], None}
    BY NoItemsFacts DEF KeyInv, TypeOK
  <1>2. \A k \in Key : k \in Name
    BY DEF Name
  <1>3. \A u \in UUID : u \in Name
    BY DEF Name
  <1>4. TypeOK'
    <2>1. keys' \in [Key -> SessionKey \cup {None}] /\ default' \in Key \cup {None}
      BY DEF KeyInv, TypeOK, sessionVars
    <2>2. QED
      BY <1>1, <2>1, NoItemsFacts DEF KeyInv, TypeOK, serverVars
  <1>5. KeysStay'
    BY <1>1, <1>2, NoItemsFacts DEF KeyInv, KeysStay, serverVars
  <1>6. NoKeyPushed'
    BY <1>1, <1>2, NoItemsFacts DEF KeyInv, NoKeyPushed
  <1>7. KeysKnown'
    <2>1. UnderKnown(push)'
      BY <1>1, <1>3 DEF KeyInv, KeysKnown, UnderKnown, serverVars
    <2>2. /\ UnderKnown(theirs)' /\ UnderKnown(resolved)'
          /\ UnderKnown(saved)' /\ UnderKnown(got)'
      BY <1>1, <1>3, NoItemsFacts DEF UnderKnown
    <2>3. \A k \in Key : db'[k] # None \/ keys'[k] # None => server'[k] # None
      BY DEF KeyInv, KeysKnown, serverVars, sessionVars
    <2>4. default' # None => keys'[default'] # None
      BY DEF KeyInv, KeysKnown, sessionVars
    <2>5. UnderKnown(server)'
      BY DEF KeyInv, KeysKnown, UnderKnown, serverVars
    <2>6. QED
      BY <2>1, <2>2, <2>3, <2>4, <2>5 DEF KeysKnown
  <1>8. KeysCovered'
    <2>1. pc' \in Asking => pc' = "request" /\ pc \in Asking /\ sent' = sent
      BY DEF Asking
    <2>2. pc' \in Asking => sent' <= token'
      BY <2>1 DEF KeyInv, KeysCovered, Asking
    <2>3. KeysUpTo(token, NoItems)'
      OBVIOUS
    <2>4. QED
      BY <1>1, <2>2, <2>3 DEF KeysCovered, Stored, serverVars
  <1>9. DefaultComing'
    <2>1. pc' = "request" => sent' = sent /\ default' = default /\ pc # "idle"
      BY DEF sessionVars, Asking
    <2>2. QED
      BY <2>1 DEF KeyInv, DefaultComing, Writing
  <1>10. QED
    BY <1>4, <1>5, <1>6, <1>7, <1>8, <1>9 DEF KeyInv

\* A sync is skipped.
LEMMA SkipInv == ASSUME KeysAssumption, KeyInv, Skip PROVE KeyInv'
  <1>1. NoItems' = NoItems
    BY DEF NoItems
  <1>2. KeysUpTo(token, NoItems)' /\ UnderKnown(db)' /\ token' <= clock
    BY <1>1 DEF Skip, KeyInv, KeysCovered, KeysUpTo, KeysKnown, UnderKnown, serverVars, dbVars
  <1>3. default' # None
    BY DEF Skip, KeyInv, DefaultComing, sessionVars
  <1>4. /\ db' \in ItemMap /\ dirty' \subseteq dirty /\ faults' \in Nat /\ synced' \in BOOLEAN
        /\ token' \in Nat /\ pc' # "request" /\ pc = "request" /\ db' = db
        /\ UNCHANGED serverVars /\ UNCHANGED sessionVars /\ Return("idle")
    BY DEF Skip, Return, dbVars, KeyInv, TypeOK
  <1>5. QED
    BY <1>2, <1>3, <1>4, ReturnInv DEF Asking

\* The first request and its answer.
LEMMA RequestInv == ASSUME KeysAssumption, KeyInv, Request PROVE KeyInv'
  <1>1. /\ saved' = SavedOf(push) /\ got' = ChangedSince(sent, push) /\ newToken' = Now(push)
        /\ theirs' = [n \in Name |-> IF n \in Stale(push) THEN server[n] ELSE None]
        /\ pc = "request" /\ pc' = "resolve"
        /\ UNCHANGED <<db, dirty, token, push, sent, resolved, synced, faults>>
    BY DEF Request, dbVars
  <1>2. /\ server' \in ItemMap /\ clock' \in Nat /\ clock <= clock' /\ clock' = Now(push)
        /\ \A k \in Key : server'[k] = server[k]
        /\ \A u \in UUID : server'[u] # None => server'[u].under \in Key
                                               /\ server'[server'[u].under] # None
    BY StoresFacts DEF Request, KeyInv, TypeOK, NoKeyPushed, KeysKnown
  <1>3. /\ saved' \in ItemMap
        /\ \A n \in Name : saved'[n] # None => push[n] # None /\ saved'[n].under = push[n].under
    BY <1>1, SavedFacts DEF KeyInv, TypeOK
  <1>4. /\ got' \in ItemMap
        /\ \A n \in Name : got'[n] \in {server[n], None}
        /\ \A n \in Name : push[n] = None /\ server[n] # None /\ server[n].ts > sent =>
              got'[n] = server[n]
    BY <1>1, ChangedFacts DEF KeyInv, TypeOK
  <1>5. theirs' \in ItemMap /\ \A n \in Name : theirs'[n] # None => push[n] # None /\ theirs'[n] = server[n]
    BY <1>1 DEF KeyInv, TypeOK, ItemMap, Stale, Held
  <1>6. \A n \in Key \cup UUID : n \in Name
    BY DEF Name
  <1>7. \A k \in Key : saved'[k] = None /\ theirs'[k] = None
    BY <1>3, <1>5, <1>6 DEF KeyInv, NoKeyPushed
  <1>8. /\ keys' \in [Key -> SessionKey \cup {None}] /\ default' \in Key \cup {None}
        /\ \A k \in Key : keys'[k] # None => keys[k] # None \/ got'[k] # None
        /\ default' # None => keys'[default'] # None
        /\ default # None => default' # None
    <2> DEFINE list == IF Held(saved') # {} THEN saved' ELSE got'
    <2>1. list \in ItemMap /\ ReplaceKeys(list)
      BY <1>3, <1>4 DEF Request
    <2>2. \A k \in Key : list[k] # None => got'[k] # None
      BY <1>7
    <2>3. keys \in [Key -> SessionKey \cup {None}] /\ default \in Key \cup {None}
          /\ (default # None => keys[default] # None)
      BY DEF KeyInv, TypeOK, KeysKnown
    <2> HIDE DEF list
    <2>4. None \notin Key
      BY DEF KeysAssumption, Name
    <2>5. QED
      BY <2>1, <2>2, <2>3, <2>4, ReplaceFacts
  <1>9. TypeOK'
    BY <1>1, <1>2, <1>3, <1>4, <1>5, <1>8 DEF KeyInv, TypeOK
  <1>10. KeysStay'
    <2>1. FirstKey \in Key
      BY DEF KeysAssumption
    <2>2. ASSUME NEW k \in Key, server'[k] # None
          PROVE  ~server'[k].del /\ server'[k].ts \in 1..clock'
      BY <1>2, <2>2 DEF KeyInv, KeysStay, TypeOK
    <2>3. ASSUME NEW k \in Key, got'[k] # None
          PROVE  ~got'[k].del /\ server'[k] # None
      BY <1>2, <1>4, <1>6, <2>3 DEF KeyInv, KeysStay
    <2>4. QED
      BY <1>2, <2>1, <2>2, <2>3 DEF KeyInv, KeysStay
  <1>11. NoKeyPushed'
    BY <1>1, <1>5, <1>6, <1>7 DEF KeyInv, NoKeyPushed
  <1>12. KeysKnown'
    <2>1. UnderKnown(server)'
      BY <1>2 DEF UnderKnown
    <2>2. UnderKnown(db)' /\ UnderKnown(push)' /\ UnderKnown(resolved)'
      BY <1>1, <1>2 DEF KeyInv, KeysKnown, UnderKnown
    <2>3. UnderKnown(saved)'
      BY <1>2, <1>3, <1>6 DEF KeyInv, KeysKnown, UnderKnown
    <2>4. UnderKnown(theirs)'
      BY <1>2, <1>5, <1>6 DEF KeyInv, KeysKnown, UnderKnown
    <2>5. UnderKnown(got)'
      BY <1>2, <1>4, <1>6 DEF KeyInv, KeysKnown, UnderKnown
    <2>6. \A k \in Key : db'[k] # None \/ keys'[k] # None => server'[k] # None
      BY <1>1, <1>2, <1>4, <1>6, <1>8 DEF KeyInv, KeysKnown
    <2>7. QED
      BY <1>8, <2>1, <2>2, <2>3, <2>4, <2>5, <2>6 DEF KeysKnown
  <1>13. KeysCovered'
    <2>1. NoItems' = NoItems
      BY DEF NoItems
    <2>2. token' <= clock' /\ newToken' <= clock' /\ sent' <= token'
      BY <1>1, <1>2 DEF KeyInv, TypeOK, KeysCovered, Asking
    <2>3. KeysUpTo(token, NoItems)'
      BY <1>1, <1>2, <2>1 DEF KeyInv, KeysCovered, KeysUpTo
    <2>4. ASSUME NEW k \in Key, server[k] # None PROVE db[k] # None \/ got'[k] # None
      <3>1. server[k].ts \in Nat /\ sent \in Nat /\ token \in Nat
        BY <1>6, <2>4 DEF KeyInv, TypeOK, ItemMap, Item
      <3>2. CASE server[k].ts > sent
        BY <1>4, <1>6, <2>4, <3>2 DEF KeyInv, NoKeyPushed
      <3>3. CASE server[k].ts <= sent
        <4>1. server[k].ts <= token
          BY <1>1, <3>1, <3>3 DEF KeyInv, KeysCovered, Asking
        <4>2. QED
          BY <1>6, <2>4, <4>1, NoItemsFacts DEF KeyInv, KeysCovered, KeysUpTo
      <3>4. QED
        BY <3>1, <3>2, <3>3
    <2>5. KeysUpTo(newToken, got)'
      BY <1>1, <1>2, <2>4 DEF KeysUpTo
    <2>6. QED
      BY <1>1, <2>2, <2>3, <2>5 DEF KeysCovered, Stored
  <1>14. DefaultComing'
    <2>1. sent = 0 => got'[FirstKey] # None
      BY <1>4, <1>6 DEF KeyInv, KeysStay, NoKeyPushed, KeysAssumption
    <2>2. sent # 0 => default' # None
      BY <1>1, <1>8 DEF KeyInv, DefaultComing
    <2>3. default' # None \/ KeysIn(got') # {}
      BY <2>1, <2>2 DEF KeysIn, KeysAssumption
    <2>4. synced' => default' # None
      BY <1>1, <1>8 DEF KeyInv, DefaultComing
    <2>5. QED
      BY <1>1, <2>2, <2>3, <2>4 DEF DefaultComing, Writing, KeysIn
  <1>15. QED
    BY <1>9, <1>10, <1>11, <1>12, <1>13, <1>14 DEF KeyInv

\* An answer without conflicts.
LEMMA NoConflictInv == ASSUME KeysAssumption, KeyInv, NoConflict PROVE KeyInv'
  <1>1. /\ got' = Newest(got, saved) /\ pc = "resolve" /\ pc' = "saveSaved"
        /\ UNCHANGED <<server, clock, db, dirty, token, keys, default, push, sent, theirs,
                       resolved, saved, newToken, synced, faults>>
    BY DEF NoConflict, serverVars, dbVars, sessionVars
  <1>2. /\ got' \in ItemMap /\ \A n \in Name : got'[n] \in {got[n], saved[n]}
        /\ \A n \in Name : got[n] # None => got'[n] # None
    BY <1>1, NewestFacts DEF KeyInv, TypeOK
  <1>3. \A n \in Key \cup UUID : n \in Name
    BY DEF Name
  <1>4. \A k \in Key : got'[k] = got[k]
    BY <1>2, <1>3 DEF KeyInv, NoKeyPushed
  <1>5. TypeOK'
    BY <1>1, <1>2 DEF KeyInv, TypeOK
  <1>6. KeysStay' /\ NoKeyPushed'
    BY <1>1, <1>4 DEF KeyInv, KeysStay, NoKeyPushed
  <1>7. UnderKnown(got)'
    BY <1>1, <1>2, <1>3 DEF KeyInv, KeysKnown, UnderKnown
  <1>8. KeysKnown'
    BY <1>1, <1>7 DEF KeyInv, KeysKnown, UnderKnown
  <1>9. KeysCovered'
    <2>1. NoItems' = NoItems
      BY DEF NoItems
    <2>2. QED
      BY <1>1, <1>4, <2>1 DEF KeyInv, KeysCovered, KeysUpTo, Asking, Stored
  <1>10. DefaultComing'
    BY <1>1, <1>4 DEF KeyInv, DefaultComing, Writing, KeysIn
  <1>11. QED
    BY <1>5, <1>6, <1>8, <1>9, <1>10 DEF KeyInv

\* Conflicts are resolved: what is pushed again is under the default key, or
\* under the key it was under.
LEMMA ResolveInv == ASSUME KeysAssumption, KeyInv, Resolve PROVE KeyInv'
  <1>1. /\ pc = "resolve" /\ pc' = "resync"
        /\ UNCHANGED <<server, clock, db, dirty, token, keys, default, push, sent, theirs,
                       saved, got, newToken, synced, faults>>
    BY DEF Resolve, serverVars, dbVars, sessionVars
  <1>2. \A n \in Key \cup UUID : n \in Name
    BY DEF Name
  <1>3. ASSUME NEW u \in Held(theirs)
        PROVE  /\ u \in UUID /\ u \in Name /\ theirs[u] \in Item /\ push[u] \in Item
               /\ push[u] # None
    <2>1. u \in Name /\ theirs[u] # None
      BY DEF KeyInv, TypeOK, ItemMap, Held
    <2>2. u \in UUID
      BY <2>1 DEF KeyInv, NoKeyPushed, Name
    <2>3. push[u] # None
      BY <1>1, <2>1, <2>2 DEF KeyInv, NoKeyPushed
    <2>4. QED
      BY <2>1, <2>2, <2>3 DEF KeyInv, TypeOK, ItemMap
  <1>4. PICK name \in [{w \in Held(theirs) : ~KeepsLocal(w)} ->
                          {u \in UUID : db[u] = None /\ server[u] = None}] :
          resolved' = [n \in Name |->
                IF \E u \in {w \in Held(theirs) : ~KeepsLocal(w)} : name[u] = n
                THEN [push[CHOOSE u \in {w \in Held(theirs) : ~KeepsLocal(w)} : name[u] = n]
                        EXCEPT !.under = default]
                ELSE IF n \in Held(theirs) \ {w \in Held(theirs) : ~KeepsLocal(w)}
                     THEN [push[n] EXCEPT !.ts = theirs[n].ts]
                ELSE None]
    BY DEF Resolve
  <1> DEFINE dups == {w \in Held(theirs) : ~KeepsLocal(w)}
  <1> HIDE DEF dups
  <1>5. default \in Key /\ server[default] # None
    <2>1. \E u \in Held(theirs) : CanResolve(u)
      BY DEF Resolve
    <2>2. QED
      BY <2>1 DEF CanResolve, KeyInv, KeysKnown, TypeOK
  <1>6. ASSUME NEW n \in Name
        PROVE  \/ resolved'[n] = None
               \/ /\ n \in UUID /\ resolved'[n] \in Item
                  /\ resolved'[n].under \in Key /\ server[resolved'[n].under] # None
    <2>1. CASE \E u \in dups : name[u] = n
      <3>1. PICK u \in dups : u = CHOOSE w \in dups : name[w] = n
        BY <2>1
      <3>2. (CHOOSE w \in dups : name[w] = n) \in dups
        BY <2>1
      <3>3. resolved'[n] = [push[CHOOSE w \in dups : name[w] = n] EXCEPT !.under = default]
        BY <1>4, <2>1 DEF dups
      <3>4. n \in UUID
        BY <1>4, <2>1 DEF dups
      <3>5. push[CHOOSE w \in dups : name[w] = n] \in Item
        BY <1>3, <3>2 DEF dups
      <3>6. QED
        BY <1>5, <3>3, <3>4, <3>5 DEF Item
    <2>2. CASE ~(\E u \in dups : name[u] = n) /\ n \in Held(theirs) \ dups
      <3>1. resolved'[n] = [push[n] EXCEPT !.ts = theirs[n].ts]
        BY <1>4, <2>2 DEF dups
      <3>2. push[n] \in Item /\ theirs[n].ts \in Nat /\ n \in UUID /\ push[n] # None
        BY <1>3, <2>2 DEF Item
      <3>3. push[n].under \in Key /\ server[push[n].under] # None
        BY <3>2 DEF KeyInv, KeysKnown, UnderKnown
      <3>4. QED
        BY <3>1, <3>2, <3>3 DEF Item
    <2>3. CASE ~(\E u \in dups : name[u] = n) /\ n \notin Held(theirs) \ dups
      BY <1>4, <2>3 DEF dups
    <2>4. QED
      BY <2>1, <2>2, <2>3
  <1>7. resolved' \in ItemMap
    <2>1. resolved' = [n \in Name |-> resolved'[n]]
      BY <1>4
    <2>2. \A n \in Name : resolved'[n] \in Item \cup {None}
      BY <1>6
    <2>3. QED
      BY <2>1, <2>2 DEF ItemMap
  <1>8. TypeOK'
    BY <1>1, <1>7 DEF KeyInv, TypeOK
  <1>9. KeysStay'
    BY <1>1 DEF KeyInv, KeysStay
  <1>10. NoKeyPushed'
    <2>1. \A k \in Key : resolved'[k] = None
      BY <1>2, <1>6 DEF KeysAssumption
    <2>2. QED
      BY <1>1, <2>1 DEF KeyInv, NoKeyPushed
  <1>11. KeysKnown'
    <2>1. UnderKnown(resolved)'
      BY <1>1, <1>2, <1>6 DEF UnderKnown
    <2>2. QED
      BY <1>1, <2>1 DEF KeyInv, KeysKnown, UnderKnown
  <1>12. KeysCovered'
    <2>1. NoItems' = NoItems
      BY DEF NoItems
    <2>2. QED
      BY <1>1, <2>1 DEF KeyInv, KeysCovered, KeysUpTo, Asking, Stored
  <1>13. DefaultComing'
    BY <1>1 DEF KeyInv, DefaultComing, Writing, KeysIn
  <1>14. QED
    BY <1>8, <1>9, <1>10, <1>11, <1>12, <1>13 DEF KeyInv

\* A conflict that cannot be resolved.
LEMMA CannotResolveInv == ASSUME KeysAssumption, KeyInv, CannotResolve PROVE KeyInv'
  <1>1. PICK next \in {"idle", "request"} : Return(next)
    BY DEF CannotResolve
  <1>2. NoItems' = NoItems
    BY DEF NoItems
  <1>3. /\ db' = db /\ dirty' = dirty /\ faults' = faults /\ synced' = synced /\ token' = token
        /\ UNCHANGED serverVars /\ UNCHANGED sessionVars /\ pc = "resolve"
        /\ default' = default /\ server' = server
    BY DEF CannotResolve, dbVars, sessionVars, serverVars
  <1>4. KeysUpTo(token, NoItems)' /\ UnderKnown(db)' /\ token' <= clock
    BY <1>2, <1>3 DEF KeyInv, KeysCovered, KeysUpTo, KeysKnown, UnderKnown
  <1>5. synced' => default' # None
    BY <1>3 DEF KeyInv, DefaultComing
  <1>6. QED
    BY <1>1, <1>3, <1>4, <1>5, ReturnInv DEF Asking, KeyInv, TypeOK

\* The second request succeeds: both answers are merged.
LEMMA ResyncedInv ==
    ASSUME KeysAssumption, KeyInv, Resync, Stale(resolved) = {} PROVE KeyInv'
  <1> DEFINE both == Newest(saved, SavedOf(resolved))
             mine == [n \in Name |-> IF both[n] # None /\ push[n] # None
                                     THEN [push[n] EXCEPT !.ts = both[n].ts] ELSE None]
             items == Newest(got, ChangedSince(sent, resolved))
             list == IF Held(mine) # {} THEN mine ELSE items
  <1>1. /\ saved' = mine /\ got' = Newest(items, mine) /\ pc = "resync" /\ pc' = "saveSaved"
        /\ ReplaceKeys(list)
        /\ UNCHANGED <<db, dirty, token, push, sent, theirs, resolved, newToken, synced, faults>>
    BY DEF Resync, dbVars
  <1>2. /\ server' \in ItemMap /\ clock' \in Nat /\ clock <= clock'
        /\ \A k \in Key : server'[k] = server[k]
        /\ \A u \in UUID : server'[u] # None => server'[u].under \in Key
                                               /\ server'[server'[u].under] # None
    BY StoresFacts DEF Resync, KeyInv, TypeOK, NoKeyPushed, KeysKnown
  <1>3. SavedOf(resolved) \in ItemMap /\ both \in ItemMap
    BY SavedFacts, NewestFacts DEF KeyInv, TypeOK
  <1>4. ASSUME NEW n \in Name
        PROVE  \/ mine[n] = None
               \/ push[n] # None /\ mine[n] \in Item /\ mine[n].under = push[n].under
    <2>1. CASE both[n] # None /\ push[n] # None
      <3>1. both[n] \in Item /\ push[n] \in Item
        BY <1>3, <2>1 DEF KeyInv, TypeOK, ItemMap
      <3>2. mine[n] = [push[n] EXCEPT !.ts = both[n].ts]
        BY <2>1
      <3>3. QED
        BY <2>1, <3>1, <3>2 DEF Item
    <2>2. CASE ~(both[n] # None /\ push[n] # None)
      BY <2>2
    <2>3. QED
      BY <2>1, <2>2
  <1>5. mine \in ItemMap
    BY <1>4 DEF ItemMap
  <1>6. /\ items \in ItemMap
        /\ \A n \in Name : items[n] \in {got[n], server[n], None}
        /\ \A n \in Name : got[n] # None => items[n] # None
    <2>1. ChangedSince(sent, resolved) \in ItemMap
          /\ \A n \in Name : ChangedSince(sent, resolved)[n] \in {server[n], None}
      BY ChangedFacts DEF KeyInv, TypeOK
    <2>2. QED
      BY <2>1, NewestFacts DEF KeyInv, TypeOK
  <1> HIDE DEF both, mine, items
  <1>7. /\ got' \in ItemMap /\ \A n \in Name : got'[n] \in {items[n], mine[n]}
        /\ \A n \in Name : items[n] # None => got'[n] # None
    BY <1>1, <1>5, <1>6, NewestFacts
  <1>8. \A n \in Key \cup UUID : n \in Name
    BY DEF Name
  <1>9. \A k \in Key : mine[k] = None /\ got'[k] = items[k]
    BY <1>4, <1>7, <1>8 DEF KeyInv, NoKeyPushed
  <1>10. \A k \in Key : got'[k] # None => server[k] # None /\ ~got'[k].del
    BY <1>6, <1>8, <1>9 DEF KeyInv, KeysStay
  <1>11. /\ keys' \in [Key -> SessionKey \cup {None}] /\ default' \in Key \cup {None}
         /\ \A k \in Key : keys'[k] # None => keys[k] # None \/ got'[k] # None
         /\ default' # None => keys'[default'] # None
         /\ default # None => default' # None
    <2>1. list \in ItemMap /\ \A k \in Key : list[k] # None => got'[k] # None
      BY <1>5, <1>6, <1>9
    <2>2. keys \in [Key -> SessionKey \cup {None}] /\ default \in Key \cup {None}
          /\ (default # None => keys[default] # None) /\ None \notin Key
      BY DEF KeyInv, TypeOK, KeysKnown, KeysAssumption, Name
    <2> HIDE DEF list
    <2>3. QED
      BY <1>1, <2>1, <2>2, ReplaceFacts
  <1>12. TypeOK'
    BY <1>1, <1>2, <1>5, <1>7, <1>11 DEF KeyInv, TypeOK
  <1>13. KeysStay'
    <2>1. FirstKey \in Key /\ clock \in Nat
      BY DEF KeysAssumption, KeyInv, TypeOK
    <2>2. \A k \in Key : server'[k] # None => ~server'[k].del /\ server'[k].ts \in 1..clock'
      BY <1>2, <2>1 DEF KeyInv, KeysStay
    <2>3. QED
      BY <1>2, <1>10, <2>1, <2>2 DEF KeyInv, KeysStay
  <1>14. NoKeyPushed'
    BY <1>1, <1>9 DEF KeyInv, NoKeyPushed
  <1>15. KeysKnown'
    <2>1. UnderKnown(server)'
      BY <1>2 DEF UnderKnown
    <2>2. UnderKnown(db)' /\ UnderKnown(push)' /\ UnderKnown(resolved)' /\ UnderKnown(theirs)'
      BY <1>1, <1>2 DEF KeyInv, KeysKnown, UnderKnown
    <2>3. UnderKnown(saved)'
      BY <1>1, <1>2, <1>4, <1>8 DEF KeyInv, KeysKnown, UnderKnown
    <2>4. UnderKnown(got)'
      BY <1>2, <1>4, <1>6, <1>7, <1>8 DEF KeyInv, KeysKnown, UnderKnown
    <2>5. \A k \in Key : db'[k] # None \/ keys'[k] # None => server'[k] # None
      BY <1>1, <1>2, <1>10, <1>11 DEF KeyInv, KeysKnown
    <2>6. QED
      BY <1>11, <2>1, <2>2, <2>3, <2>4, <2>5 DEF KeysKnown
  <1>16. KeysCovered'
    <2>1. NoItems' = NoItems
      BY DEF NoItems
    <2>2. token' <= clock' /\ newToken' <= clock'
      BY <1>1, <1>2 DEF KeyInv, TypeOK, KeysCovered
    <2>3. KeysUpTo(token, NoItems)'
      BY <1>1, <1>2, <2>1 DEF KeyInv, KeysCovered, KeysUpTo
    <2>4. KeysUpTo(newToken, got)'
      BY <1>1, <1>2, <1>6, <1>8, <1>9 DEF KeyInv, KeysCovered, KeysUpTo
    <2>5. QED
      BY <1>1, <2>2, <2>3, <2>4 DEF KeysCovered, Asking, Stored
  <1>17. DefaultComing'
    <2>1. \A k \in Key : got[k] # None => got'[k] # None
      BY <1>6, <1>8, <1>9
    <2>2. QED
      BY <1>1, <1>11, <2>1 DEF KeyInv, DefaultComing, Writing, KeysIn
  <1>18. QED
    BY <1>12, <1>13, <1>14, <1>15, <1>16, <1>17 DEF KeyInv

\* The second request meets conflicts: an error.
LEMMA UnresolvedInv ==
    ASSUME KeysAssumption, KeyInv, Resync, Stale(resolved) # {} PROVE KeyInv'
  <1>1. PICK next \in {"idle", "request"} : Return(next)
    BY DEF Resync
  <1>2. NoItems' = NoItems
    BY DEF NoItems
  <1>3. /\ UNCHANGED <<db, dirty, token, keys, default, synced, faults>> /\ pc = "resync"
    BY DEF Resync, dbVars, sessionVars
  <1>4. /\ server' \in ItemMap /\ clock' \in Nat /\ clock <= clock'
        /\ \A k \in Key : server'[k] = server[k]
        /\ \A u \in UUID : server'[u] # None => server'[u].under \in Key
                                               /\ server'[server'[u].under] # None
    BY StoresFacts DEF Resync, KeyInv, TypeOK, NoKeyPushed, KeysKnown
  <1>5. /\ push' \in ItemMap /\ theirs' = NoItems /\ resolved' = NoItems
        /\ saved' = NoItems /\ got' = NoItems /\ newToken' = 0 /\ sent' \in Nat
        /\ \A n \in Name : push'[n] \in {push[n], None}
        /\ pc' \in {"idle", "request"} /\ (pc' = "request" => sent' = sent)
    BY <1>1, NoItemsFacts DEF Return, KeyInv, TypeOK
  <1>6. \A n \in Key \cup UUID : n \in Name
    BY DEF Name
  <1>7. TypeOK'
    BY <1>3, <1>4, <1>5, NoItemsFacts DEF KeyInv, TypeOK
  <1>8. KeysStay'
    <2>1. FirstKey \in Key /\ clock \in Nat
      BY DEF KeysAssumption, KeyInv, TypeOK
    <2>2. \A k \in Key : server'[k] # None => ~server'[k].del /\ server'[k].ts \in 1..clock'
      BY <1>4, <2>1 DEF KeyInv, KeysStay
    <2>3. QED
      BY <1>4, <1>5, <1>6, <2>1, <2>2, NoItemsFacts DEF KeyInv, KeysStay
  <1>9. NoKeyPushed'
    BY <1>3, <1>5, <1>6, NoItemsFacts DEF KeyInv, NoKeyPushed
  <1>10. KeysKnown'
    <2>1. UnderKnown(server)'
      BY <1>4 DEF UnderKnown
    <2>2. UnderKnown(db)' /\ UnderKnown(push)'
      BY <1>3, <1>4, <1>5, <1>6 DEF KeyInv, KeysKnown, UnderKnown
    <2>3. /\ UnderKnown(theirs)' /\ UnderKnown(resolved)'
          /\ UnderKnown(saved)' /\ UnderKnown(got)'
      BY <1>5, <1>6, NoItemsFacts DEF UnderKnown
    <2>4. QED
      BY <1>3, <1>4, <2>1, <2>2, <2>3 DEF KeyInv, KeysKnown
  <1>11. KeysCovered'
    <2>1. token' <= clock'
      BY <1>3, <1>4 DEF KeyInv, TypeOK, KeysCovered
    <2>2. KeysUpTo(token, NoItems)'
      BY <1>2, <1>3, <1>4 DEF KeyInv, KeysCovered, KeysUpTo
    <2>3. QED
      BY <1>3, <1>5, <2>1, <2>2 DEF KeyInv, KeysCovered, Asking, Stored
  <1>12. DefaultComing'
    BY <1>3, <1>5 DEF KeyInv, DefaultComing, Writing
  <1>13. QED
    BY <1>7, <1>8, <1>9, <1>10, <1>11, <1>12 DEF KeyInv

\* The bulk writes and what of them is committed: no key is lost.
LEMMA PutFacts ==
    ASSUME KeysAssumption, KeyInv, NEW f \in {saved, got}, NEW b \in SUBSET Name,
           db' = Written(f, b), server' = server
    PROVE  /\ db' \in ItemMap /\ UnderKnown(db)'
           /\ \A k \in Key : db[k] # None => db'[k] # None
           /\ \A k \in Key : db'[k] # None => db[k] # None \/ server[k] # None
           /\ \A k \in Key : k \in b /\ f[k] # None => db'[k] # None
  <1>1. f \in ItemMap
    BY DEF KeyInv, TypeOK
  <1>2. \A n \in Key \cup UUID : n \in Name
    BY DEF Name
  <1>3. /\ db' \in ItemMap
        /\ \A n \in Name : db'[n] \in {db[n], f[n], None}
        /\ \A n \in Name : f[n] = None => db'[n] = db[n]
        /\ \A n \in Name : f[n] # None /\ ~f[n].del => db'[n] \in {db[n], f[n]}
        /\ \A n \in Name : n \in b /\ f[n] # None /\ ~f[n].del => db'[n] = f[n]
    BY <1>1, WrittenFacts DEF KeyInv, TypeOK
  <1>4. \A k \in Key : f[k] # None => ~f[k].del /\ server[k] # None
    BY DEF KeyInv, NoKeyPushed, KeysStay
  <1>5. UnderKnown(f)
    BY DEF KeyInv, KeysKnown
  <1>6. UnderKnown(db)'
    BY <1>2, <1>3, <1>5 DEF KeyInv, KeysKnown, UnderKnown
  <1>7. QED
    BY <1>2, <1>3, <1>4, <1>6

\* Writing a list and moving on.
LEMMA WriteInv ==
    ASSUME KeysAssumption, KeyInv, SaveSaved \/ SaveItems PROVE KeyInv'
  <1>1. /\ pc \in Writing
        /\ UNCHANGED <<server, clock, token, keys, default, push, sent, theirs, resolved,
                       saved, got, newToken, synced, faults>>
        /\ dirty' \subseteq dirty
        /\ \/ pc = "saveSaved" /\ pc' = "saveItems" /\ db' = Written(saved, Name)
           \/ pc = "saveItems" /\ pc' = "mergeKeys" /\ db' = Written(got, Name)
    BY DEF SaveSaved, SaveItems, Writing, serverVars, sessionVars, runVars
  <1>2. /\ db' \in ItemMap /\ UnderKnown(db)'
        /\ \A k \in Key : db[k] # None => db'[k] # None
        /\ \A k \in Key : db'[k] # None => server[k] # None
        /\ pc = "saveItems" => \A k \in Key : got[k] # None => db'[k] # None
    <2>1. \A k \in Key : k \in Name
      BY DEF Name
    <2>2. \A k \in Key : db[k] # None => server[k] # None
      BY DEF KeyInv, KeysKnown
    <2>3. CASE pc = "saveSaved"
      BY <1>1, <2>2, <2>3, PutFacts
    <2>4. CASE pc = "saveItems"
      BY <1>1, <2>1, <2>2, <2>4, PutFacts
    <2>5. QED
      BY <1>1, <2>3, <2>4
  <1>3. TypeOK'
    BY <1>1, <1>2 DEF KeyInv, TypeOK
  <1>4. KeysStay' /\ NoKeyPushed'
    BY <1>1 DEF KeyInv, KeysStay, NoKeyPushed
  <1>5. KeysKnown'
    BY <1>1, <1>2 DEF KeyInv, KeysKnown, UnderKnown
  <1>6. KeysCovered'
    <2>1. NoItems' = NoItems /\ \A k \in Key : NoItems[k] = None
      BY DEF NoItems, Name
    <2>2. KeysUpTo(token, NoItems)' /\ KeysUpTo(newToken, got)'
      BY <1>1, <1>2, <2>1 DEF KeyInv, KeysCovered, KeysUpTo, Writing
    <2>3. pc = "saveItems" => KeysUpTo(newToken, NoItems)'
      BY <1>1, <1>2, <2>1 DEF KeyInv, KeysCovered, KeysUpTo
    <2>4. QED
      BY <1>1, <2>2, <2>3 DEF KeyInv, KeysCovered, Asking, Stored
  <1>7. DefaultComing'
    BY <1>1 DEF KeyInv, DefaultComing, Writing, KeysIn
  <1>8. QED
    BY <1>3, <1>4, <1>5, <1>6, <1>7 DEF KeyInv

\* The keys that came are merged into the session.
LEMMA MergeRetrievedInv == ASSUME KeysAssumption, KeyInv, MergeRetrieved PROVE KeyInv'
  <1>1. /\ pc = "mergeKeys" /\ pc' = "dropToken"
        /\ UNCHANGED <<server, clock, db, dirty, token, push, sent, theirs, resolved,
                       saved, got, newToken, synced, faults>>
    BY DEF MergeRetrieved, serverVars, dbVars, runVars
  <1>2. /\ keys' \in [Key -> SessionKey \cup {None}] /\ default' \in Key \cup {None}
        /\ \A k \in Key : keys'[k] # None => keys[k] # None \/ got[k] # None
        /\ default' # None => keys'[default'] # None
        /\ default # None \/ KeysIn(got) # {} => default' # None
    <2>1. CASE KeysIn(got) = {}
      BY <2>1 DEF MergeRetrieved, KeyInv, TypeOK, KeysKnown, sessionVars
    <2>2. CASE KeysIn(got) # {}
      BY <2>2, MergeFacts DEF MergeRetrieved, KeyInv, TypeOK, KeysKnown
    <2>3. QED
      BY <2>1, <2>2
  <1>3. TypeOK'
    BY <1>1, <1>2 DEF KeyInv, TypeOK
  <1>4. KeysStay' /\ NoKeyPushed'
    BY <1>1 DEF KeyInv, KeysStay, NoKeyPushed
  <1>5. KeysKnown'
    BY <1>1, <1>2 DEF KeyInv, KeysKnown, KeysStay, UnderKnown
  <1>6. KeysCovered'
    <2>1. NoItems' = NoItems
      BY DEF NoItems
    <2>2. QED
      BY <1>1, <2>1 DEF KeyInv, KeysCovered, KeysUpTo, Asking, Stored
  <1>7. DefaultComing'
    BY <1>1, <1>2 DEF KeyInv, DefaultComing, Writing, KeysIn
  <1>8. QED
    BY <1>3, <1>4, <1>5, <1>6, <1>7 DEF KeyInv

\* The stored token is dropped.
LEMMA DropTokenInv == ASSUME KeysAssumption, KeyInv, DropToken PROVE KeyInv'
  <1>1. /\ pc = "dropToken" /\ pc' = "saveToken" /\ token' = 0
        /\ UNCHANGED <<server, clock, db, dirty, keys, default, push, sent, theirs, resolved,
                       saved, got, newToken, synced, faults>>
    BY DEF DropToken, serverVars, sessionVars, runVars
  <1>2. TypeOK' /\ KeysStay' /\ NoKeyPushed' /\ KeysKnown'
    BY <1>1 DEF KeyInv, TypeOK, KeysStay, NoKeyPushed, KeysKnown, UnderKnown
  <1>3. KeysCovered'
    <2>1. NoItems' = NoItems
      BY DEF NoItems
    <2>2. \A k \in Key : server[k] # None => server[k].ts \in 1..clock
      BY DEF KeyInv, KeysStay
    <2>3. KeysUpTo(token, NoItems)'
      BY <1>1, <2>2 DEF KeysUpTo, KeyInv, TypeOK
    <2>4. QED
      BY <1>1, <2>1, <2>3 DEF KeyInv, TypeOK, KeysCovered, KeysUpTo, Asking, Stored
  <1>4. DefaultComing'
    BY <1>1 DEF KeyInv, DefaultComing, Writing
  <1>5. QED
    BY <1>2, <1>3, <1>4 DEF KeyInv

\* The new token is saved, and the sync has succeeded.
LEMMA SaveTokenInv == ASSUME KeysAssumption, KeyInv, SaveToken PROVE KeyInv'
  <1>1. /\ db' = db /\ dirty' = dirty /\ faults' = faults /\ synced' = TRUE /\ token' = newToken
        /\ UNCHANGED serverVars /\ UNCHANGED sessionVars /\ pc = "saveToken" /\ pc' = "idle"
        /\ Return("idle") /\ default' = default /\ server' = server
    BY DEF SaveToken, Return, sessionVars, serverVars
  <1>2. NoItems' = NoItems
    BY DEF NoItems
  <1>3. KeysUpTo(token, NoItems)' /\ UnderKnown(db)' /\ token' <= clock
    BY <1>1, <1>2 DEF KeyInv, KeysCovered, KeysUpTo, KeysKnown, UnderKnown, Stored
  <1>4. default' # None
    BY <1>1 DEF KeyInv, DefaultComing
  <1>5. /\ db' \in ItemMap /\ dirty' \subseteq dirty /\ faults' \in Nat /\ synced' \in BOOLEAN
        /\ token' \in Nat
    BY <1>1 DEF KeyInv, TypeOK
  <1>6. \A k \in Key : db'[k] # None => db[k] # None \/ server[k] # None
    BY <1>1
  <1>7. QED
    BY <1>1, <1>3, <1>4, <1>5, <1>6, ReturnInv

\* What a bulk write that is cut short leaves in the database.
LEMMA CommittedFacts ==
    ASSUME KeysAssumption, KeyInv, Committed, server' = server, token' = token
    PROVE  /\ db' \in ItemMap /\ dirty' \subseteq dirty /\ UnderKnown(db)'
           /\ \A k \in Key : db'[k] # None => db[k] # None \/ server[k] # None
           /\ KeysUpTo(token, NoItems)'
  <1>1. PICK b \in SUBSET Name :
        \/ db' = Written(saved, b) /\ dirty' = dirty \ (b \cap Held(saved))
        \/ db' = Written(got, b) /\ dirty' = dirty \ (b \cap Held(got))
        \/ UNCHANGED <<db, dirty>>
    BY DEF Committed
  <1>2. dirty' \subseteq dirty
    BY <1>1
  <1>3. /\ db' \in ItemMap /\ UnderKnown(db)'
        /\ \A k \in Key : db[k] # None => db'[k] # None
        /\ \A k \in Key : db'[k] # None => db[k] # None \/ server[k] # None
    <2>1. CASE db' = Written(saved, b)
      BY <2>1, PutFacts
    <2>2. CASE db' = Written(got, b)
      BY <2>2, PutFacts
    <2>3. CASE db' = db
      BY <2>3 DEF KeyInv, TypeOK, KeysKnown, UnderKnown
    <2>4. QED
      BY <1>1, <2>1, <2>2, <2>3
  <1>4. NoItems' = NoItems
    BY DEF NoItems
  <1>5. KeysUpTo(token, NoItems)'
    BY <1>3, <1>4 DEF KeyInv, KeysCovered, KeysUpTo
  <1>6. QED
    BY <1>2, <1>3, <1>5

\* A sync that fails, or a process that ends.
LEMMA FailInv == ASSUME KeysAssumption, KeyInv, Fail \/ Restart PROVE KeyInv'
  <1>1. /\ Committed /\ Return("idle") /\ server' = server /\ token' = token
        /\ UNCHANGED serverVars /\ faults' = faults + 1
        /\ pc' = "idle"
        /\ \/ UNCHANGED sessionVars /\ default' = default /\ synced' = synced
           \/ keys' = [k \in Key |-> None] /\ default' = None /\ synced' = FALSE
    BY DEF Fail, Restart, Return, serverVars, sessionVars
  <1>2. /\ db' \in ItemMap /\ dirty' \subseteq dirty /\ UnderKnown(db)'
        /\ \A k \in Key : db'[k] # None => db[k] # None \/ server[k] # None
        /\ KeysUpTo(token, NoItems)'
    BY <1>1, CommittedFacts
  <1>3. synced' => default' # None
    BY <1>1 DEF KeyInv, DefaultComing
  <1>4. faults \in Nat /\ synced \in BOOLEAN /\ token \in Nat /\ token <= clock
    BY DEF KeyInv, TypeOK, KeysCovered
  <1>5. synced' \in BOOLEAN
    <2>1. CASE synced' = synced
      BY <2>1, <1>4
    <2>2. CASE synced' = FALSE
      BY <2>2
    <2>3. QED
      BY <1>1, <2>1, <2>2
  <1>6. faults' \in Nat /\ token' \in Nat /\ token' <= clock
    <2>1. faults' = faults + 1 /\ token' = token
      BY <1>1
    <2>2. QED
      BY <2>1, <1>4
  <1>7. QED
    BY <1>1, <1>2, <1>3, <1>5, <1>6, ReturnInv

\* Every step keeps the invariant.
LEMMA StepInv == ASSUME KeysAssumption, KeyInv, [Next]_vars PROVE KeyInv'
  <1>1. CASE UNCHANGED vars
    BY <1>1 DEF vars, serverVars, dbVars, sessionVars, runVars, KeyInv, TypeOK, KeysStay,
                NoKeyPushed, KeysKnown, UnderKnown, KeysCovered, KeysUpTo, NoItems,
                DefaultComing, KeysIn, Asking, Writing, Stored
  <1>2. ASSUME NEW k \in Key, NEW olds, RemoteRotate(k, olds) PROVE KeyInv'
    BY <1>2, RotateInv
  <1>3. ASSUME NEW u \in UUID, NEW k \in Key, NEW del \in BOOLEAN, RemoteSave(u, k, del)
        PROVE  KeyInv'
    BY <1>3, RemoteSaveInv
  <1>4. ASSUME NEW u \in UUID, SaveItem(u) PROVE KeyInv'
    BY <1>4, SaveItemInv
  <1>5. CASE Resync
    BY <1>5, ResyncedInv, UnresolvedInv
  <1>6. QED
    BY <1>1, <1>2, <1>3, <1>4, <1>5, BeginInv, SkipInv, RequestInv, NoConflictInv, ResolveInv,
       CannotResolveInv, WriteInv, MergeRetrievedInv, DropTokenInv, SaveTokenInv, FailInv
       DEF Next

---------------------------------------------------------------------------

\* The inductive invariant of items keys, with the types: the keys of the server
\* up to the token are in the database, and everything encrypted anywhere is
\* under a key of the server.
THEOREM KeysInductive == Spec => []KeyInv
  <1>1. Init => KeyInv
    BY KeysAssumption, InitInv
  <1>2. KeyInv /\ [Next]_vars => KeyInv'
    BY KeysAssumption, StepInv
  <1>3. QED
    BY <1>1, <1>2, PTL DEF Spec

\* What the invariant says of the items in the database and of the session.
LEMMA InvImplies ==
    ASSUME KeysAssumption, KeyInv PROVE NoItemOrphaned /\ UsableAfterSync
  <1>1. \A k \in Key : server[k] # None => k \in Name /\ server[k].ts \in Nat
    BY DEF KeyInv, TypeOK, ItemMap, Item, Name
  <1>2. \A k \in Key : server[k] # None /\ ~(server[k].ts > token) => db[k] # None
    BY <1>1, NoItemsFacts DEF KeyInv, TypeOK, KeysCovered, KeysUpTo
  <1>3. NoItemOrphaned
    BY <1>2 DEF NoItemOrphaned, Coming, KeyInv, KeysKnown, UnderKnown
  <1>4. UsableAfterSync
    BY DEF UsableAfterSync, KeyInv, DefaultComing, KeysKnown
  <1>5. QED
    BY <1>3, <1>4

\* No item of the database is orphaned, whatever rotations, edits, conflicts,
\* interrupted writes and restarts came before.
THEOREM NoneOrphaned == Spec => []NoItemOrphaned
  <1>1. KeyInv => NoItemOrphaned
    BY KeysAssumption, InvImplies
  <1>2. QED
    BY <1>1, KeysInductive, PTL

\* After a successful sync the session can encrypt.
THEOREM Usable == Spec => []UsableAfterSync
  <1>1. KeyInv => UsableAfterSync
    BY KeysAssumption, InvImplies
  <1>2. QED
    BY <1>1, KeysInductive, PTL

\* Every sync starts with the keys of the database in the session, or with a
\* request that brings them.
THEOREM StartsWithKeys == Spec => StartsDecryptable
  <1> DEFINE A == pc = "idle" /\ pc' = "request" => \A u \in UUID : db[u] # None =>
                      keys'[db[u].under] # None \/ Coming(db[u].under, sent')
  <1>1. ASSUME KeyInv, Next, pc = "idle", pc' = "request" PROVE Begin
    BY <1>1 DEF Next, RemoteRotate, RemoteSave, SaveItem, Skip, Request, NoConflict, Resolve,
                CannotResolve, Resync, SaveSaved, SaveItems, MergeRetrieved, DropToken,
                SaveToken, Fail, Restart, Return
  <1>2. ASSUME KeyInv, Begin, NEW u \in UUID, db[u] # None
        PROVE  keys'[db[u].under] # None \/ Coming(db[u].under, sent')
    <2> DEFINE k == db[u].under
    <2>1. k \in Key /\ server[k] # None /\ server[k].ts \in Nat
      BY <1>2 DEF KeyInv, KeysKnown, UnderKnown, TypeOK, ItemMap, Item, Name
    <2>2. sent' \in Nat /\ sent' <= token /\ token \in Nat
      BY <1>2 DEF Begin, TokenSent, KeyInv, TypeOK
    <2>3. CASE server[k].ts > sent'
      BY <2>1, <2>3 DEF Coming
    <2>4. CASE server[k].ts <= sent'
      <3>1. db[k] # None
        BY <2>1, <2>2, <2>4, <1>2, NoItemsFacts DEF KeyInv, KeysCovered, KeysUpTo, Name
      <3>2. Held(db) # {}
        BY <3>1, <2>1, <1>2 DEF Held, KeyInv, TypeOK, ItemMap, Name
      <3>3. MergeKeys(db)
        BY <3>2, <1>2 DEF Begin
      <3>4. QED
        BY <2>1, <3>1, <3>3, <1>2, KeysAssumption, MergeFacts DEF KeyInv, TypeOK, KeysKnown
    <2>5. QED
      BY <2>1, <2>2, <2>3, <2>4
  <1>3. KeyInv /\ [Next]_vars => [A]_vars
    BY <1>1, <1>2
  <1>4. QED
    BY <1>3, KeysInductive, PTL DEF Spec, StartsDecryptable

=============================================================================
