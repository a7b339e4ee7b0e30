--------------------------- MODULE ItemToolsProofs ---------------------------
(* Theorems about ItemTools, for every value of its constants. *)
EXTENDS ItemTools, SequenceTheorems, FiniteSetTheorems, WellFoundedInduction, TLAPS

---------------------------------------------------------------------------
(* Lists and positions. *)

\* The k-th of a set of positions is one of them, and all are there, in their order.
LEMMA NthFromZero ==
    ASSUME NEW n \in Nat, NEW S \in SUBSET (0..n)
    PROVE  /\ Cardinality(S) \in Nat
           /\ \A k \in 1..Cardinality(S) : Nth(S, k) \in S
           /\ \A i \in S : \E k \in 1..Cardinality(S) : Nth(S, k) = i
           /\ \A j, k \in 1..Cardinality(S) : j < k => Nth(S, j) < Nth(S, k)
  <1> DEFINE UpTo(i) == {j \in S : j <= i}
             rank == [i \in S |-> Cardinality(UpTo(i))]
             c == Cardinality(S)
  <1>1. IsFiniteSet(S) /\ c \in Nat
    <2>1. IsFiniteSet(0..n)
      BY FS_Interval
    <2>2. IsFiniteSet(S)
      BY <2>1, FS_Subset
    <2> QED
      BY <2>2, FS_CardinalityType
  <1>2. ASSUME NEW i \in S
        PROVE  IsFiniteSet(UpTo(i)) /\ Cardinality(UpTo(i)) \in 1..c
    <2>1. UpTo(i) \in SUBSET S
      OBVIOUS
    <2>2. IsFiniteSet(UpTo(i)) /\ Cardinality(UpTo(i)) <= c
      BY <1>1, <2>1, FS_Subset
    <2>3. Cardinality(UpTo(i)) \in Nat
      BY <2>2, FS_CardinalityType
    <2>4. UpTo(i) # {}
      OBVIOUS
    <2>5. Cardinality(UpTo(i)) # 0
      BY <2>2, <2>4, FS_EmptySet
    <2> QED
      BY <1>1, <2>2, <2>3, <2>5
  <1>3. ASSUME NEW i \in S, NEW j \in S, i < j
        PROVE  Cardinality(UpTo(i)) < Cardinality(UpTo(j))
    <2>0. \A k \in S : k \in Nat
      OBVIOUS
    <2>1. UpTo(i) \in SUBSET UpTo(j) /\ j \notin UpTo(i) /\ j \in UpTo(j)
      <3>1. \A k \in S : k <= i => k <= j
        BY <1>3, <2>0
      <3>2. ~(j <= i) /\ j <= j
        BY <1>3, <2>0
      <3> QED
        BY <3>1, <3>2
    <2>2. IsFiniteSet(UpTo(j)) /\ Cardinality(UpTo(i)) \in Nat /\ Cardinality(UpTo(j)) \in Nat
      BY <1>1, <1>2
    <2>3. Cardinality(UpTo(i)) <= Cardinality(UpTo(j)) /\ Cardinality(UpTo(i)) # Cardinality(UpTo(j))
      BY <2>1, <2>2, FS_Subset
    <2> QED
      BY <2>2, <2>3
  <1>4. rank \in Injection(S, 1..c)
    <2>1. rank \in [S -> 1..c]
      BY <1>2
    <2>2. ASSUME NEW i \in S, NEW j \in S, rank[i] = rank[j]
          PROVE  i = j
      BY <1>2, <1>3, <2>2
    <2> QED
      BY <2>1, <2>2 DEF Injection, IsInjective
  <1>5. rank \in Surjection(S, 1..c)
    BY <1>1, <1>4, FS_Injection, FS_Interval
  <1>6. ASSUME NEW k \in 1..c
        PROVE  Nth(S, k) \in S /\ rank[Nth(S, k)] = k
    <2>1. PICK i \in S : rank[i] = k
      BY <1>5 DEF Surjection
    <2>2. \E x \in S : Cardinality({j \in S : j <= x}) = k
      BY <2>1
    <2>3. Nth(S, k) \in S /\ Cardinality({j \in S : j <= Nth(S, k)}) = k
      BY <2>2 DEF Nth
    <2> QED
      BY <2>3
  <1>7. ASSUME NEW i \in S
        PROVE  \E k \in 1..c : Nth(S, k) = i
    <2>1. rank[i] \in 1..c
      BY <1>2
    <2>2. PICK x \in S : x = Nth(S, rank[i]) /\ rank[x] = rank[i]
      BY <1>6, <2>1
    <2>3. ~(x < i) /\ ~(i < x)
      BY SMTT(30), <1>2, <1>3, <2>2
    <2> QED
      BY <2>1, <2>2, <2>3
  <1>8. ASSUME NEW j \in 1..c, NEW k \in 1..c, j < k
        PROVE  Nth(S, j) < Nth(S, k)
    <2>1. PICK x \in S : x = Nth(S, j) /\ Cardinality(UpTo(x)) = j
      BY <1>6
    <2>2. PICK y \in S : y = Nth(S, k) /\ Cardinality(UpTo(y)) = k
      BY <1>6
    <2>3. ~(y < x) /\ x # y
      <3>1. y < x => Cardinality(UpTo(y)) < Cardinality(UpTo(x))
        BY <1>3
      <3> QED
        BY <1>8, <2>1, <2>2, <3>1
    <2>4. x < y
      BY <2>3
    <2> QED
      BY <2>1, <2>2, <2>4
  <1> QED
    BY <1>1, <1>6, <1>7, <1>8

LEMMA NthInOrder ==
    ASSUME NEW n \in Nat, NEW S \in SUBSET (1..n)
    PROVE  /\ Cardinality(S) \in Nat
           /\ \A k \in 1..Cardinality(S) : Nth(S, k) \in S
           /\ \A i \in S : \E k \in 1..Cardinality(S) : Nth(S, k) = i
           /\ \A j, k \in 1..Cardinality(S) : j < k => Nth(S, j) < Nth(S, k)
  <1>1. S \in SUBSET (0..n)
    OBVIOUS
  <1>2. QED
    BY ONLY n \in Nat, <1>1, NthFromZero

\* What a loop over a list keeps: the elements at the positions, in their order.
LEMMA AtKeeps ==
    ASSUME NEW T, NEW s \in Seq(T), NEW S \in SUBSET DOMAIN s
    PROVE  /\ At(s, S) \in Seq(T)
           /\ ElementsOf(At(s, S)) = {s[i] : i \in S}
           /\ \A j, k \in DOMAIN At(s, S) : j < k =>
                 \E i, l \in S : i < l /\ At(s, S)[j] = s[i] /\ At(s, S)[k] = s[l]
  <1> DEFINE c == Cardinality(S)
  <1>1. Len(s) \in Nat /\ DOMAIN s = 1..Len(s) /\ \A i \in S : s[i] \in T
    BY LenProperties
  <1>2. /\ c \in Nat
        /\ \A k \in 1..c : Nth(S, k) \in S
        /\ \A i \in S : \E k \in 1..c : Nth(S, k) = i
        /\ \A j, k \in 1..c : j < k => Nth(S, j) < Nth(S, k)
    BY <1>1, NthInOrder
  <1>3. At(s, S) = [k \in 1..c |-> s[Nth(S, k)]]
    BY DEF At
  <1> HIDE DEF c
  <1>4. At(s, S) \in Seq(T)
    BY <1>1, <1>2, <1>3, IsASeq
  <1>5. DOMAIN At(s, S) = 1..c /\ \A k \in 1..c : At(s, S)[k] = s[Nth(S, k)]
    BY <1>3
  <1>6. ElementsOf(At(s, S)) = {s[i] : i \in S}
    <2>1. \A k \in 1..c : At(s, S)[k] \in {s[i] : i \in S}
      BY <1>2, <1>5
    <2>2. \A i \in S : \E k \in 1..c : At(s, S)[k] = s[i]
      BY <1>2, <1>5
    <2>3. QED
      BY <1>5, <2>1, <2>2 DEF ElementsOf
  <1>7. ASSUME NEW j \in 1..c, NEW k \in 1..c, j < k
        PROVE  \E i, l \in S : i < l /\ At(s, S)[j] = s[i] /\ At(s, S)[k] = s[l]
    BY <1>2, <1>5, <1>7
  <1>8. QED
    BY <1>4, <1>5, <1>6, <1>7

\* Every set of natural numbers that is not empty has a least element.
LEMMA Least ==
    ASSUME NEW T \in SUBSET Nat, T # {}
    PROVE  \E n \in T : \A m \in T : n <= m
  <1> DEFINE Below == {p \in Nat \X Nat : p[1] < p[2]}
  <1>1. IsWellFoundedOn(Below, Nat)
    BY NatLessThanWellFounded DEF OpToRel
  <1> HIDE DEF Below
  <1>2. PICK n \in T : \A m \in T : <<m, n>> \notin Below
    BY <1>1, WFMin
  <1>3. \A m \in T : ~(m < n)
    BY <1>2 DEF Below
  <1>4. QED
    BY <1>3

---------------------------------------------------------------------------
(* ConflictRefs: the items and the conflicts. *)

\* The fields of an item whose timestamp, or whose deletion, is set.
LEMMA Restamped ==
    ASSUME NEW i, IsItem(i), NEW t \in Nat
    PROVE  /\ IsItem([i EXCEPT !.stamp = t])
           /\ [i EXCEPT !.stamp = t].uuid = i.uuid
           /\ [i EXCEPT !.stamp = t].type = i.type
           /\ [i EXCEPT !.stamp = t].key = i.key
           /\ [i EXCEPT !.stamp = t].deleted = i.deleted
           /\ [i EXCEPT !.stamp = t].content = i.content
  BY DEF IsItem

\* The fields of an item that is marked deleted.
LEMMA MarkedDeleted ==
    ASSUME NEW i, IsItem(i)
    PROVE  /\ IsItem([i EXCEPT !.deleted = TRUE])
           /\ [i EXCEPT !.deleted = TRUE].uuid = i.uuid
           /\ [i EXCEPT !.deleted = TRUE].deleted = TRUE
  BY DEF IsItem

\* A duplicate has its new id and the default key, and is else the same.
LEMMA Duplicated ==
    ASSUME NEW i, IsItem(i), NEW uuid
    PROVE  /\ IsItem(Duplicate(i, uuid))
           /\ Duplicate(i, uuid).uuid = uuid
           /\ Duplicate(i, uuid).key = Default
           /\ Duplicate(i, uuid).deleted = i.deleted
           /\ Duplicate(i, uuid).content = i.content
  BY DEF IsItem, Duplicate, Encrypted

\* Remapping changes the references, and with them the key, and nothing else.
LEMMA RemappedFields ==
    ASSUME NEW i, IsItem(i)
    PROVE  /\ IsItem(Remapped(i))
           /\ Remapped(i).uuid = i.uuid
           /\ Remapped(i).type = i.type
           /\ Remapped(i).deleted = i.deleted
           /\ Remapped(i).content = i.content
           /\ Remapped(i).refs = i.refs \/ Remapped(i).refs = {Renamed(u) : u \in i.refs}
           /\ ~Untouched(i) /\ i.refs \cap DOMAIN refReMap # {} =>
                 Remapped(i).refs = {Renamed(u) : u \in i.refs}
  BY DEF IsItem, Remapped, Encrypted

\* The item of input.Items with the id of a pushed item is that item.
LEMMA LocalIsPushed ==
    ASSUME NEW cs, Legal(pushed, cs), NEW i \in ElementsOf(pushed)
    PROVE  Local(i.uuid) = i
  <1>1. Len(pushed) \in Nat /\ DOMAIN pushed = 1..Len(pushed)
    BY LenProperties DEF Legal
  <1>2. Pushed(i.uuid) \in SUBSET Nat /\ Pushed(i.uuid) # {}
    BY <1>1 DEF Pushed, ElementsOf
  <1>3. \E k \in Pushed(i.uuid) : \A other \in Pushed(i.uuid) : k <= other
    BY <1>2, Least
  <1>4. PICK k \in Pushed(i.uuid) : Local(i.uuid) = pushed[k]
    BY <1>3 DEF Local
  <1>5. pushed[k] \in ElementsOf(pushed) /\ pushed[k].uuid = i.uuid
    BY <1>4 DEF Pushed, ElementsOf
  <1>6. QED
    BY <1>4, <1>5 DEF Legal

\* What is known of a conflict in any state.
LEMMA ConflictFacts ==
    ASSUME Legal(pushed, conflicts), NEW c \in ElementsOf(conflicts)
    PROVE  /\ c.unsaved \in ElementsOf(pushed) /\ c.unsaved # None
           /\ IsItem(c.unsaved) /\ c.unsaved.content = "mine"
           /\ c.unsaved.uuid \notin Fresh
           /\ Local(c.unsaved.uuid) = c.unsaved
           /\ c.server # None => /\ IsItem(c.server) /\ c.server.uuid = c.unsaved.uuid
                                 /\ c.server.type = "ItemsKey" <=> c.unsaved.type = "ItemsKey"
           /\ c.type = "sync_conflict" => c.server # None
  <1>1. c.unsaved \in ElementsOf(pushed)
    BY DEF Legal
  <1>2. Local(c.unsaved.uuid) = c.unsaved
    BY <1>1, LocalIsPushed
  <1>3. QED
    BY <1>1, <1>2 DEF Legal

\* The conflict that is processed next.
LEMMA NextConflict ==
    ASSUME Legal(pushed, conflicts), StepInv, outcome = "running", next <= Len(conflicts)
    PROVE  /\ next \in DOMAIN conflicts /\ next \in Nat
           /\ Conflict \in ElementsOf(conflicts)
           /\ Processed \subseteq ElementsOf(conflicts)
           /\ \A c \in Processed : c.unsaved.uuid # Conflict.unsaved.uuid
  <1>1. Len(conflicts) \in Nat /\ DOMAIN conflicts = 1..Len(conflicts)
    BY LenProperties DEF Legal
  <1>2. next \in DOMAIN conflicts /\ next \in Nat
    BY <1>1 DEF StepInv
  <1>3. 1..(next - 1) \subseteq DOMAIN conflicts
    BY <1>1, <1>2
  <1>4. \A j \in 1..(next - 1) : conflicts[j].unsaved.uuid # conflicts[next].unsaved.uuid
    <2>1. \A j \in 1..(next - 1) : j # next
      BY <1>2
    <2>2. QED
      BY <1>2, <1>3, <2>1 DEF StepInv
  <1>5. QED
    BY <1>2, <1>3, <1>4 DEF Conflict, ElementsOf, Processed

---------------------------------------------------------------------------
(* ConflictRefs: its steps. *)

\* An item is appended to what is to be sent.
LEMMA ResolvedGrows ==
    ASSUME ResolvedInv, NEW item, resolved' = Append(resolved, item),
           \A i \in Resolved : i.uuid # item.uuid
    PROVE  /\ Resolved' = Resolved \cup {item}
           /\ resolved' \in Seq(Resolved')
           /\ \A j, k \in DOMAIN resolved' : resolved'[j].uuid = resolved'[k].uuid => j = k
  <1> DEFINE n == Len(resolved)
  <1>1. n \in Nat /\ DOMAIN resolved = 1..n
    BY LenProperties DEF ResolvedInv
  <1>2. /\ resolved' \in Seq(Resolved \cup {item}) /\ DOMAIN resolved' = 1..(n + 1)
        /\ \A k \in 1..n : resolved'[k] = resolved[k]
        /\ resolved'[n + 1] = item
    <2>1. resolved \in Seq(Resolved \cup {item})
      BY <1>1 DEF ResolvedInv, Resolved
    <2>2. QED
      BY <1>1, <2>1, AppendProperties, LenProperties
  <1> HIDE DEF n
  <1>3. 1..(n + 1) = (1..n) \cup {n + 1} /\ n + 1 \notin 1..n
    BY <1>1
  <1>4. Resolved' = Resolved \cup {item}
    BY <1>1, <1>2, <1>3 DEF Resolved
  <1>5. \A k \in 1..n : resolved[k] \in Resolved
    BY <1>1 DEF Resolved
  <1>6. \A j, k \in DOMAIN resolved' : resolved'[j].uuid = resolved'[k].uuid => j = k
    BY <1>1, <1>2, <1>3, <1>5 DEF ResolvedInv
  <1>7. QED
    BY <1>2, <1>4, <1>6

\* A conflict gets an item: under its own id, or under a new one that no other
\* item has.
Gets(item) ==
    \/ /\ item.uuid = Conflict.unsaved.uuid
       /\ refReMap' = refReMap
    \/ /\ item.uuid \in Fresh \ NewIds
       /\ refReMap' = [u \in DOMAIN refReMap \cup {Conflict.unsaved.uuid} |->
                         IF u = Conflict.unsaved.uuid THEN item.uuid ELSE refReMap[u]]

\* Renaming the item of the conflict renames no processed one, and to an id that
\* nothing has which is to be sent.
LEMMA Renaming ==
    ASSUME Legal(pushed, conflicts), StepInv, NewIdsInv, ResolvedInv,
           outcome = "running", next <= Len(conflicts), NEW item, Gets(item),
           NEW own, own = Conflict.unsaved.uuid
    PROVE  /\ \A c \in Processed : Renamed(c.unsaved.uuid)' = Renamed(c.unsaved.uuid)
           /\ Renamed(own)' = item.uuid
           /\ \A i \in Resolved : i.uuid # item.uuid
           /\ DOMAIN refReMap' \subseteq DOMAIN refReMap \cup {own}
           /\ \A u \in DOMAIN refReMap' : u \in DOMAIN refReMap \/ refReMap'[u] = item.uuid
           /\ \A u \in DOMAIN refReMap : u \in DOMAIN refReMap' /\ refReMap'[u] = refReMap[u]
           /\ NewIds' \subseteq Fresh
           /\ \A u, v \in DOMAIN refReMap' : refReMap'[u] = refReMap'[v] => u = v
  <1>1. /\ Conflict \in ElementsOf(conflicts) /\ Processed \subseteq ElementsOf(conflicts)
        /\ \A c \in Processed : c.unsaved.uuid # own
    BY NextConflict
  <1>2. own \notin DOMAIN refReMap
    BY <1>1 DEF NewIdsInv
  <1>3. own \notin Fresh /\ \A c \in Processed : c.unsaved.uuid \notin Fresh
    BY <1>1, ConflictFacts
  <1>4. \A i \in Resolved : \/ i.uuid \in NewIds
                            \/ i.uuid \notin Fresh /\ i.uuid # own
    <2> TAKE i \in Resolved
    <2>1. PICK c \in Processed : i.uuid = Renamed(c.unsaved.uuid)
      BY DEF ResolvedInv
    <2>2. QED
      BY <1>1, <1>3, <2>1 DEF Renamed, NewIds
  <1>5. CASE item.uuid = own /\ refReMap' = refReMap
    <2>1. NewIds' = NewIds
      BY <1>5 DEF NewIds
    <2>2. \A u : Renamed(u)' = Renamed(u)
      BY <1>5 DEF Renamed
    <2>3. Renamed(own) = own
      BY <1>2 DEF Renamed
    <2>4. \A i \in Resolved : i.uuid # item.uuid
      BY <1>3, <1>4, <1>5 DEF NewIdsInv
    <2>5. QED
      BY <1>5, <2>1, <2>2, <2>3, <2>4 DEF NewIdsInv
  <1>6. CASE /\ item.uuid \in Fresh \ NewIds
             /\ refReMap' = [u \in DOMAIN refReMap \cup {own} |->
                               IF u = own THEN item.uuid ELSE refReMap[u]]
    <2>1. /\ DOMAIN refReMap' = DOMAIN refReMap \cup {own}
          /\ refReMap'[own] = item.uuid
          /\ \A u \in DOMAIN refReMap : refReMap'[u] = refReMap[u]
      BY <1>2, <1>6
    <2>2. NewIds' = NewIds \cup {item.uuid}
      BY <2>1 DEF NewIds
    <2>3. \A u \in DOMAIN refReMap : refReMap[u] # item.uuid
      BY <1>6 DEF NewIds
    <2>4. Renamed(own)' = item.uuid
      BY <2>1 DEF Renamed
    <2>5. \A c \in Processed : Renamed(c.unsaved.uuid)' = Renamed(c.unsaved.uuid)
      BY <1>1, <2>1 DEF Renamed
    <2>6. \A i \in Resolved : i.uuid # item.uuid
      BY <1>4, <1>6
    <2>7. \A u, v \in DOMAIN refReMap' : refReMap'[u] = refReMap'[v] => u = v
      BY <2>1, <2>3 DEF NewIdsInv
    <2>8. NewIds' \subseteq Fresh
      BY <1>6, <2>2 DEF NewIdsInv
    <2>9. QED
      BY <2>1, <2>4, <2>5, <2>6, <2>7, <2>8
  <1>7. QED
    BY <1>5, <1>6 DEF Gets

\* Any conflict that gets an item, which is of the version it is to be.
LEMMA ItemKeeps ==
    ASSUME ConflictInv, outcome = "running", next <= Len(conflicts),
           NEW item, IsItem(item), Gets(item),
           resolved' = Append(resolved, item), next' = next + 1,
           UNCHANGED <<pushed, conflicts, outcome>>,
           Conflict.type \in {"sync_conflict", "uuid_conflict"} /\ Conflict.unsaved.type # "ItemsKey"
              => item.deleted = Conflict.unsaved.deleted /\ (~item.deleted => item.content = "mine")
    PROVE  ConflictInv'
  <1>0. PICK own : own = Conflict.unsaved.uuid
    OBVIOUS
  <1>1. /\ Legal(pushed, conflicts) /\ StepInv /\ NewIdsInv /\ ResolvedInv /\ SentInv
    BY DEF ConflictInv
  <1>2. /\ next \in DOMAIN conflicts /\ next \in Nat
        /\ Conflict \in ElementsOf(conflicts) /\ Processed \subseteq ElementsOf(conflicts)
    BY <1>1, NextConflict
  <1>3. /\ \A c \in Processed : Renamed(c.unsaved.uuid)' = Renamed(c.unsaved.uuid)
        /\ Renamed(own)' = item.uuid
        /\ \A i \in Resolved : i.uuid # item.uuid
        /\ DOMAIN refReMap' \subseteq DOMAIN refReMap \cup {own}
        /\ \A u \in DOMAIN refReMap' : u \in DOMAIN refReMap \/ refReMap'[u] = item.uuid
        /\ \A u \in DOMAIN refReMap : u \in DOMAIN refReMap' /\ refReMap'[u] = refReMap[u]
        /\ NewIds' \subseteq Fresh
        /\ \A u, v \in DOMAIN refReMap' : refReMap'[u] = refReMap'[v] => u = v
    BY <1>0, <1>1, Renaming
  <1>4. /\ Resolved' = Resolved \cup {item}
        /\ resolved' \in Seq(Resolved')
        /\ \A j, k \in DOMAIN resolved' : resolved'[j].uuid = resolved'[k].uuid => j = k
    BY <1>1, <1>3, ResolvedGrows
  <1>5. Processed' = Processed \cup {Conflict}
    <2>1. 1..(next' - 1) = (1..(next - 1)) \cup {next}
      BY <1>2
    <2>2. QED
      BY <2>1 DEF Processed, Conflict
  <1>6. Legal(pushed', conflicts')
    BY <1>1
  <1>7. StepInv'
    <2>1. next' \in 1..(Len(conflicts) + 1)
      BY <1>1, <1>2 DEF StepInv, Legal
    <2>2. QED
      BY <1>1, <2>1 DEF StepInv
  <1>8. NewIdsInv'
    BY <1>0, <1>1, <1>3, <1>5 DEF NewIdsInv
  <1>9. ResolvedInv'
    <2>1. ASSUME NEW i \in Resolved'
          PROVE  IsItem(i) /\ \E c \in Processed' : i.uuid = Renamed(c.unsaved.uuid)'
      <3>1. CASE i \in Resolved
        BY <1>1, <1>3, <1>5, <3>1 DEF ResolvedInv
      <3>2. CASE i = item
        <4>1. Conflict \in Processed' /\ Renamed(own)' = i.uuid
          BY <1>3, <1>5, <3>2
        <4>2. \E c \in Processed' : c.unsaved.uuid = own
          BY <1>0, <4>1
        <4>3. QED
          BY <3>2, <4>1, <4>2
      <3>3. QED
        BY <1>4, <3>1, <3>2
    <2>2. QED
      BY <1>4, <2>1 DEF ResolvedInv
  <1>10. SentInv'
    <2>1. ASSUME NEW c \in Processed',
                 c.type \in {"sync_conflict", "uuid_conflict"}, c.unsaved.type # "ItemsKey"
          PROVE  Sent(c)'
      <3>1. CASE c \in Processed
        <4>1. Sent(c)
          BY <1>1, <2>1, <3>1 DEF SentInv
        <4>2. QED
          BY <1>3, <1>4, <3>1, <4>1 DEF Sent
      <3>2. CASE c = Conflict
        BY <1>0, <1>3, <1>4, <2>1, <3>2 DEF Sent
      <3>3. QED
        BY <1>5, <3>1, <3>2
    <2>2. \A u \in DOMAIN refReMap' : \E i \in Resolved' : i.uuid = refReMap'[u]
      BY <1>1, <1>3, <1>4 DEF SentInv
    <2>3. QED
      BY <2>1, <2>2 DEF SentInv
  <1>11. QED
    BY <1>6, <1>7, <1>8, <1>9, <1>10
       DEF ConflictInv, ReferencesFollow, EveryConflictAnswered

\* What an action knows of its conflict.
LEMMA AtConflict ==
    ASSUME ConflictInv, NEW types, Is(types)
    PROVE  /\ outcome = "running" /\ next <= Len(conflicts) /\ Conflict.type \in types
           /\ Conflict \in ElementsOf(conflicts)
           /\ Conflict.unsaved # None /\ IsItem(Conflict.unsaved) /\ Conflict.unsaved.content = "mine"
           /\ Local(Conflict.unsaved.uuid) = Conflict.unsaved
           /\ Conflict.server # None =>
                 /\ IsItem(Conflict.server) /\ Conflict.server.uuid = Conflict.unsaved.uuid
                 /\ Conflict.server.type = "ItemsKey" <=> Conflict.unsaved.type = "ItemsKey"
           /\ Conflict.type = "sync_conflict" => Conflict.server # None
  <1>1. outcome = "running" /\ next <= Len(conflicts) /\ Conflict.type \in types
    BY DEF Is
  <1>2. Conflict \in ElementsOf(conflicts)
    BY <1>1, NextConflict DEF ConflictInv
  <1>3. QED
    BY <1>1, <1>2, ConflictFacts DEF ConflictInv

\* The server's version is sent, under the id both have.
LEMMA KeepServersKeeps == ASSUME ConflictInv, KeepServers PROVE ConflictInv'
  <1>1. PICK types : Is(types)
    BY DEF KeepServers
  <1>2. /\ Conflict.server # None
        /\ Conflict.type = "sync_conflict" => Conflict.unsaved.type = "ItemsKey"
        /\ Conflict.type # "uuid_conflict"
    BY <1>1, AtConflict DEF KeepServers, Is
  <1>3. Gets(Conflict.server)
    BY <1>1, <1>2, AtConflict DEF Gets, KeepServers, Send
  <1>4. PICK item : item = Conflict.server
    OBVIOUS
  <1>5. QED
    BY <1>1, <1>2, <1>3, <1>4, AtConflict, ItemKeeps DEF KeepServers, Send

\* The local item is sent again: what the server deleted is restored.
LEMMA KeepDeletedAtServerKeeps == ASSUME ConflictInv, KeepDeletedAtServer PROVE ConflictInv'
  <1>1. Is({"sync_conflict"}) /\ Conflict.server # None
    BY AtConflict DEF KeepDeletedAtServer, DeletedAtServer, InSync
  <1>2. PICK item : item = [Conflict.unsaved EXCEPT !.stamp = Conflict.server.stamp]
    OBVIOUS
  <1>3. Local(Conflict.server.uuid) = Conflict.unsaved /\ Conflict.server.stamp \in Nat
    BY <1>1, AtConflict DEF IsItem
  <1>4. /\ IsItem(item) /\ item.uuid = Conflict.unsaved.uuid /\ item.type = Conflict.unsaved.type
        /\ item.key = Conflict.unsaved.key /\ item.deleted = Conflict.unsaved.deleted
        /\ item.content = Conflict.unsaved.content
    BY <1>1, <1>2, <1>3, AtConflict, Restamped
  <1>5. Send(item)
    BY <1>2, <1>3 DEF KeepDeletedAtServer
  <1>6. Gets(item)
    BY <1>4, <1>5 DEF Gets, Send
  <1>7. QED
    BY <1>1, <1>4, <1>5, <1>6, AtConflict, ItemKeeps DEF Send

\* The newer local version is sent under its id.
LEMMA KeepNewerKeeps == ASSUME ConflictInv, KeepNewer PROVE ConflictInv'
  <1>1. Is({"sync_conflict"}) /\ Conflict.server # None
    BY AtConflict DEF KeepNewer, InSync
  <1>2. PICK item : item = [Conflict.unsaved EXCEPT !.stamp = Conflict.server.stamp]
    OBVIOUS
  <1>3. Conflict.server.stamp \in Nat
    BY <1>1, AtConflict DEF IsItem
  <1>4. /\ IsItem(item) /\ item.uuid = Conflict.unsaved.uuid /\ item.type = Conflict.unsaved.type
        /\ item.key = Conflict.unsaved.key /\ item.deleted = Conflict.unsaved.deleted
        /\ item.content = Conflict.unsaved.content
    BY <1>1, <1>2, <1>3, AtConflict, Restamped
  <1>5. Send(item)
    BY <1>2 DEF KeepNewer
  <1>6. Gets(item)
    BY <1>4, <1>5 DEF Gets, Send
  <1>7. QED
    BY <1>1, <1>4, <1>5, <1>6, AtConflict, ItemKeeps DEF Send

\* The item whose id is shared is the one that was pushed.
LEMMA SharedIsOwn ==
    ASSUME ConflictInv, Duplicating
    PROVE  /\ Shared = Conflict.unsaved.uuid /\ Local(Shared) = Conflict.unsaved
           /\ \E types : Is(types)
           /\ ~Is({"uuid_conflict"}) => Is({"sync_conflict"}) /\ Conflict.server # None
  <1>1. CASE Is({"uuid_conflict"})
    BY <1>1, AtConflict DEF Shared
  <1>2. CASE ~Is({"uuid_conflict"}) /\ Is({"sync_conflict"})
    BY <1>2, AtConflict DEF Shared
  <1>3. QED
    BY <1>1, <1>2 DEF Duplicating, InSync

\* A deletion is sent under its id.
LEMMA DeletionWinsKeeps == ASSUME ConflictInv, DeletionWins PROVE ConflictInv'
  <1>1. PICK types : Is(types)
    BY SharedIsOwn DEF DeletionWins
  <1>2. PICK kept : /\ kept = IF Is({"uuid_conflict"}) THEN Conflict.unsaved ELSE Conflict.server
    OBVIOUS
  <1>3. IsItem(kept) /\ kept.uuid = Conflict.unsaved.uuid
    BY <1>1, <1>2, AtConflict, SharedIsOwn DEF DeletionWins
  <1>4. PICK item : item = [kept EXCEPT !.deleted = TRUE]
    OBVIOUS
  <1>5. IsItem(item) /\ item.uuid = Conflict.unsaved.uuid /\ item.deleted = TRUE
    BY <1>3, <1>4, MarkedDeleted
  <1>6. Send(item)
    BY <1>2, <1>4 DEF DeletionWins
  <1>7. Gets(item)
    BY <1>5, <1>6 DEF Gets, Send
  <1>8. Conflict.unsaved.deleted = TRUE
    BY <1>1, AtConflict, SharedIsOwn DEF DeletionWins, IsItem
  <1>9. QED
    BY <1>1, <1>5, <1>6, <1>7, <1>8, AtConflict, ItemKeeps DEF Send

\* The local version is sent under an id that no other item has.
LEMMA DuplicateLocalKeeps == ASSUME ConflictInv, DuplicateLocal PROVE ConflictInv'
  <1>1. PICK types : Is(types)
    BY SharedIsOwn DEF DuplicateLocal
  <1>2. Shared = Conflict.unsaved.uuid /\ Local(Shared) = Conflict.unsaved
    BY SharedIsOwn DEF DuplicateLocal
  <1>3. PICK uuid \in Fresh \ NewIds :
          /\ refReMap' = [u \in DOMAIN refReMap \cup {Conflict.unsaved.uuid} |->
                            IF u = Conflict.unsaved.uuid THEN uuid ELSE refReMap[u]]
          /\ resolved' = Append(resolved, Duplicate(Conflict.unsaved, uuid))
    BY <1>2 DEF DuplicateLocal
  <1>4. PICK item : item = Duplicate(Conflict.unsaved, uuid)
    OBVIOUS
  <1>5. /\ IsItem(item) /\ item.uuid = uuid /\ item.key = Default
        /\ item.deleted = Conflict.unsaved.deleted /\ item.content = "mine"
    BY <1>1, <1>4, AtConflict, Duplicated
  <1>6. Gets(item)
    BY <1>3, <1>5 DEF Gets
  <1>7. next' = next + 1 /\ UNCHANGED <<pushed, conflicts, outcome>>
    BY DEF DuplicateLocal
  <1>8. QED
    BY <1>1, <1>3, <1>4, <1>5, <1>6, <1>7, AtConflict, ItemKeeps

\* What is skipped needs no item.
LEMMA SkipKeeps == ASSUME ConflictInv, Skip PROVE ConflictInv'
  <1>1. PICK types : Is(types) /\ types \cap {"sync_conflict", "uuid_conflict"} = {}
    BY DEF Skip
  <1>2. /\ outcome = "running" /\ next <= Len(conflicts) /\ Conflict.type \in types
        /\ UNCHANGED <<pushed, conflicts, refReMap, resolved, outcome>> /\ next' = next + 1
    BY <1>1 DEF Is, Skip
  <1>3. /\ Legal(pushed, conflicts) /\ StepInv /\ NewIdsInv /\ ResolvedInv /\ SentInv
    BY <1>2 DEF ConflictInv
  <1>4. next \in Nat /\ next \in DOMAIN conflicts /\ Len(conflicts) \in Nat
    BY <1>2, <1>3, NextConflict, LenProperties DEF Legal
  <1>5. Processed' = Processed \cup {Conflict}
    <2>1. 1..(next' - 1) = (1..(next - 1)) \cup {next}
      BY <1>2, <1>4
    <2>2. QED
      BY <1>2, <2>1 DEF Processed, Conflict
  <1>6. Conflict.type \notin {"sync_conflict", "uuid_conflict"}
    BY <1>1, <1>2
  <1>7. Resolved' = Resolved /\ NewIds' = NewIds /\ \A u : Renamed(u)' = Renamed(u)
    BY <1>2 DEF Resolved, NewIds, Renamed
  <1>8. StepInv'
    BY <1>2, <1>3, <1>4 DEF StepInv
  <1>9. NewIdsInv'
    BY <1>2, <1>3, <1>5, <1>7 DEF NewIdsInv
  <1>10. ResolvedInv'
    BY <1>2, <1>3, <1>5, <1>7 DEF ResolvedInv
  <1>11. SentInv'
    <2>1. \A c : Sent(c)' = Sent(c)
      BY <1>7 DEF Sent
    <2>2. QED
      BY <1>2, <1>3, <1>5, <1>6, <1>7, <2>1 DEF SentInv
  <1>12. QED
    BY <1>2, <1>3, <1>8, <1>9, <1>10, <1>11
       DEF ConflictInv, ReferencesFollow, EveryConflictAnswered

\* Where resolving fails nothing is left to show.
LEMMA FailKeeps == ASSUME ConflictInv, outcome = "running", Fail PROVE ConflictInv'
  <1>1. StepInv'
    BY DEF ConflictInv, Fail, StepInv
  <1>2. QED
    BY <1>1 DEF ConflictInv, Fail, ReferencesFollow, EveryConflictAnswered

LEMMA FailuresKeep ==
    ASSUME ConflictInv, Unhandled \/ CannotDuplicate \/ CannotRemap
    PROVE  ConflictInv'
  <1>1. Fail
    BY DEF Unhandled, CannotDuplicate, CannotRemap
  <1>2. outcome = "running"
    BY SharedIsOwn DEF Unhandled, CannotDuplicate, CannotRemap, AllProcessed, Is
  <1>3. QED
    BY <1>1, <1>2, FailKeeps

\* A list is one of its elements.
LEMMA ListOfElements ==
    ASSUME NEW T, NEW s \in Seq(T)
    PROVE  s \in Seq(ElementsOf(s))
  <1>1. Len(s) \in Nat /\ s \in [1..Len(s) -> T] /\ DOMAIN s = 1..Len(s)
    BY LenProperties
  <1>2. s \in [1..Len(s) -> ElementsOf(s)]
    BY <1>1 DEF ElementsOf
  <1>3. QED
    BY <1>1, <1>2, SeqDef

\* Of the conflicts that are kept no two are about one id.
LEMMA DeDupeConflictsKeeps == ASSUME ConflictInv, DeDupeConflicts PROVE ConflictInv'
  <1> DEFINE T == ElementsOf(conflicts)
             First == {k \in DOMAIN conflicts : \A j \in 1..(k - 1) :
                          Identity(conflicts[j]) # Identity(conflicts[k])}
  <1>1. /\ outcome = "duplicates" /\ outcome' = "running"
        /\ conflicts' = At(conflicts, First)
        /\ UNCHANGED <<pushed, next, refReMap, resolved>>
    BY DEF DeDupeConflicts
  <1>2. /\ Legal(pushed, conflicts) /\ NewIdsInv /\ ResolvedInv /\ SentInv
        /\ next = 1 /\ resolved = <<>> /\ refReMap = <<>>
    BY <1>1 DEF ConflictInv, StepInv
  <1>3. /\ Len(conflicts) \in Nat /\ DOMAIN conflicts = 1..Len(conflicts)
        /\ conflicts \in Seq(T)
    BY <1>2, LenProperties DEF Legal
  <1>4. First \in SUBSET DOMAIN conflicts
    OBVIOUS
  <1>5. /\ conflicts' \in Seq(T)
        /\ ElementsOf(conflicts') = {conflicts[i] : i \in First}
        /\ \A j, k \in DOMAIN conflicts' : j < k =>
              \E i, l \in First : i < l /\ conflicts'[j] = conflicts[i] /\ conflicts'[k] = conflicts[l]
    <2> HIDE DEF T, First
    <2>1. /\ At(conflicts, First) \in Seq(T)
          /\ ElementsOf(At(conflicts, First)) = {conflicts[i] : i \in First}
          /\ \A j, k \in DOMAIN At(conflicts, First) : j < k =>
                \E i, l \in First :
                   i < l /\ At(conflicts, First)[j] = conflicts[i] /\ At(conflicts, First)[k] = conflicts[l]
      BY <1>3, <1>4, AtKeeps
    <2>2. PICK kept : kept = At(conflicts, First)
      OBVIOUS
    <2>3. QED
      BY <1>1, <2>1, <2>2
  <1>6. /\ ElementsOf(conflicts') \subseteq T
        /\ conflicts' \in Seq(ElementsOf(conflicts'))
    BY <1>5, ListOfElements DEF ElementsOf
  <1>7. Legal(pushed', conflicts')
    BY <1>1, <1>2, <1>6 DEF Legal
  <1>8. ASSUME NEW i \in First, NEW l \in First, i < l
        PROVE  conflicts[i].unsaved.uuid # conflicts[l].unsaved.uuid
    <2>1. i \in 1..(l - 1) /\ conflicts[i] \in T /\ conflicts[l] \in T
      BY <1>3, <1>8 DEF ElementsOf
    <2>2. Identity(conflicts[i]) # Identity(conflicts[l])
      BY <2>1
    <2>3. ASSUME conflicts[i].unsaved.uuid = conflicts[l].unsaved.uuid
          PROVE  Identity(conflicts[i]) = Identity(conflicts[l])
      <3>1. conflicts[i].server = None <=> conflicts[l].server = None
        BY <1>2, <2>1, <2>3 DEF Legal
      <3>2. conflicts[i].server # None => conflicts[i].server.uuid = conflicts[l].server.uuid
        BY <1>2, <2>1, <2>3, <3>1, ConflictFacts
      <3>3. QED
        BY <2>3, <3>1, <3>2 DEF Identity
    <2>4. QED
      BY <2>2, <2>3
  <1>9. \A j, k \in DOMAIN conflicts' : conflicts'[j].unsaved.uuid = conflicts'[k].unsaved.uuid => j = k
    <2>1. \A j, k \in DOMAIN conflicts' :
             j < k => conflicts'[j].unsaved.uuid # conflicts'[k].unsaved.uuid
      BY <1>5, <1>8
    <2>2. \A j, k \in DOMAIN conflicts' : j \in Nat /\ k \in Nat
      BY <1>5, LenProperties
    <2>3. QED
      BY <2>1, <2>2
  <1>10. Len(conflicts') \in Nat
    BY <1>5, LenProperties
  <1>11. StepInv'
    BY <1>1, <1>2, <1>9, <1>10 DEF StepInv
  <1>12. Processed = {} /\ Processed' = {} /\ Resolved = {} /\ Resolved' = {}
    BY <1>1, <1>2 DEF Processed, Resolved
  <1>13. NewIdsInv' /\ ResolvedInv' /\ SentInv'
    BY <1>1, <1>2, <1>12 DEF NewIdsInv, NewIds, ResolvedInv, SentInv
  <1>14. QED
    BY <1>1, <1>7, <1>11, <1>13
       DEF ConflictInv, ReferencesFollow, EveryConflictAnswered

\* Every conflict has its item, whose references follow the new ids.
LEMMA updateEncryptedItemRefsKeeps ==
    ASSUME ConflictInv, updateEncryptedItemRefs PROVE ConflictInv'
  <1>1. /\ outcome = "running" /\ next > Len(conflicts)
        /\ resolved' = [k \in DOMAIN resolved |-> Remapped(resolved[k])]
        /\ outcome' \in {"push", "nothing"}
        /\ UNCHANGED <<pushed, conflicts, next, refReMap>>
    BY DEF updateEncryptedItemRefs, AllProcessed
  <1>2. /\ Legal(pushed, conflicts) /\ StepInv /\ NewIdsInv /\ ResolvedInv /\ SentInv
    BY <1>1 DEF ConflictInv
  <1>3. Processed = ElementsOf(conflicts)
    <2>1. Len(conflicts) \in Nat /\ DOMAIN conflicts = 1..Len(conflicts)
      BY <1>2, LenProperties DEF Legal
    <2>2. 1..(next - 1) = DOMAIN conflicts
      BY <1>1, <1>2, <2>1 DEF StepInv
    <2>3. QED
      BY <2>2 DEF Processed, ElementsOf
  <1>4. /\ DOMAIN resolved' = DOMAIN resolved
        /\ \A k \in DOMAIN resolved : resolved'[k] = Remapped(resolved[k]) /\ resolved[k] \in Resolved
    BY <1>1 DEF Resolved
  <1>5. /\ \A item \in Resolved' : \E old \in Resolved : item = Remapped(old)
        /\ \A old \in Resolved : Remapped(old) \in Resolved'
    BY <1>4 DEF Resolved
  <1>6. \A u : Renamed(u)' = Renamed(u)
    BY <1>1 DEF Renamed
  <1>7. \A old \in Resolved : IsItem(old)
    BY <1>2 DEF ResolvedInv
  <1>8. \A u \in DOMAIN refReMap : u \notin Fresh
    BY <1>2, <1>3, ConflictFacts DEF NewIdsInv
  <1>9. \A u : Renamed(u) \notin DOMAIN refReMap
    BY <1>2, <1>8 DEF Renamed, NewIds, NewIdsInv
  <1>10. ASSUME NEW item \in Resolved', ~Untouched(item)
         PROVE  item.refs \cap DOMAIN refReMap = {}
    <2>1. PICK old \in Resolved : item = Remapped(old)
      BY <1>5
    <2>2. ~Untouched(old)
      BY <1>7, <1>10, <2>1, RemappedFields DEF Untouched, IsEncryptedWithMasterKey
    <2>3. CASE old.refs \cap DOMAIN refReMap = {}
      BY <2>1, <2>3 DEF Remapped
    <2>4. CASE old.refs \cap DOMAIN refReMap # {}
      <3>1. item.refs = {Renamed(u) : u \in old.refs}
        BY <1>7, <2>1, <2>2, <2>4, RemappedFields
      <3>2. QED
        BY <1>9, <3>1
    <2>5. QED
      BY <2>3, <2>4
  <1>11. ReferencesFollow'
    <2>1. \A u \in DOMAIN refReMap : \E item \in Resolved' : item.uuid = refReMap[u]
      BY <1>2, <1>5, <1>7, RemappedFields DEF SentInv
    <2>2. \A item : Untouched(item)' = Untouched(item)
      BY DEF Untouched, IsEncryptedWithMasterKey
    <2>3. QED
      BY <1>1, <1>10, <2>1, <2>2 DEF ReferencesFollow
  <1>12. EveryConflictAnswered'
    <2>1. ASSUME NEW c \in ElementsOf(conflicts), Sent(c)
          PROVE  Sent(c)'
      <3>1. PICK old \in Resolved : /\ Renamed(c.unsaved.uuid) = old.uuid
                                    /\ old.deleted = c.unsaved.deleted
                                    /\ ~old.deleted => old.content = "mine"
        BY <2>1 DEF Sent
      <3>2. Remapped(old) \in Resolved'
        BY <1>5
      <3>3. QED
        BY <1>6, <1>7, <3>1, <3>2, RemappedFields DEF Sent
    <2>2. \A j, k \in DOMAIN resolved' : resolved'[j].uuid = resolved'[k].uuid => j = k
      BY <1>2, <1>4, <1>7, RemappedFields DEF ResolvedInv
    <2>3. QED
      BY <1>1, <1>2, <1>3, <2>1, <2>2 DEF EveryConflictAnswered, SentInv
  <1>13. StepInv'
    BY <1>1, <1>2 DEF StepInv
  <1>14. QED
    BY <1>1, <1>2, <1>11, <1>12, <1>13 DEF ConflictInv

\* Every step of the machine keeps the invariant.
LEMMA ConflictKept == ASSUME ConflictInv, [ConflictNext]_conflictVars PROVE ConflictInv'
  <1>1. CASE ConflictNext
    BY <1>1, DeDupeConflictsKeeps, SkipKeeps, KeepServersKeeps, KeepDeletedAtServerKeeps,
       KeepNewerKeeps, DeletionWinsKeeps, DuplicateLocalKeeps, FailuresKeep,
       updateEncryptedItemRefsKeeps DEF ConflictNext
  <1>2. CASE UNCHANGED conflictVars
    <2>1. /\ UNCHANGED <<pushed, conflicts, next, refReMap, resolved, outcome>>
          /\ Resolved' = Resolved /\ NewIds' = NewIds /\ Processed' = Processed
          /\ \A u : Renamed(u)' = Renamed(u)
      BY <1>2 DEF conflictVars, Resolved, NewIds, Processed, Renamed
    <2>2. \A c : Sent(c)' = Sent(c)
      BY <2>1 DEF Sent
    <2>3. /\ StepInv' = StepInv /\ NewIdsInv' = NewIdsInv /\ ResolvedInv' = ResolvedInv
          /\ SentInv' = SentInv
      BY <2>1, <2>2 DEF StepInv, NewIdsInv, ResolvedInv, SentInv
    <2>4. /\ ReferencesFollow' = ReferencesFollow
          /\ EveryConflictAnswered' = EveryConflictAnswered
      BY <2>1, <2>2 DEF ReferencesFollow, EveryConflictAnswered
    <2>5. QED
      BY <2>1, <2>3, <2>4 DEF ConflictInv
  <1>3. QED
    BY <1>1, <1>2

\* Nothing is resolved at first.
LEMMA ConflictStarts == ASSUME Init PROVE ConflictInv
  <1>1. Legal(pushed, conflicts)
    <2>1. CASE NoConflicts
      BY <2>1, EmptySeq DEF NoConflicts, Legal, ElementsOf
    <2>2. CASE ConflictInit
      BY <2>2, ExchangesAssumption DEF ConflictInit
    <2>3. QED
      BY <2>1, <2>2 DEF Init
  <1>2. /\ outcome = "duplicates" /\ next = 1 /\ resolved = <<>> /\ refReMap = <<>>
    BY DEF Init, NoConflicts, ConflictInit
  <1>3. Len(conflicts) \in Nat
    BY <1>1, LenProperties DEF Legal
  <1>4. Resolved = {} /\ NewIds = {} /\ Processed = {}
    BY <1>2 DEF Resolved, NewIds, Processed
  <1>5. StepInv
    BY <1>2, <1>3 DEF StepInv
  <1>6. NewIdsInv /\ ResolvedInv /\ SentInv
    BY <1>2, <1>4, EmptySeq DEF NewIdsInv, ResolvedInv, SentInv
  <1>7. QED
    BY <1>1, <1>2, <1>5, <1>6 DEF ConflictInv, ReferencesFollow, EveryConflictAnswered

---------------------------------------------------------------------------
(* ConflictRefs: its properties. *)

\* In every reachable state the conflicts before next have their items.
THEOREM ConflictInductive == Spec => []ConflictInv
  <1>1. ConflictInv /\ [Next]_toolVars => ConflictInv'
    <2> SUFFICES ASSUME ConflictInv, [Next]_toolVars PROVE ConflictInv'
      OBVIOUS
    <2>1. [ConflictNext]_conflictVars
      BY DEF Next, toolVars
    <2>2. QED
      BY <2>1, ConflictKept
  <1>2. QED
    BY <1>1, ConflictStarts, PTL DEF Spec

\* No item of the second request refers to an id that was replaced, and every
\* item with a new id is in it (updateEncryptedItemRefs), for any number of
\* conflicts in any order.
THEOREM ReferencesAreFollowed == Spec => []ReferencesFollow
  <1>1. ConflictInv => ReferencesFollow
    BY DEF ConflictInv
  <1>2. QED
    BY <1>1, ConflictInductive, PTL

\* Every local change in conflict is in the second request, once
\* (processConflicts and below).
THEOREM AllConflictsAnswered == Spec => []EveryConflictAnswered
  <1>1. ConflictInv => EveryConflictAnswered
    BY DEF ConflictInv
  <1>2. QED
    BY <1>1, ConflictInductive, PTL

---------------------------------------------------------------------------
(* Checklists: the groups.                                                 *)

\* Completing tasks changes their marks, and keeps every task in its place.
LEMMA CompletedTasks ==
    ASSUME NEW ts \in Seq(Task), NEW title, NEW c \in BOOLEAN
    PROVE  /\ SetCompleted(ts, title, c) \in Seq(Task)
           /\ DOMAIN SetCompleted(ts, title, c) = DOMAIN ts
           /\ \A k \in DOMAIN ts :
                 /\ SetCompleted(ts, title, c)[k].title = ts[k].title
                 /\ ts[k].title # title => SetCompleted(ts, title, c)[k] = ts[k]
                 /\ ts[k].title = title => SetCompleted(ts, title, c)[k].completed = c
  <1>1. Len(ts) \in Nat /\ DOMAIN ts = 1..Len(ts) /\ \A k \in DOMAIN ts : ts[k] \in Task
    BY LenProperties
  <1>2. \A k \in DOMAIN ts : [ts[k] EXCEPT !.completed = c] \in Task
    BY <1>1 DEF Task
  <1>3. SetCompleted(ts, title, c) \in Seq(Task)
    BY <1>1, <1>2, IsASeq DEF SetCompleted
  <1>4. \A k \in DOMAIN ts : /\ [ts[k] EXCEPT !.completed = c].title = ts[k].title
                             /\ [ts[k] EXCEPT !.completed = c].completed = c
    BY <1>1 DEF Task
  <1>5. QED
    BY <1>3, <1>4 DEF SetCompleted

\* The groups of a name with other tasks are groups, in their places.
LEMMA ChangedGroups ==
    ASSUME groups \in Seq(Group), NEW name,
           NEW changed, \A g \in DOMAIN groups : changed[g] \in Seq(Task)
    PROVE  /\ InGroups(name, changed) \in Seq(Group)
           /\ DOMAIN InGroups(name, changed) = DOMAIN groups
           /\ \A g \in DOMAIN groups :
                 /\ InGroups(name, changed)[g].name = groups[g].name
                 /\ g \in Named(name) => InGroups(name, changed)[g].tasks = changed[g]
                 /\ g \notin Named(name) => InGroups(name, changed)[g] = groups[g]
  <1>1. /\ Len(groups) \in Nat /\ DOMAIN groups = 1..Len(groups)
        /\ \A g \in DOMAIN groups : groups[g] \in Group
    BY LenProperties
  <1>2. \A g \in DOMAIN groups : /\ [groups[g] EXCEPT !.tasks = changed[g]] \in Group
                                 /\ [groups[g] EXCEPT !.tasks = changed[g]].name = groups[g].name
                                 /\ [groups[g] EXCEPT !.tasks = changed[g]].tasks = changed[g]
    BY <1>1 DEF Group
  <1>3. InGroups(name, changed) \in Seq(Group)
    BY <1>1, <1>2, IsASeq DEF InGroups
  <1>4. QED
    BY <1>2, <1>3 DEF InGroups

\* The groups of a list, and their tasks.
LEMMA TasksOfGroups ==
    ASSUME groups \in Seq(Group)
    PROVE  /\ Len(groups) \in Nat /\ DOMAIN groups = 1..Len(groups)
           /\ \A g \in DOMAIN groups : groups[g] \in Group /\ groups[g].tasks \in Seq(Task)
  <1>1. /\ Len(groups) \in Nat /\ DOMAIN groups = 1..Len(groups)
        /\ \A g \in DOMAIN groups : groups[g] \in Group
    BY LenProperties
  <1>2. \A group \in Group : group.tasks \in Seq(Task)
    BY DEF Group
  <1>3. QED
    BY <1>1, <1>2

\* No operation makes anything but groups of tasks of the list of groups.
LEMMA GroupsKept ==
    ASSUME GroupsInv, [Next]_toolVars
    PROVE  GroupsInv'
  <1> SUFFICES groups' \in Seq(Group)
    BY DEF GroupsInv
  <1>0. groups \in Seq(Group)
    BY DEF GroupsInv
  <1>1. /\ Len(groups) \in Nat /\ DOMAIN groups = 1..Len(groups)
        /\ \A g \in DOMAIN groups : groups[g] \in Group /\ groups[g].tasks \in Seq(Task)
    BY <1>0, TasksOfGroups
  <1>2. ASSUME NEW ts \in Seq(Task), NEW title \in Titles
        PROVE  Added(ts, title) \in Seq(Task)
    <2>1. <<[title |-> title, completed |-> FALSE]>> \in Seq(Task)
      BY DEF Task
    <2>2. QED
      BY <2>1, ConcatProperties DEF Added
  <1>3. ASSUME NEW name \in GroupNames, NEW ts \in Seq(Task)
        PROVE  NewGroup(name, ts) \in Seq(Group)
    <2>1. [name |-> name, tasks |-> ts] \in Group
      BY DEF Group
    <2>2. QED
      BY <1>0, <2>1, AppendProperties DEF NewGroup
  <1>4. ASSUME NEW name \in GroupNames, NEW title \in Titles, AddGroupTask(name, title)
        PROVE  groups' \in Seq(Group)
    <2>1. CASE groups' = NewGroup(name, Added(<<>>, title))
      BY <1>2, <1>3, <2>1, EmptySeq
    <2>2. ASSUME NEW first \in Named(name),
                 groups' = [groups EXCEPT ![first].tasks = Added(groups[first].tasks, title)]
          PROVE  groups' \in Seq(Group)
      <3>1. first \in DOMAIN groups /\ Added(groups[first].tasks, title) \in Seq(Task)
        BY <1>1, <1>2 DEF Named
      <3>2. [groups[first] EXCEPT !.tasks = Added(groups[first].tasks, title)] \in Group
        BY <1>1, <3>1 DEF Group
      <3>3. groups' = [groups EXCEPT ![first] =
                          [groups[first] EXCEPT !.tasks = Added(groups[first].tasks, title)]]
        BY <1>1, <2>2, <3>1 DEF Group
      <3>4. QED
        BY <1>0, <1>1, <3>1, <3>2, <3>3, ExceptSeq
    <2>3. QED
      BY <1>4, <2>1, <2>2 DEF AddGroupTask
  <1>5. ASSUME NEW name, NEW title, NEW c \in BOOLEAN,
               groups' = InGroups(name, [g \in DOMAIN groups |-> SetCompleted(groups[g].tasks, title, c)])
        PROVE  groups' \in Seq(Group)
    BY <1>0, <1>1, <1>5, CompletedTasks, ChangedGroups
  <1>6. ASSUME NEW name, NEW title, DeleteGroupTask(name, title)
        PROVE  groups' \in Seq(Group)
    <2>1. \A g \in DOMAIN groups : Without(groups[g].tasks, title) \in Seq(Task)
      BY <1>1, AtKeeps DEF Without
    <2>2. QED
      BY <1>0, <1>6, <2>1, ChangedGroups DEF DeleteGroupTask
  <1>7. ASSUME NEW name, DeleteGroup(name)
        PROVE  groups' \in Seq(Group)
    BY <1>0, <1>7, AtKeeps DEF DeleteGroup
  <1>8. CASE GroupNext
    <2>1. PICK name \in GroupNames :
             \/ AddGroup(name)
             \/ DeleteGroup(name)
             \/ \E title \in Titles : \/ AddGroupTask(name, title)
                                      \/ CompleteGroupTask(name, title)
                                      \/ ReopenGroupTask(name, title)
                                      \/ DeleteGroupTask(name, title)
      BY <1>8 DEF GroupNext
    <2>2. CASE AddGroup(name)
      BY <1>3, <2>2, EmptySeq DEF AddGroup
    <2>3. ASSUME NEW title \in Titles, CompleteGroupTask(name, title) \/ ReopenGroupTask(name, title)
          PROVE  groups' \in Seq(Group)
      BY <1>5, <2>3 DEF CompleteGroupTask, ReopenGroupTask
    <2>4. QED
      BY <1>4, <1>6, <1>7, <2>1, <2>2, <2>3
  <1>9. CASE TaskNext
    BY <1>0, <1>9 DEF TaskNext, AddTask, CompleteTask, ReopenTask, DeleteTask, Save, ToTaskList
  <1>10. CASE UNCHANGED groups
    BY <1>0, <1>10
  <1>11. QED
    BY <1>8, <1>9, <1>10 DEF Next, toolVars, checklistVars

\* Completing and reopening keep every other task, in every group.
THEOREM OthersAreKept == Spec => OnlyTheTaskChanges
  <1>1. Init => GroupsInv
    BY EmptySeq DEF Init, ChecklistInit, GroupsInv
  <1>2. Spec => []GroupsInv
    BY <1>1, GroupsKept, PTL DEF Spec
  <1>3. ASSUME groups \in Seq(Group), NEW name, NEW title, NEW c \in BOOLEAN,
               groups' = InGroups(name, [g \in DOMAIN groups |-> SetCompleted(groups[g].tasks, title, c)])
        PROVE  OnlyTheTask(name, title)
    <2> DEFINE changed == [g \in DOMAIN groups |-> SetCompleted(groups[g].tasks, title, c)]
    <2>1. \A g \in DOMAIN groups : groups[g].tasks \in Seq(Task)
      BY <1>3, TasksOfGroups
    <2>2. \A g \in DOMAIN groups :
             /\ changed[g] = SetCompleted(groups[g].tasks, title, c)
             /\ changed[g] \in Seq(Task)
      BY <2>1, CompletedTasks
    <2> HIDE DEF changed
    <2>3. /\ DOMAIN groups' = DOMAIN groups
          /\ \A g \in DOMAIN groups :
                /\ groups'[g].name = groups[g].name
                /\ g \in Named(name) => groups'[g].tasks = SetCompleted(groups[g].tasks, title, c)
                /\ g \notin Named(name) => groups'[g] = groups[g]
      BY <1>3, <2>2, ChangedGroups DEF changed
    <2>4. ASSUME NEW g \in Named(name)
          PROVE  /\ DOMAIN groups'[g].tasks = DOMAIN groups[g].tasks
                 /\ \A k \in DOMAIN groups[g].tasks :
                       /\ groups'[g].tasks[k].title = groups[g].tasks[k].title
                       /\ groups[g].tasks[k].title # title => groups'[g].tasks[k] = groups[g].tasks[k]
                       /\ groups[g].tasks[k].title = title => groups'[g].tasks[k].completed = c
      <3>1. g \in DOMAIN groups
        BY DEF Named
      <3>2. QED
        BY <2>1, <2>3, <3>1, CompletedTasks
    <2>5. \A g \in DOMAIN groups : g \in Named(name) <=> groups[g].name = name
      BY DEF Named
    <2>6. QED
      BY <2>3, <2>4, <2>5 DEF OnlyTheTask, Of, Named
  <1>4. GroupsInv =>
          \A name \in GroupNames, title \in Titles :
             CompleteGroupTask(name, title) \/ ReopenGroupTask(name, title) => OnlyTheTask(name, title)
    BY <1>3 DEF GroupsInv, CompleteGroupTask, ReopenGroupTask
  <1>5. QED
    BY <1>2, <1>4, PTL DEF OnlyTheTaskChanges

---------------------------------------------------------------------------
(* The note of a task list. *)

\* Numbers b[0] < b[1] < ... < b[m] are, as a set, m + 1 positions in this order.
LEMMA NthIs ==
    ASSUME NEW m \in Nat, NEW b \in [0..m -> Nat],
           \A j, k \in 0..m : j < k => b[j] < b[k]
    PROVE  /\ Cardinality({b[k] : k \in 0..m}) = m + 1
           /\ \A k \in 1..(m + 1) : Nth({b[j] : j \in 0..m}, k) = b[k - 1]
  <1> DEFINE B == {b[k] : k \in 0..m}
             UpTo(i) == {j \in B : j <= i}
  <1>1. ASSUME NEW k \in 0..m
        PROVE  Cardinality(UpTo(b[k])) = k + 1
    <2> DEFINE f == [j \in 0..k |-> b[j]]
    <2>1. \A j \in 0..m : b[j] <= b[k] <=> j \in 0..k
      <3> SUFFICES ASSUME NEW j \in 0..m PROVE b[j] <= b[k] <=> j \in 0..k
        OBVIOUS
      <3>1. b[j] \in Nat /\ b[k] \in Nat
        OBVIOUS
      <3>2. CASE j < k
        BY <3>1, <3>2
      <3>3. CASE k < j
        BY <3>1, <3>3
      <3>4. CASE j = k
        BY <3>1, <3>4
      <3> QED
        BY <3>2, <3>3, <3>4
    <2>2. UpTo(b[k]) = {b[j] : j \in 0..k}
      BY <2>1
    <2>3. f \in Bijection(0..k, UpTo(b[k]))
      <3>1. f \in [0..k -> UpTo(b[k])]
        BY <2>2
      <3>2. \A i, j \in 0..k : f[i] = f[j] => i = j
        <4> SUFFICES ASSUME NEW i \in 0..k, NEW j \in 0..k, b[i] = b[j] PROVE i = j
          OBVIOUS
        <4>1. ~(i < j) /\ ~(j < i)
          OBVIOUS
        <4> QED
          BY <4>1
      <3>3. \A t \in UpTo(b[k]) : \E j \in 0..k : f[j] = t
        BY <2>2
      <3> QED
        BY <3>1, <3>2, <3>3 DEF Bijection, Injection, Surjection, IsInjective
    <2>4. IsFiniteSet(0..k) /\ Cardinality(0..k) = k + 1
      <3>1. 0 \in Int /\ k \in Int /\ ~(0 > k) /\ k - 0 + 1 = k + 1
        OBVIOUS
      <3> HIDE DEF f, B
      <3> QED
        BY ONLY <3>1, FS_Interval
    <2> QED
      BY <2>3, <2>4, FS_Bijection DEF ExistsBijection
  <1>2. Cardinality(B) = m + 1
    <2>1. UpTo(b[m]) = B
      <3>1. \A j \in 0..m : b[j] <= b[m]
        <4> SUFFICES ASSUME NEW j \in 0..m PROVE b[j] <= b[m]
          OBVIOUS
        <4>1. b[j] \in Nat /\ b[m] \in Nat /\ (j < m \/ j = m)
          OBVIOUS
        <4> QED
          BY <4>1
      <3> QED
        BY <3>1
    <2> QED
      BY <1>1, <2>1
  <1>3. ASSUME NEW k \in 1..(m + 1)
        PROVE  Nth(B, k) = b[k - 1]
    <2>1. k - 1 \in 0..m /\ Cardinality(UpTo(b[k - 1])) = k
      <3>1. k - 1 \in 0..m /\ (k - 1) + 1 = k
        OBVIOUS
      <3> QED
        BY <1>1, <3>1
    <2>2. \A i \in B : Cardinality(UpTo(i)) = k => i = b[k - 1]
      <3> SUFFICES ASSUME NEW j \in 0..m, Cardinality(UpTo(b[j])) = k PROVE b[j] = b[k - 1]
        OBVIOUS
      <3>1. j + 1 = k
        BY <1>1
      <3> QED
        BY <3>1
    <2>3. b[k - 1] \in B
      BY <2>1
    <2>4. Nth(B, k) \in B /\ Cardinality(UpTo(Nth(B, k))) = k
      BY <2>1, <2>3 DEF Nth
    <2> QED
      BY <2>2, <2>4
  <1> QED
    BY <1>2, <1>3

---------------------------------------------------------------------------
(* Checklists: the text of a note. *)

Token == Letters \cup Boxes \cup {"NL"}

\* The line of a task: its box, its title, and a newline unless it is the last.
LEMMA LineOfTask ==
    ASSUME TitlesAssumption, NEW ts \in Seq(NoteTask), NEW k \in 1..Len(ts)
    PROVE  /\ Line(ts, k) \in Seq(Token)
           /\ ts[k].title \in Seq(Letters) /\ Len(ts[k].title) \in Nat
           /\ Len(Line(ts, k)) = Len(ts[k].title) + IF k = Len(ts) THEN 1 ELSE 2
           /\ Line(ts, k)[1] = Box(ts[k])
           /\ \A j \in 1..Len(ts[k].title) : Line(ts, k)[j + 1] = ts[k].title[j]
           /\ k # Len(ts) => Line(ts, k)[Len(Line(ts, k))] = "NL"
  <1> DEFINE title == ts[k].title
             sep == IF k = Len(ts) THEN <<>> ELSE <<"NL">>
             box == <<Box(ts[k])>>
  <1>1. ts[k] \in NoteTask
    BY ElementOfSeq
  <1>2. title \in Seq(Letters) /\ Letters \subseteq Token
    BY <1>1 DEF NoteTask, Token
  <1>3. title \in Seq(Token) /\ Len(title) \in Nat
    BY <1>2, SeqMonotonic, LenProperties
  <1>4. box \in Seq(Token) /\ Len(box) = 1 /\ box[1] = Box(ts[k])
    BY DEF Token, Box, Boxes
  <1>5. sep \in Seq(Token) /\ Len(sep) = (IF k = Len(ts) THEN 0 ELSE 1)
        /\ (k # Len(ts) => sep[1] = "NL")
    <2>1. CASE k = Len(ts)
      <3>1. sep = <<>>
        BY <2>1
      <3> QED
        BY <2>1, <3>1, EmptySeq
    <2>2. CASE k # Len(ts)
      <3>1. sep = <<"NL">> /\ "NL" \in Token
        BY <2>2 DEF Token
      <3> QED
        BY <2>2, <3>1
    <2> QED
      BY <2>1, <2>2
  <1> HIDE DEF title, sep, box
  <1>6. /\ box \o title \in Seq(Token)
        /\ Len(box \o title) = 1 + Len(title)
        /\ (box \o title)[1] = box[1]
        /\ \A j \in 1..Len(title) : (box \o title)[j + 1] = title[j]
    <2>1. /\ box \o title \in Seq(Token)
          /\ Len(box \o title) = 1 + Len(title)
          /\ \A i \in 1..(1 + Len(title)) : (box \o title)[i] =
                   IF i <= 1 THEN box[i] ELSE title[i - 1]
      <3>1. /\ box \o title \in Seq(Token)
            /\ Len(box \o title) = Len(box) + Len(title)
            /\ \A i \in 1..(Len(box) + Len(title)) : (box \o title)[i] =
                     IF i <= Len(box) THEN box[i] ELSE title[i - Len(box)]
        BY <1>3, <1>4, ConcatProperties
      <3> QED
        BY <1>3, <1>4, <3>1
    <2>2. ASSUME NEW j \in 1..Len(title) PROVE (box \o title)[j + 1] = title[j]
      <3>1. j + 1 \in 1..(1 + Len(title)) /\ ~(j + 1 <= 1) /\ (j + 1) - 1 = j
        BY <1>3
      <3> QED
        BY <2>1, <3>1
    <2> QED
      BY <1>3, <2>1, <2>2
  <1>7. /\ (box \o title) \o sep \in Seq(Token)
        /\ Len((box \o title) \o sep) = 1 + Len(title) + Len(sep)
        /\ \A i \in 1..(1 + Len(title) + Len(sep)) : ((box \o title) \o sep)[i] =
                 IF i <= 1 + Len(title) THEN (box \o title)[i] ELSE sep[i - (1 + Len(title))]
    <2>1. /\ (box \o title) \o sep \in Seq(Token)
          /\ Len((box \o title) \o sep) = Len(box \o title) + Len(sep)
          /\ \A i \in 1..(Len(box \o title) + Len(sep)) : ((box \o title) \o sep)[i] =
                   IF i <= Len(box \o title) THEN (box \o title)[i]
                                             ELSE sep[i - Len(box \o title)]
      BY <1>5, <1>6, ConcatProperties
    <2> QED
      BY <1>6, <2>1
  <1>8. Line(ts, k) = (box \o title) \o sep
    BY <1>3, <1>4, <1>5, ConcatAssociative DEF Line, box, title, sep
  <1>9. /\ Line(ts, k)[1] = Box(ts[k])
        /\ \A j \in 1..Len(title) : Line(ts, k)[j + 1] = title[j]
    <2>1. 1 \in 1..(1 + Len(title) + Len(sep)) /\ 1 <= 1 + Len(title)
      BY <1>3, <1>5
    <2>2. \A j \in 1..Len(title) : /\ j + 1 \in 1..(1 + Len(title) + Len(sep))
                                   /\ j + 1 <= 1 + Len(title)
      BY <1>3, <1>5
    <2> QED
      BY <1>4, <1>6, <1>7, <1>8, <2>1, <2>2
  <1>10. k # Len(ts) => Line(ts, k)[Len(Line(ts, k))] = "NL"
    <2> SUFFICES ASSUME k # Len(ts) PROVE Line(ts, k)[Len(Line(ts, k))] = "NL"
      OBVIOUS
    <2>1. Len(sep) = 1 /\ sep[1] = "NL"
      BY <1>5
    <2>2. /\ 2 + Len(title) \in 1..(1 + Len(title) + Len(sep))
          /\ ~(2 + Len(title) <= 1 + Len(title))
          /\ (2 + Len(title)) - (1 + Len(title)) = 1
          /\ 1 + Len(title) + Len(sep) = 2 + Len(title)
      BY <1>3, <2>1
    <2>3. Line(ts, k)[2 + Len(title)] = sep[1] /\ Len(Line(ts, k)) = 2 + Len(title)
      BY <1>7, <1>8, <2>2
    <2> QED
      BY <2>1, <2>3
  <1>11. Len(Line(ts, k)) = Len(title) + IF k = Len(ts) THEN 1 ELSE 2
    BY <1>3, <1>5, <1>7, <1>8
  <1> QED
    BY <1>2, <1>3, <1>7, <1>8, <1>9, <1>10, <1>11 DEF title

\* The builder appends one line after the other.
LEMMA WrittenSteps ==
    ASSUME NEW ts \in Seq(NoteTask)
    PROVE  /\ Written(ts)[0] = <<>>
           /\ \A n \in 1..Len(ts) : Written(ts)[n] = Written(ts)[n - 1] \o Line(ts, n)
  <1> DEFINE Appends(g, m) == /\ DOMAIN g = 0..m
                              /\ g[0] = <<>>
                              /\ \A n \in 1..m : g[n] = g[n - 1] \o Line(ts, n)
             Body(g) == [n \in 0..Len(ts) |-> IF n = 0 THEN <<>> ELSE g[n - 1] \o Line(ts, n)]
             Without_(m) == ~\E g : Appends(g, m)
             T == {m \in Nat : Without_(m)}
  <1>0. Len(ts) \in Nat
    BY LenProperties
  <1>1. T = {}
    <2> SUFFICES ASSUME T # {} PROVE FALSE
      OBVIOUS
    <2>1. PICK m \in T : \A n \in T : m <= n
      BY Least
    <2>2. m # 0
      <3>1. Appends([n \in 0..0 |-> <<>>], 0)
        OBVIOUS
      <3> QED
        BY <2>1, <3>1
    <2>3. m \in Nat /\ m - 1 \in Nat /\ m - 1 \notin T
      <3>1. m \in Nat
        BY <2>1
      <3>2. m - 1 \in Nat /\ ~(m <= m - 1)
        BY <2>2, <3>1
      <3> QED
        BY <2>1, <3>1, <3>2
    <2>4. PICK g : Appends(g, m - 1)
      BY <2>3
    <2> DEFINE h == [n \in 0..m |-> IF n = m THEN g[m - 1] \o Line(ts, m) ELSE g[n]]
    <2>5. Appends(h, m)
      <3>1. 0 \in 0..m /\ h[0] = <<>>
        BY <2>2, <2>3, <2>4
      <3>2. ASSUME NEW n \in 1..m PROVE h[n] = h[n - 1] \o Line(ts, n)
        <4>1. n \in 0..m /\ n - 1 \in 0..m /\ n - 1 # m /\ h[n - 1] = g[n - 1]
          BY <2>3
        <4>2. CASE n = m
          BY <4>1, <4>2
        <4>3. CASE n # m
          <5>1. n \in 1..(m - 1)
            BY <2>3, <4>3
          <5> QED
            BY <2>4, <4>1, <4>3, <5>1
        <4> QED
          BY <4>2, <4>3
      <3> QED
        BY <3>1, <3>2
    <2> QED
      BY <2>1, <2>5
  <1>2. PICK g : Appends(g, Len(ts))
    BY <1>0, <1>1
  <1> DEFINE h == [n \in 0..Len(ts) |-> g[n]]
  <1>3. h = Body(h)
    <2>1. ASSUME NEW n \in 0..Len(ts) PROVE h[n] = Body(h)[n]
      <3>1. CASE n = 0
        BY <1>0, <1>2, <3>1
      <3>2. CASE n # 0
        <4>1. n \in 1..Len(ts) /\ n - 1 \in 0..Len(ts)
          BY <1>0, <3>2
        <4> QED
          BY <1>2, <3>2, <4>1
      <3> QED
        BY <3>1, <3>2
    <2> QED
      BY <2>1
  <1>4. Written(ts) = CHOOSE builder : builder = Body(builder)
    BY DEF Written
  <1> HIDE DEF h, Body
  <1>5. Written(ts) = Body(Written(ts))
    BY <1>3, <1>4
  <1> USE DEF Body
  <1>6. 0 \in 0..Len(ts) /\ \A n \in 1..Len(ts) : n \in 0..Len(ts) /\ n # 0
    BY <1>0
  <1> QED
    BY <1>5, <1>6

\* Induction up to n, for the set of numbers of which something holds.
LEMMA Stepwise ==
    ASSUME NEW n \in Nat, NEW S, 0 \in S,
           \A k \in 1..n : k - 1 \in S => k \in S
    PROVE  \A k \in 0..n : k \in S
  <1> DEFINE T == {k \in 0..n : k \notin S}
  <1> SUFFICES ASSUME T # {} PROVE FALSE
    OBVIOUS
  <1>1. T \in SUBSET Nat
    OBVIOUS
  <1>2. PICK k \in T : \A j \in T : k <= j
    BY <1>1, Least
  <1>3. k \in 1..n /\ k - 1 \in 0..n /\ ~(k <= k - 1)
    OBVIOUS
  <1>4. k - 1 \in S
    BY <1>2, <1>3
  <1> QED
    BY <1>3, <1>4

\* Every prefix of the builder is a text, and each is longer than the one before.
LEMMA WrittenGrows ==
    ASSUME TitlesAssumption, NEW ts \in Seq(NoteTask)
    PROVE  /\ \A n \in 0..Len(ts) : Written(ts)[n] \in Seq(Token) /\ Len(Written(ts)[n]) \in Nat
           /\ Len(Written(ts)[0]) = 0
           /\ \A n \in 1..Len(ts) : /\ Len(Line(ts, n)) \in Nat \ {0}
                                    /\ Len(Written(ts)[n]) = Len(Written(ts)[n - 1]) + Len(Line(ts, n))
           /\ \A j, k \in 0..Len(ts) : j < k => Len(Written(ts)[j]) < Len(Written(ts)[k])
  <1> DEFINE w == Written(ts)
             L == Len(ts)
             e(n) == Len(w[n])
             ofText == {n \in 0..L : w[n] \in Seq(Token)}
             longer == {k \in 0..L : \A j \in 0..L : j < k => e(j) < e(k)}
  <1>0. L \in Nat
    BY LenProperties
  <1>1. w[0] = <<>> /\ \A n \in 1..L : w[n] = w[n - 1] \o Line(ts, n)
    BY WrittenSteps
  <1>2. \A n \in 1..L : Line(ts, n) \in Seq(Token) /\ Len(Line(ts, n)) \in Nat \ {0}
    <2> SUFFICES ASSUME NEW n \in 1..L
                 PROVE  Line(ts, n) \in Seq(Token) /\ Len(Line(ts, n)) \in Nat \ {0}
      OBVIOUS
    <2>1. /\ Line(ts, n) \in Seq(Token) /\ Len(ts[n].title) \in Nat
          /\ Len(Line(ts, n)) = Len(ts[n].title) + IF n = Len(ts) THEN 1 ELSE 2
      BY LineOfTask
    <2>2. \A x, y \in Nat : x = y + 1 \/ x = y + 2 => x \in Nat \ {0}
      OBVIOUS
    <2>3. Len(Line(ts, n)) \in Nat
      BY <2>1, LenProperties
    <2>4. \/ Len(Line(ts, n)) = Len(ts[n].title) + 1
          \/ Len(Line(ts, n)) = Len(ts[n].title) + 2
      BY <2>1
    <2> QED
      BY <2>1, <2>2, <2>3, <2>4
  <1> HIDE DEF w, L
  <1>3. \A n \in 0..L : w[n] \in Seq(Token)
    <2>1. 0 \in ofText
      <3>1. 0 \in 0..L /\ <<>> \in Seq(Token)
        BY <1>0, EmptySeq
      <3> QED
        BY <1>1, <3>1
    <2>2. ASSUME NEW n \in 1..L, n - 1 \in ofText PROVE n \in ofText
      <3>1. w[n - 1] \o Line(ts, n) \in Seq(Token)
        BY <1>2, <2>2, ConcatProperties
      <3>2. w[n] = w[n - 1] \o Line(ts, n)
        BY <1>1
      <3>3. n \in 0..L
        BY <1>0
      <3> QED
        BY <3>1, <3>2, <3>3
    <2> HIDE DEF ofText
    <2>3. \A n \in 0..L : n \in ofText
      BY <1>0, <2>1, <2>2, Stepwise
    <2> QED
      BY <2>3 DEF ofText
  <1>4. \A n \in 0..L : e(n) \in Nat
    BY <1>3, LenProperties
  <1>5. \A n \in 1..L : e(n) = e(n - 1) + Len(Line(ts, n))
    <2> SUFFICES ASSUME NEW n \in 1..L PROVE e(n) = e(n - 1) + Len(Line(ts, n))
      OBVIOUS
    <2>1. n - 1 \in 0..L
      BY <1>0
    <2>2. w[n] = w[n - 1] \o Line(ts, n)
      BY <1>1
    <2>3. Len(w[n - 1] \o Line(ts, n)) = Len(w[n - 1]) + Len(Line(ts, n))
      BY <1>2, <1>3, <2>1, ConcatProperties
    <2> QED
      BY ONLY <2>2, <2>3
  <1>6. \A k \in 0..L : k \in longer
    <2>1. 0 \in longer
      BY <1>0
    <2>2. ASSUME NEW k \in 1..L, k - 1 \in longer PROVE k \in longer
      <3> SUFFICES ASSUME NEW j \in 0..L, j < k PROVE e(j) < e(k)
        BY <1>0
      <3>1. k - 1 \in 0..L /\ (j = k - 1 \/ j < k - 1)
        BY <1>0
      <3>2. e(j) <= e(k - 1)
        BY <1>4, <2>2, <3>1
      <3>3. e(k - 1) < e(k)
        BY <1>2, <1>4, <1>5, <3>1
      <3>4. k \in 0..L
        BY <1>0
      <3> QED
        BY <1>4, <3>1, <3>2, <3>3, <3>4
    <2> HIDE DEF longer
    <2> QED
      BY <1>0, <2>1, <2>2, Stepwise
  <1>7. e(0) = 0
    BY <1>1, EmptySeq
  <1> QED
    BY <1>2, <1>3, <1>4, <1>5, <1>6, <1>7 DEF w, L

\* A text is the lines of its tasks, one after the other, and nothing else.
LEMMA TextIsLines ==
    ASSUME TitlesAssumption, NEW ts \in Seq(NoteTask)
    PROVE  \A n \in 0..Len(ts) :
              /\ \A m \in 1..n, j \in Nat \ {0} : j <= Len(Line(ts, m)) =>
                    Written(ts)[n][Len(Written(ts)[m - 1]) + j] = Line(ts, m)[j]
              /\ \A i \in 1..Len(Written(ts)[n]) : \E m \in 1..n, j \in Nat \ {0} :
                    j <= Len(Line(ts, m)) /\ i = Len(Written(ts)[m - 1]) + j
  <1> DEFINE w == Written(ts)
             L == Len(ts)
             e(n) == Len(w[n])
             l(n) == Len(Line(ts, n))
             Has(n) == \A m \in 1..n, j \in Nat \ {0} : j <= l(m) => w[n][e(m - 1) + j] = Line(ts, m)[j]
             Only(n) == \A i \in 1..e(n) : \E m \in 1..n, j \in Nat \ {0} : j <= l(m) /\ i = e(m - 1) + j
             S == {n \in 0..L : Has(n) /\ Only(n)}
  <1>0. L \in Nat
    BY LenProperties
  <1>1. /\ \A n \in 0..L : w[n] \in Seq(Token) /\ e(n) \in Nat
        /\ e(0) = 0
        /\ \A n \in 1..L : l(n) \in Nat \ {0} /\ e(n) = e(n - 1) + l(n)
        /\ \A j, k \in 0..L : j < k => e(j) < e(k)
    BY WrittenGrows
  <1>2. \A n \in 1..L : w[n] = w[n - 1] \o Line(ts, n) /\ Line(ts, n) \in Seq(Token)
    BY WrittenSteps, LineOfTask
  <1> HIDE DEF w, L
  <1>3. 0 \in S
    <2>1. 1..0 = {} /\ 1..e(0) = {}
      BY <1>1
    <2> QED
      BY <1>0, <2>1
  <1>4. ASSUME NEW n \in 1..L, n - 1 \in S PROVE n \in S
    <2>0. n - 1 \in 0..L /\ n \in 0..L /\ n \in Nat /\ e(n) \in Nat /\ e(n - 1) \in Nat
          /\ l(n) \in Nat \ {0} /\ e(n) = e(n - 1) + l(n)
      BY <1>0, <1>1
    <2>1. \A i \in 1..e(n) : w[n][i] = IF i <= e(n - 1) THEN w[n - 1][i] ELSE Line(ts, n)[i - e(n - 1)]
      <3>1. \A i \in 1..(e(n - 1) + l(n)) : (w[n - 1] \o Line(ts, n))[i] =
               IF i <= e(n - 1) THEN w[n - 1][i] ELSE Line(ts, n)[i - e(n - 1)]
        BY <1>1, <1>2, <2>0, ConcatProperties
      <3> QED
        BY <1>2, <2>0, <3>1
    <2>2. Has(n)
      <3> SUFFICES ASSUME NEW m \in 1..n, NEW j \in Nat \ {0}, j <= l(m)
                   PROVE  w[n][e(m - 1) + j] = Line(ts, m)[j]
        OBVIOUS
      <3>1. m \in 1..L /\ m - 1 \in 0..L /\ m \in 0..L
        BY <1>0
      <3>2. e(m - 1) \in Nat /\ e(m) \in Nat /\ l(m) \in Nat /\ e(m) = e(m - 1) + l(m)
        BY <1>1, <3>1
      <3>3. CASE m = n
        <4>1. /\ e(n - 1) + j \in 1..e(n) /\ ~(e(n - 1) + j <= e(n - 1))
              /\ (e(n - 1) + j) - e(n - 1) = j
          BY <2>0, <3>2, <3>3
        <4> QED
          BY <2>1, <3>3, <4>1
      <3>4. CASE m # n
        <4>1. m \in 1..(n - 1) /\ (m < n - 1 \/ m = n - 1)
          BY <3>4
        <4>2. e(m) <= e(n - 1)
          <5>1. CASE m < n - 1
            <6>1. e(m) < e(n - 1)
              BY <1>1, <2>0, <3>1, <5>1
            <6>2. \A x, y \in Nat : x < y => x <= y
              OBVIOUS
            <6> QED
              BY ONLY <2>0, <3>2, <6>1, <6>2
          <5>2. CASE m = n - 1
            BY ONLY <2>0, <5>2
          <5> QED
            BY <4>1, <5>1, <5>2
        <4>3. e(m - 1) + j \in 1..e(n) /\ e(m - 1) + j <= e(n - 1)
          <5>1. e(m - 1) + j <= e(m) /\ e(m - 1) + j \in Nat \ {0}
            BY <3>2
          <5>2. \A x, y, z, v \in Nat : x \in Nat \ {0} /\ x <= y /\ y <= z /\ z <= v
                                         => x \in 1..v /\ x <= z
            OBVIOUS
          <5>3. e(n - 1) <= e(n)
            BY ONLY <2>0
          <5> QED
            BY ONLY <2>0, <3>2, <4>2, <5>1, <5>2, <5>3
        <4>4. w[n - 1][e(m - 1) + j] = Line(ts, m)[j]
          BY <1>4, <4>1
        <4> QED
          BY <2>1, <4>3, <4>4
      <3> QED
        BY <3>3, <3>4
    <2>3. Only(n)
      <3> SUFFICES ASSUME NEW i \in 1..e(n)
                   PROVE  \E m \in 1..n, j \in Nat \ {0} : j <= l(m) /\ i = e(m - 1) + j
        OBVIOUS
      <3>1. CASE i <= e(n - 1)
        <4>1. i \in 1..e(n - 1)
          BY <2>0, <3>1
        <4>2. PICK m \in 1..(n - 1), j \in Nat \ {0} : j <= l(m) /\ i = e(m - 1) + j
          BY <1>4, <4>1
        <4>3. m \in 1..n
          BY <2>0
        <4> QED
          BY <4>2, <4>3
      <3>2. CASE ~(i <= e(n - 1))
        <4>1. /\ n \in 1..n /\ i - e(n - 1) \in Nat \ {0}
              /\ i - e(n - 1) <= l(n) /\ i = e(n - 1) + (i - e(n - 1))
          BY <2>0, <3>2
        <4> QED
          BY <4>1
      <3> QED
        BY <3>1, <3>2
    <2> HIDE DEF Has, Only
    <2> QED
      BY <2>0, <2>2, <2>3
  <1> HIDE DEF S
  <1>5. \A n \in 0..L : n \in S
    BY <1>0, <1>3, <1>4, Stepwise
  <1> USE DEF S
  <1> QED
    BY <1>5 DEF w, L

\* Boxes are at the beginning of a text and after newlines only.
BoxesLead(s) == \A i \in 1..Len(s) : s[i] \in Boxes => i = 1 \/ s[i - 1] = "NL"

LEMMA TextShape ==
    ASSUME TitlesAssumption, NEW ts \in Seq(NoteTask)
    PROVE  TasksToNoteText(ts) \in Seq(Token) /\ BoxesLead(TasksToNoteText(ts))
  <1> DEFINE w == Written(ts)
             L == Len(ts)
             s == TasksToNoteText(ts)
             e(n) == Len(w[n])
             l(n) == Len(Line(ts, n))
  <1>0. L \in Nat
    BY LenProperties
  <1>1. /\ \A n \in 0..L : w[n] \in Seq(Token) /\ e(n) \in Nat
        /\ e(0) = 0
        /\ \A n \in 1..L : l(n) \in Nat \ {0} /\ e(n) = e(n - 1) + l(n)
    BY WrittenGrows
  <1>2. s = w[L] /\ s \in Seq(Token)
    BY <1>0, <1>1 DEF TasksToNoteText
  <1>3. /\ \A m \in 1..L, j \in Nat \ {0} : j <= l(m) => s[e(m - 1) + j] = Line(ts, m)[j]
        /\ \A i \in 1..Len(s) : \E m \in 1..L, j \in Nat \ {0} : j <= l(m) /\ i = e(m - 1) + j
    <2>1. L \in 0..L
      BY <1>0
    <2>2. /\ \A m \in 1..L, j \in Nat \ {0} : j <= l(m) => w[L][e(m - 1) + j] = Line(ts, m)[j]
          /\ \A i \in 1..Len(w[L]) : \E m \in 1..L, j \in Nat \ {0} : j <= l(m) /\ i = e(m - 1) + j
      BY <2>1, TextIsLines
    <2> HIDE DEF w, L, s
    <2> QED
      BY <1>2, <2>2
  <1> HIDE DEF w, L, s
  <1>4. ASSUME NEW i \in 1..Len(s), s[i] \in Boxes PROVE i = 1 \/ s[i - 1] = "NL"
    <2>1. PICK m \in 1..L, j \in Nat \ {0} : j <= l(m) /\ i = e(m - 1) + j
      BY <1>3
    <2>2. s[i] = Line(ts, m)[j]
      BY <1>3, <2>1
    <2>3. /\ ts[m].title \in Seq(Letters) /\ Len(ts[m].title) \in Nat
          /\ l(m) = Len(ts[m].title) + IF m = L THEN 1 ELSE 2
          /\ \A k \in 1..Len(ts[m].title) : Line(ts, m)[k + 1] = ts[m].title[k]
          /\ m # L => Line(ts, m)[l(m)] = "NL"
      BY LineOfTask DEF L
    <2>4. j = 1
      <3> SUFFICES ASSUME j # 1 PROVE FALSE
        OBVIOUS
      <3>1. CASE j - 1 \in 1..Len(ts[m].title)
        <4>1. Line(ts, m)[(j - 1) + 1] = ts[m].title[j - 1] /\ (j - 1) + 1 = j
          <5>1. (j - 1) + 1 = j
            BY <2>1
          <5>2. Line(ts, m)[(j - 1) + 1] = ts[m].title[j - 1]
            BY ONLY <2>3, <3>1
          <5> QED
            BY <5>1, <5>2
        <4>2. ts[m].title[j - 1] \in Letters
          BY <2>3, <3>1, ElementOfSeq
        <4> QED
          BY <1>4, <2>2, <4>1, <4>2 DEF TitlesAssumption
      <3>2. CASE j - 1 \notin 1..Len(ts[m].title)
        <4>1. m # L /\ l(m) = Len(ts[m].title) + 2
          <5>1. j - 1 \in Nat \ {0} /\ ~(j - 1 <= Len(ts[m].title))
            BY <2>3, <3>2
          <5>2. m = L => l(m) = Len(ts[m].title) + 1
            BY <2>3
          <5>3. \A t, n \in Nat : n = t + 1 /\ ~(j - 1 <= t) => ~(j <= n)
            BY <2>1
          <5>4. m # L
            <6> SUFFICES ASSUME m = L PROVE FALSE
              OBVIOUS
            <6>1. l(m) = Len(ts[m].title) + 1 /\ Len(ts[m].title) \in Nat
              BY <2>3, <5>2
            <6>2. l(m) \in Nat /\ ~(j <= l(m))
              BY <5>1, <5>3, <6>1
            <6> QED
              BY <2>1, <6>2
          <5>5. l(m) = Len(ts[m].title) + 2
            BY <2>3, <5>4
          <5> QED
            BY <5>4, <5>5
        <4>2. j = l(m)
          <5>1. \A t, n \in Nat : n = t + 2 /\ j <= n /\ j # 1 /\ j - 1 \notin 1..t => j = n
            BY <2>1
          <5>2. Len(ts[m].title) \in Nat /\ l(m) \in Nat /\ j <= l(m)
            BY <2>1, <2>3, <4>1
          <5> QED
            BY ONLY j # 1, <3>2, <4>1, <5>1, <5>2
        <4>3. s[i] = "NL"
          BY <2>2, <2>3, <4>1, <4>2
        <4> QED
          BY <1>4, <4>3 DEF Boxes
      <3> QED
        BY <3>1, <3>2
    <2>5. CASE m = 1
      BY <1>1, <2>1, <2>4, <2>5
    <2>6. CASE m # 1
      <3>1. m - 1 \in 1..L /\ m - 1 # L /\ (m - 1) - 1 \in 0..L /\ m - 1 \in 0..L
        BY <1>0, <2>6
      <3>2. /\ l(m - 1) \in Nat \ {0} /\ e(m - 1) = e((m - 1) - 1) + l(m - 1)
            /\ e(m - 1) \in Nat
        BY <1>1, <3>1
      <3>3. Line(ts, m - 1)[l(m - 1)] = "NL"
        BY <3>1, LineOfTask DEF L
      <3>4. s[e((m - 1) - 1) + l(m - 1)] = Line(ts, m - 1)[l(m - 1)]
        <4>1. l(m - 1) <= l(m - 1)
          BY <3>2
        <4> QED
          BY <1>3, <3>1, <3>2, <4>1
      <3>5. i - 1 = e((m - 1) - 1) + l(m - 1)
        BY <2>1, <2>4, <3>2
      <3> QED
        BY <3>3, <3>4, <3>5
    <2> QED
      BY <2>5, <2>6
  <1> QED
    BY <1>2, <1>4 DEF BoxesLead, s

\* A line of a split text lies between two breaks with none between them.
LEMMA SplitAt ==
    ASSUME NEW T, NEW s \in Seq(T), NEW separator
    PROVE  /\ Cardinality(Breaks(s, separator)) \in Nat
           /\ DOMAIN Split(s, separator) = 1..(Cardinality(Breaks(s, separator)) - 1)
           /\ \A k \in DOMAIN Split(s, separator) :
                 \E lo, hi \in 0..(Len(s) + 1) :
                    /\ lo < hi /\ Split(s, separator)[k] = SubSeq(s, lo + 1, hi - 1)
                    /\ \A i \in 1..Len(s) : lo < i /\ i < hi => s[i] # separator
                    /\ lo = 0 \/ s[lo] = separator
  <1> DEFINE B == Breaks(s, separator)
             c == Cardinality(B)
  <1>0. Len(s) \in Nat /\ DOMAIN s = 1..Len(s)
    BY LenProperties
  <1>1. /\ B \in SUBSET (0..(Len(s) + 1))
        /\ 0 \in B /\ Len(s) + 1 \in B
        /\ \A i \in 1..Len(s) : i \in B <=> s[i] = separator
    BY <1>0 DEF Breaks
  <1>2. /\ c \in Nat
        /\ \A k \in 1..c : Nth(B, k) \in B
        /\ \A i \in B : \E k \in 1..c : Nth(B, k) = i
        /\ \A j, k \in 1..c : j < k => Nth(B, j) < Nth(B, k)
    <2>1. Len(s) + 1 \in Nat
      BY <1>0
    <2> QED
      BY <1>1, <2>1, NthFromZero
  <1>3. Split(s, separator) = [k \in 1..(c - 1) |-> SubSeq(s, Nth(B, k) + 1, Nth(B, k + 1) - 1)]
    BY DEF Split
  <1> HIDE DEF c, B
  <1>4. ASSUME NEW k \in 1..(c - 1)
        PROVE  \E lo, hi \in 0..(Len(s) + 1) :
                    /\ lo < hi /\ Split(s, separator)[k] = SubSeq(s, lo + 1, hi - 1)
                    /\ \A i \in 1..Len(s) : lo < i /\ i < hi => s[i] # separator
                    /\ lo = 0 \/ s[lo] = separator
    <2>1. k \in 1..c /\ k + 1 \in 1..c /\ k < k + 1
      BY <1>2
    <2>2. PICK lo \in B : lo = Nth(B, k)
      BY <1>2, <2>1
    <2>3. PICK hi \in B : hi = Nth(B, k + 1)
      BY <1>2, <2>1
    <2>4. lo \in 0..(Len(s) + 1) /\ hi \in 0..(Len(s) + 1) /\ lo < hi
      BY <1>1, <1>2, <2>1, <2>2, <2>3
    <2>5. ASSUME NEW i \in 1..Len(s), lo < i, i < hi PROVE s[i] # separator
      <3> SUFFICES ASSUME s[i] = separator PROVE FALSE
        OBVIOUS
      <3>1. PICK j \in 1..c : Nth(B, j) = i
        BY <1>1, <1>2
      <3>2. ~(j < k) /\ j # k
        BY <1>0, <1>2, <2>1, <2>2, <2>4, <2>5, <3>1
      <3>3. ~(k + 1 < j) /\ j # k + 1
        BY <1>0, <1>2, <2>1, <2>3, <2>4, <2>5, <3>1
      <3> QED
        BY <2>1, <3>2, <3>3
    <2>6. lo = 0 \/ s[lo] = separator
      <3>1. lo # Len(s) + 1
        BY <1>0, <2>4
      <3>2. CASE lo # 0
        BY <1>0, <1>1, <2>4, <3>1, <3>2
      <3> QED
        BY <3>2
    <2> QED
      BY <1>3, <2>2, <2>3, <2>4, <2>5, <2>6
  <1> QED
    BY <1>2, <1>3, <1>4 DEF c, B

\* Reading a text whose boxes lead their lines gives tasks.
LEMMA ReadTasks ==
    ASSUME TitlesAssumption, NEW s \in Seq(Token), BoxesLead(s), ~Unreadable(s)
    PROVE  [k \in DOMAIN Lines(s) |-> TaskOf(Lines(s)[k])] \in Seq(NoteTask)
  <1> DEFINE sep == IF Contains(s, "NL") THEN "NL" ELSE "bn"
             lines == Lines(s)
             c == Cardinality(Breaks(s, sep))
  <1>0. Len(s) \in Nat /\ DOMAIN s = 1..Len(s) /\ \A i \in 1..Len(s) : s[i] \in Token
    BY LenProperties, ElementOfSeq
  <1>1. lines = Split(s, sep)
    BY DEF Lines
  <1>3. \A i \in 1..Len(s) : s[i] # sep => s[i] # "NL"
    BY DEF Contains
  <1> HIDE DEF sep, lines
  <1>2. /\ c \in Nat /\ DOMAIN lines = 1..(c - 1)
        /\ \A k \in DOMAIN lines :
              \E lo, hi \in 0..(Len(s) + 1) :
                 /\ lo < hi /\ lines[k] = SubSeq(s, lo + 1, hi - 1)
                 /\ \A i \in 1..Len(s) : lo < i /\ i < hi => s[i] # sep
    <2>1. /\ c \in Nat /\ DOMAIN Split(s, sep) = 1..(c - 1)
          /\ \A k \in DOMAIN Split(s, sep) :
                \E lo, hi \in 0..(Len(s) + 1) :
                   /\ lo < hi /\ Split(s, sep)[k] = SubSeq(s, lo + 1, hi - 1)
                   /\ \A i \in 1..Len(s) : lo < i /\ i < hi => s[i] # sep
                   /\ lo = 0 \/ s[lo] = sep
      BY SplitAt, SMTT(60)
    <2> HIDE DEF c
    <2>2. ASSUME NEW k \in DOMAIN lines
          PROVE  \E lo, hi \in 0..(Len(s) + 1) :
                   /\ lo < hi /\ lines[k] = SubSeq(s, lo + 1, hi - 1)
                   /\ \A i \in 1..Len(s) : lo < i /\ i < hi => s[i] # sep
      <3>1. PICK lo \in 0..(Len(s) + 1), hi \in 0..(Len(s) + 1) :
                   /\ lo < hi /\ Split(s, sep)[k] = SubSeq(s, lo + 1, hi - 1)
                   /\ \A i \in 1..Len(s) : lo < i /\ i < hi => s[i] # sep
        <4>1. k \in DOMAIN Split(s, sep)
          BY ONLY <1>1, k \in DOMAIN lines
        <4> QED
          BY ONLY <2>1, <4>1
      <3> QED
        BY <1>1, <3>1
    <2> QED
      BY <1>1, <2>1, <2>2
  <1>4. ASSUME NEW k \in DOMAIN lines PROVE TaskOf(lines[k]) \in NoteTask
    <2>1. PICK lo \in 0..(Len(s) + 1), hi \in 0..(Len(s) + 1) :
                 /\ lo < hi /\ lines[k] = SubSeq(s, lo + 1, hi - 1)
                 /\ \A i \in 1..Len(s) : lo < i /\ i < hi => s[i] # sep
      BY <1>2
    <2> DEFINE line == lines[k]
               n == (hi - 1) - (lo + 1) + 1
    <2>2. /\ line \in Seq(Token)
          /\ Len(line) = IF lo + 1 <= hi - 1 THEN n ELSE 0
          /\ \A i \in 1..n : line[i] = s[(lo + 1) + i - 1]
      <3>1. lo + 1 \in Int /\ hi - 1 \in Int /\ \A i \in (lo + 1)..(hi - 1) : s[i] \in Token
        BY <1>0
      <3> QED
        BY <2>1, <3>1, SubSeqProperties
    <2>3. line # <<>>
      <3>1. \E b \in Boxes : Contains(line, b)
        BY DEF Unreadable, lines
      <3>2. Len(line) # 0
        BY <3>1 DEF Contains
      <3> QED
        BY <3>2
    <2>4. /\ Len(line) = n /\ n \in Nat \ {0}
          /\ \A i \in 1..n : line[i] = s[lo + i] /\ lo + i \in 1..Len(s) /\ lo < lo + i /\ lo + i < hi
      <3>1. Len(line) # 0
        BY <2>2, <2>3, EmptySeq
      <3>2. Len(line) = n /\ n \in Nat \ {0}
        BY <1>0, <2>2, <3>1
      <3>3. \A i \in 1..n : (lo + 1) + i - 1 = lo + i /\ lo + i \in 1..Len(s) /\ lo < lo + i /\ lo + i < hi
        BY <1>0, <3>2
      <3> QED
        BY <2>2, <3>2, <3>3
    <2> HIDE DEF line, n
    <2>5. /\ Tail(line) \in Seq(Token)
          /\ Len(Tail(line)) = n - 1
          /\ \A i \in 1..Len(Tail(line)) : Tail(line)[i] = line[i + 1]
      BY <2>2, <2>3, <2>4, HeadTailProperties
    <2>6. ASSUME NEW i \in 1..Len(Tail(line)) PROVE Tail(line)[i] \in Letters
      <3>1. i \in 1..n /\ i + 1 \in 1..n /\ lo + (i + 1) # 1 /\ (lo + (i + 1)) - 1 = lo + i
        BY <2>4, <2>5
      <3>2. s[lo + i] # "NL" /\ s[lo + (i + 1)] # "NL"
        BY <1>3, <2>1, <2>4, <3>1
      <3>3. s[lo + (i + 1)] \notin Boxes
        BY <2>4, <3>1, <3>2 DEF BoxesLead
      <3>4. s[lo + (i + 1)] \in Token
        BY <1>0, <2>4, <3>1
      <3> QED
        BY <2>4, <2>5, <3>1, <3>2, <3>3, <3>4 DEF Token
    <2>7. Tail(line) \in Seq(Letters)
      <3> DEFINE title == Tail(line)
      <3>1. title \in [1..(n - 1) -> Token] /\ n - 1 \in Nat
        BY <2>4, <2>5, LenProperties
      <3>2. \A i \in 1..(n - 1) : title[i] \in Letters
        BY <2>5, <2>6
      <3> HIDE DEF title
      <3>3. title \in [1..(n - 1) -> Letters]
        BY <3>1, <3>2
      <3>4. title \in Seq(Letters)
        BY <3>1, <3>3, SeqDef
      <3> QED
        BY <3>4 DEF title
    <2> QED
      BY <2>7 DEF TaskOf, NoteTask, line
  <1> HIDE DEF c, lines
  <1>5. [k \in DOMAIN lines |-> TaskOf(lines[k])] \in Seq(NoteTask)
    <2>1. CASE c = 0
      <3>1. 1..(c - 1) = 1..0
        BY <2>1
      <3> QED
        BY <1>2, <3>1
    <2>2. CASE c # 0
      <3>1. c - 1 \in Nat
        BY <1>2, <2>2
      <3> QED
        <4> DEFINE ts == [k \in DOMAIN lines |-> TaskOf(lines[k])]
        <4>1. ts \in [1..(c - 1) -> NoteTask]
          BY <1>2, <1>4
        <4> HIDE DEF ts
        <4>2. ts \in Seq(NoteTask)
          BY <3>1, <4>1, SeqDef
        <4> QED
          BY <4>2 DEF ts
    <2> QED
      BY <2>1, <2>2
  <1> QED
    BY <1>5 DEF lines

\* Sorting keeps the tasks and puts the completed ones last.
LEMMA SortedTasks ==
    ASSUME NEW T, NEW ts \in Seq(T), NEW s \in Sorted(ts)
    PROVE  /\ s \in Seq(T) /\ SameTasks(s, ts)
           /\ \A j, k \in DOMAIN s : s[j].completed /\ j < k => s[k].completed
  <1> DEFINE n == Len(ts)
             D == 1..n
  <1>0. n \in Nat /\ DOMAIN ts = D /\ ts \in [D -> T]
    BY LenProperties
  <1>1. PICK p \in Bijection(DOMAIN ts, DOMAIN ts) : s = [k \in DOMAIN ts |-> ts[p[k]]]
    BY DEF Sorted
  <1>2. p \in [D -> D] /\ \A i \in D : \E k \in D : p[k] = i
    BY <1>0, <1>1 DEF Bijection, Injection, Surjection
  <1> HIDE DEF n, D
  <1>3. s \in [D -> T] /\ DOMAIN s = D /\ \A k \in D : s[k] = ts[p[k]]
    BY <1>0, <1>1, <1>2
  <1>4. s \in Seq(T) /\ Len(s) = n
    <2>1. s \in Seq(T)
      BY <1>0, <1>3, SeqDef DEF D
    <2>2. Len(s) \in Nat /\ DOMAIN s = 1..Len(s)
      BY <2>1, LenProperties
    <2>3. 1..Len(s) = 1..n
      BY <1>3, <2>2 DEF D
    <2>4. Len(s) = n
      <3>1. Len(s) > n => Len(s) \in 1..Len(s) /\ Len(s) \notin 1..n
        BY <1>0, <2>2
      <3>2. n > Len(s) => n \in 1..n /\ n \notin 1..Len(s)
        BY <1>0, <2>2
      <3>3. ~(Len(s) > n)
        BY <2>3, <3>1
      <3>4. ~(n > Len(s))
        BY <2>3, <3>2
      <3>5. \A x, y \in Nat : ~(x > y) /\ ~(y > x) => x = y
        OBVIOUS
      <3>6. n \in Nat /\ Len(s) \in Nat
        BY <1>0, <2>2
      <3> QED
        BY ONLY <3>3, <3>4, <3>5, <3>6, Zenon
    <2> QED
      BY <2>1, <2>4
  <1>5. IsFiniteSet(D)
    <2>1. 1 \in Int /\ n \in Int
      BY <1>0
    <2> QED
      BY <2>1, FS_Interval DEF D
  <1>6. p \in Injection(D, D)
    BY <1>0, <1>1 DEF Bijection
  <1>7. ASSUME NEW task
        PROVE  Cardinality({k \in D : s[k] = task}) = Cardinality({k \in D : ts[k] = task})
    <2> DEFINE S == {k \in D : s[k] = task}
               R == {k \in D : ts[k] = task}
               f == [k \in S |-> p[k]]
    <2>1. f \in [S -> R]
      BY <1>2, <1>3
    <2>2. \A i, j \in S : f[i] = f[j] => i = j
      BY <1>6 DEF Injection, IsInjective
    <2>3. \A i \in R : \E k \in S : f[k] = i
      BY <1>2, <1>3
    <2>4. f \in Bijection(S, R)
      BY <2>1, <2>2, <2>3 DEF Bijection, Injection, Surjection, IsInjective
    <2>5. IsFiniteSet(S)
      BY <1>5, FS_Subset
    <2> HIDE DEF f, S, R
    <2>6. Cardinality(S) = Cardinality(R)
      BY <2>4, <2>5, FS_Bijection DEF ExistsBijection
    <2> QED
      BY <2>6 DEF S, R
  <1>8. SameTasks(s, ts)
    BY <1>0, <1>3, <1>4, <1>7 DEF SameTasks, n
  <1>9. \A j, k \in DOMAIN s : s[j].completed /\ j < k => s[k].completed
    BY DEF Sorted
  <1> QED
    BY <1>4, <1>8, <1>9

\* The operations on a list of tasks leave a list of tasks.
LEMMA ChangedTasks ==
    ASSUME TitlesAssumption, NEW ts \in Seq(NoteTask), NEW title \in Titles, NEW c \in BOOLEAN
    PROVE  /\ Added(ts, title) \in Seq(NoteTask)
           /\ SetCompleted(ts, title, c) \in Seq(NoteTask)
           /\ Without(ts, title) \in Seq(NoteTask)
  <1> DEFINE new == [title |-> title, completed |-> FALSE]
             changed == SetCompleted(ts, title, c)
  <1>0. Len(ts) \in Nat /\ DOMAIN ts = 1..Len(ts) /\ \A k \in 1..Len(ts) : ts[k] \in NoteTask
    BY LenProperties, ElementOfSeq
  <1>1. Added(ts, title) \in Seq(NoteTask)
    <2>1. new \in NoteTask
      BY DEF TitlesAssumption, NoteTask
    <2>2. <<new>> \in Seq(NoteTask)
      BY <2>1
    <2> QED
      BY <2>2, ConcatProperties DEF Added
  <1>2. changed \in Seq(NoteTask)
    <2>1. \A k \in 1..Len(ts) : [ts[k] EXCEPT !.completed = c] \in NoteTask
      BY <1>0 DEF NoteTask
    <2>2. changed \in [1..Len(ts) -> NoteTask]
      BY <1>0, <2>1 DEF SetCompleted
    <2> HIDE DEF changed
    <2> QED
      BY <1>0, <2>2, SeqDef
  <1>3. Without(ts, title) \in Seq(NoteTask)
    <2>1. {k \in DOMAIN ts : ts[k].title # title} \in SUBSET DOMAIN ts
      OBVIOUS
    <2> QED
      BY <2>1, AtKeeps DEF Without
  <1> QED
    BY <1>1, <1>2, <1>3

\* The note stays the text of what was saved, whatever happens to the tasks.
LEMMA NoteKept ==
    ASSUME TitlesAssumption, NoteInv, [Next]_toolVars
    PROVE  NoteInv'
  <1> USE DEF NoteInv
  <1>1. CASE TaskNext
    <2>1. ASSUME NEW title \in Titles,
                 AddTask(title) \/ CompleteTask(title) \/ ReopenTask(title) \/ DeleteTask(title)
          PROVE  NoteInv'
      <3>1. tasks' \in Seq(NoteTask)
        BY <2>1, ChangedTasks DEF AddTask, CompleteTask, ReopenTask, DeleteTask
      <3>2. UNCHANGED <<text, saved, read>>
        BY <2>1 DEF AddTask, CompleteTask, ReopenTask, DeleteTask
      <3> QED
        BY <3>1, <3>2
    <2>2. CASE Save
      <3>1. PICK s \in Sorted(tasks) : /\ tasks' = s /\ saved' = s
                                       /\ text' = TasksToNoteText(s) /\ UNCHANGED read
        BY <2>2 DEF Save
      <3>2. s \in Seq(NoteTask)
        BY SortedTasks
      <3> QED
        BY <3>1, <3>2
    <2>3. CASE ToTaskList
      <3>1. UNCHANGED <<text, saved>> /\ read' \in {"none", "list", "missing content", "panic"}
        BY <2>3 DEF ToTaskList
      <3>2. tasks' \in Seq(NoteTask)
        <4>1. CASE UNCHANGED tasks
          BY <4>1
        <4>2. CASE ~Unreadable(text) /\ tasks' \in NoteTextToTasks(text)
          <5> DEFINE ts == [k \in DOMAIN Lines(text) |-> TaskOf(Lines(text)[k])]
          <5>1. text \in Seq(Token) /\ BoxesLead(text)
            BY TextShape
          <5>2. ts \in Seq(NoteTask)
            BY <4>2, <5>1, ReadTasks
          <5>3. tasks' \in Sorted(ts)
            BY <4>2 DEF NoteTextToTasks
          <5> HIDE DEF ts
          <5> QED
            BY <5>2, <5>3, SortedTasks
        <4> QED
          BY <2>3, <4>1, <4>2 DEF ToTaskList
      <3> QED
        BY <3>1, <3>2
    <2> QED
      BY <1>1, <2>1, <2>2, <2>3 DEF TaskNext
  <1>2. CASE GroupNext
    <2>1. UNCHANGED <<tasks, text, saved, read>>
      BY <1>2 DEF GroupNext, AddGroup, DeleteGroup, AddGroupTask, CompleteGroupTask,
                  ReopenGroupTask, DeleteGroupTask
    <2> QED
      BY <2>1
  <1>3. CASE UNCHANGED checklistVars
    BY <1>3 DEF checklistVars
  <1> QED
    BY <1>1, <1>2, <1>3 DEF Next, toolVars

LEMMA NoteStarts == ASSUME TitlesAssumption, Init PROVE NoteInv
  <1>1. ChecklistInit
    BY DEF Init
  <1>2. <<>> \in Seq(NoteTask) /\ Len(<<>>) = 0
    BY EmptySeq
  <1>3. TasksToNoteText(<<>>) = <<>>
    BY <1>2, WrittenSteps DEF TasksToNoteText
  <1> QED
    BY <1>1, <1>2, <1>3 DEF ChecklistInit, NoteInv

\* A text is split between its tasks and nowhere else, if their titles are plain.
LEMMA BreaksOfText ==
    ASSUME TitlesAssumption, NEW ts \in Seq(NoteTask), ts # <<>>, Plain(ts)
    PROVE  LET s == TasksToNoteText(ts)
               at == [k \in 0..Len(ts) |-> IF k = Len(ts) THEN Len(s) + 1 ELSE Len(Written(ts)[k])]
           IN  \E sep : /\ Lines(s) = Split(s, sep)
                        /\ Breaks(s, sep) = {at[k] : k \in 0..Len(ts)}
  <1> DEFINE w == Written(ts)
             L == Len(ts)
             s == TasksToNoteText(ts)
             e(n) == Len(w[n])
             l(n) == Len(Line(ts, n))
             at == [k \in 0..L |-> IF k = L THEN Len(s) + 1 ELSE e(k)]
             sep == IF L = 1 THEN "bn" ELSE "NL"
  <1>0. L \in Nat \ {0} /\ DOMAIN ts = 1..L
    BY LenProperties, EmptySeq
  <1>1. /\ \A n \in 0..L : w[n] \in Seq(Token) /\ e(n) \in Nat
        /\ e(0) = 0
        /\ \A n \in 1..L : l(n) \in Nat \ {0} /\ e(n) = e(n - 1) + l(n)
        /\ \A j, k \in 0..L : j < k => e(j) < e(k)
    BY WrittenGrows
  <1>2. s = w[L] /\ s \in Seq(Token) /\ Len(s) = e(L) /\ Len(s) \in Nat /\ DOMAIN s = 1..Len(s)
    <2>1. L \in 0..L /\ s = w[L]
      BY <1>0 DEF TasksToNoteText
    <2>2. s \in Seq(Token)
      BY <1>1, <2>1
    <2> QED
      BY <2>1, <2>2, LenProperties
  <1>3. /\ \A m \in 1..L, j \in Nat \ {0} : j <= l(m) => s[e(m - 1) + j] = Line(ts, m)[j]
        /\ \A i \in 1..Len(s) : \E m \in 1..L, j \in Nat \ {0} : j <= l(m) /\ i = e(m - 1) + j
    <2>1. L \in 0..L
      BY <1>0
    <2>2. /\ \A m \in 1..L, j \in Nat \ {0} : j <= l(m) => w[L][e(m - 1) + j] = Line(ts, m)[j]
          /\ \A i \in 1..Len(w[L]) : \E m \in 1..L, j \in Nat \ {0} : j <= l(m) /\ i = e(m - 1) + j
      BY <2>1, TextIsLines
    <2> HIDE DEF w, L, s
    <2> QED
      BY <1>2, <2>2
  <1>4. ASSUME NEW m \in 1..L
        PROVE  /\ ts[m].title \in Seq(Letters) /\ Len(ts[m].title) \in Nat
               /\ l(m) = Len(ts[m].title) + IF m = L THEN 1 ELSE 2
               /\ Line(ts, m)[1] = Box(ts[m])
               /\ \A k \in 1..Len(ts[m].title) : Line(ts, m)[k + 1] = ts[m].title[k]
               /\ m # L => Line(ts, m)[l(m)] = "NL"
    BY LineOfTask
  <1>5. ASSUME NEW m \in 1..L, NEW k \in 1..Len(ts[m].title)
        PROVE  ts[m].title[k] # "NL" /\ (L = 1 => ts[m].title[k] # "bn")
    BY <1>0 DEF Plain, Contains
  <1> HIDE DEF w, L, s, at
  \* newlines are after every task but the last, and there is no \n in the text of one
  <1>6. ASSUME NEW i \in 1..Len(s), s[i] = "NL" \/ (L = 1 /\ s[i] = "bn")
        PROVE  \E m \in 1..(L - 1) : i = e(m)
    <2>1. PICK m \in 1..L, j \in Nat \ {0} : j <= l(m) /\ i = e(m - 1) + j
      BY <1>3
    <2>2. s[i] = Line(ts, m)[j]
      BY <1>3, <2>1
    <2>3. j # 1
      BY <1>4, <1>6, <2>2 DEF Box
    <2>4. j - 1 \notin 1..Len(ts[m].title)
      <3> SUFFICES ASSUME j - 1 \in 1..Len(ts[m].title) PROVE FALSE
        OBVIOUS
      <3>1. Line(ts, m)[(j - 1) + 1] = ts[m].title[j - 1]
        BY <1>4
      <3>2. (j - 1) + 1 = j
        BY <2>1
      <3> QED
        BY <1>5, <1>6, <2>2, <3>1, <3>2
    <2>5. j - 1 \in Nat \ {0} /\ Len(ts[m].title) \in Nat /\ j - 1 > Len(ts[m].title)
      BY <1>4, <2>1, <2>3, <2>4
    <2>6. m # L
      <3> SUFFICES ASSUME m = L PROVE FALSE
        OBVIOUS
      <3>1. l(m) = Len(ts[m].title) + 1
        BY <1>4
      <3> QED
        BY <2>1, <2>5, <3>1
    <2>7. l(m) = Len(ts[m].title) + 2
      BY <1>4, <2>6
    <2>8. j = l(m)
      BY <2>1, <2>5, <2>7
    <2>9. i = e(m) /\ m \in 1..(L - 1)
      BY <1>0, <1>1, <2>1, <2>6, <2>8
    <2> QED
      BY <2>9
  <1>7. ASSUME NEW m \in 1..(L - 1)
        PROVE  e(m) \in 1..Len(s) /\ s[e(m)] = "NL"
    <2>1. m \in 1..L /\ m # L /\ m \in 0..L /\ L \in 0..L /\ m < L /\ m - 1 \in 0..L
      BY <1>0
    <2>2. l(m) \in Nat \ {0} /\ e(m) = e(m - 1) + l(m) /\ e(m) < e(L) /\ e(m - 1) \in Nat /\ e(m) \in Nat
      BY <1>1, <2>1
    <2>3. s[e(m - 1) + l(m)] = Line(ts, m)[l(m)]
      <3>1. l(m) <= l(m)
        BY <2>2
      <3> QED
        BY <1>3, <2>1, <2>2, <3>1
    <2>4. Line(ts, m)[l(m)] = "NL"
      BY <1>4, <2>1
    <2>5. e(m) \in 1..Len(s)
      BY <1>2, <2>2
    <2> QED
      BY <2>2, <2>3, <2>4, <2>5
  <1>8. Lines(s) = Split(s, sep)
    <2>1. CASE L = 1
      <3>1. 1..(L - 1) = {}
        BY <2>1
      <3>2. ~Contains(s, "NL")
        BY <1>6, <3>1 DEF Contains
      <3> QED
        BY <2>1, <3>2 DEF Lines
    <2>2. CASE L # 1
      <3>1. 1 \in 1..(L - 1)
        BY <1>0, <2>2
      <3>2. Contains(s, "NL")
        BY <1>7, <3>1 DEF Contains
      <3> QED
        BY <2>2, <3>2 DEF Lines
    <2> QED
      BY <2>1, <2>2
  <1>9. Breaks(s, sep) = {at[k] : k \in 0..L}
    <2>1. Breaks(s, sep) = {i \in 1..Len(s) : s[i] = sep} \cup {0, Len(s) + 1}
      BY <1>2 DEF Breaks
    <2>2. \A k \in 0..L : at[k] = IF k = L THEN Len(s) + 1 ELSE e(k)
      BY DEF at
    <2>3. ASSUME NEW k \in 0..L PROVE at[k] \in Breaks(s, sep)
      <3>1. CASE k = L
        BY <2>1, <2>2, <3>1
      <3>2. CASE k = 0
        <4>1. k # L
          BY <1>0, <3>2
        <4> QED
          BY <1>1, <2>1, <2>2, <3>2, <4>1
      <3>3. CASE k # L /\ k # 0
        <4>1. k \in 1..(L - 1) /\ L # 1
          BY <1>0, <3>3
        <4>2. at[k] = e(k) /\ e(k) \in 1..Len(s) /\ s[e(k)] = sep
          BY <1>7, <2>2, <3>3, <4>1
        <4> QED
          BY <2>1, <4>2
      <3> QED
        BY <3>1, <3>2, <3>3
    <2>4. ASSUME NEW i \in Breaks(s, sep) PROVE \E k \in 0..L : at[k] = i
      <3>1. CASE i = 0
        <4>1. 0 \in 0..L /\ 0 # L
          BY <1>0
        <4> QED
          BY <1>1, <2>2, <3>1, <4>1
      <3>2. CASE i = Len(s) + 1
        <4>1. L \in 0..L
          BY <1>0
        <4> QED
          BY <2>2, <3>2, <4>1
      <3>3. CASE i \in 1..Len(s) /\ s[i] = sep
        <4>1. s[i] = "NL" \/ (L = 1 /\ s[i] = "bn")
          BY <3>3
        <4>2. PICK m \in 1..(L - 1) : i = e(m)
          BY <1>6, <3>3, <4>1
        <4>3. m \in 0..L /\ m # L
          BY <1>0
        <4> QED
          BY <2>2, <4>2, <4>3
      <3> QED
        BY <2>1, <3>1, <3>2, <3>3
    <2> QED
      BY <2>3, <2>4
  <1> HIDE DEF sep
  <1> QED
    BY <1>8, <1>9 DEF w, L, s, at

\* What is written for a list of tasks is read line by line as the same tasks.
LEMMA PlainTextReadsBack ==
    ASSUME TitlesAssumption, NEW ts \in Seq(NoteTask), ts # <<>>, Plain(ts)
    PROVE  LET s == TasksToNoteText(ts)
           IN  /\ ~Unreadable(s)
               /\ [k \in DOMAIN Lines(s) |-> TaskOf(Lines(s)[k])] = ts
  <1> DEFINE w == Written(ts)
             L == Len(ts)
             s == TasksToNoteText(ts)
             e(n) == Len(w[n])
             l(n) == Len(Line(ts, n))
             at == [k \in 0..L |-> IF k = L THEN Len(s) + 1 ELSE e(k)]
  <1>0. L \in Nat \ {0} /\ DOMAIN ts = 1..L /\ \A k \in 1..L : ts[k] \in NoteTask
    BY LenProperties, EmptySeq, ElementOfSeq
  <1>1. /\ \A n \in 0..L : e(n) \in Nat
        /\ \A n \in 1..L : l(n) \in Nat \ {0} /\ e(n) = e(n - 1) + l(n)
        /\ \A j, k \in 0..L : j < k => e(j) < e(k)
    BY WrittenGrows
  <1>2. Len(s) = e(L) /\ Len(s) \in Nat /\ L \in 0..L
    <2>1. L \in 0..L /\ s = w[L]
      BY <1>0 DEF TasksToNoteText
    <2> QED
      BY <1>1, <2>1
  <1>3. \A m \in 1..L, j \in Nat \ {0} : j <= l(m) => s[e(m - 1) + j] = Line(ts, m)[j]
    <2>1. \A m \in 1..L, j \in Nat \ {0} : j <= l(m) => w[L][e(m - 1) + j] = Line(ts, m)[j]
      BY <1>2, TextIsLines
    <2>2. s = w[L]
      BY DEF TasksToNoteText
    <2> HIDE DEF w, L, s
    <2> QED
      BY <2>1, <2>2
  <1>4. PICK sep : Lines(s) = Split(s, sep) /\ Breaks(s, sep) = {at[k] : k \in 0..L}
    BY BreaksOfText
  <1>5. s \in Seq(Token)
    BY TextShape
  <1> HIDE DEF w, L, s
  <1>6. /\ at \in [0..L -> Nat]
        /\ \A j, k \in 0..L : j < k => at[j] < at[k]
    <2>1. \A k \in 0..L : at[k] \in Nat
      BY <1>1, <1>2
    <2>2. ASSUME NEW j \in 0..L, NEW k \in 0..L, j < k PROVE at[j] < at[k]
      <3>1. j # L /\ at[j] = e(j) /\ e(j) < e(k) /\ e(j) \in Nat /\ e(k) \in Nat
        BY <1>0, <1>1, <2>2
      <3>2. CASE k = L
        BY <1>2, <3>1, <3>2
      <3>3. CASE k # L
        BY <3>1, <3>3
      <3> QED
        BY <3>2, <3>3
    <2> QED
      BY <2>1, <2>2
  <1> HIDE DEF at
  <1>7. /\ Cardinality(Breaks(s, sep)) = L + 1
        /\ \A k \in 1..(L + 1) : Nth(Breaks(s, sep), k) = at[k - 1]
    BY <1>0, <1>4, <1>6, NthIs
  <1>8. /\ DOMAIN Lines(s) = 1..L
        /\ \A k \in 1..L : Lines(s)[k] = SubSeq(s, at[k - 1] + 1, at[k] - 1)
    <2>1. L + 1 - 1 = L
      BY <1>0
    <2>2. Lines(s) = [k \in 1..L |-> SubSeq(s, Nth(Breaks(s, sep), k) + 1, Nth(Breaks(s, sep), k + 1) - 1)]
      <3> DEFINE B == Breaks(s, sep)
      <3>1. Split(s, sep) = [k \in 1..(Cardinality(B) - 1) |-> SubSeq(s, Nth(B, k) + 1, Nth(B, k + 1) - 1)]
        BY DEF Split
      <3>2. Cardinality(B) - 1 = L
        BY <1>0, <1>7, <2>1
      <3> HIDE DEF B
      <3>3. Split(s, sep) = [k \in 1..L |-> SubSeq(s, Nth(B, k) + 1, Nth(B, k + 1) - 1)]
        BY <3>1, <3>2
      <3> QED
        BY <1>4, <3>3 DEF B
    <2>3. ASSUME NEW k \in 1..L
          PROVE  Nth(Breaks(s, sep), k) = at[k - 1] /\ Nth(Breaks(s, sep), k + 1) = at[k]
      <3>1. k \in 1..(L + 1) /\ k + 1 \in 1..(L + 1) /\ (k + 1) - 1 = k
        BY <1>0
      <3> QED
        BY <1>7, <3>1
    <2> QED
      BY <2>2, <2>3
  <1>9. ASSUME NEW k \in 1..L
        PROVE  TaskOf(Lines(s)[k]) = ts[k] /\ \E b \in Boxes : Contains(Lines(s)[k], b)
    <2> DEFINE title == ts[k].title
               t == Len(title)
               line == Lines(s)[k]
    <2>1. /\ title \in Seq(Letters) /\ t \in Nat
          /\ l(k) = t + IF k = L THEN 1 ELSE 2
          /\ Line(ts, k)[1] = Box(ts[k])
          /\ \A i \in 1..t : Line(ts, k)[i + 1] = title[i]
      BY LineOfTask DEF L
    <2>0. t \in Nat /\ (k = L => l(k) = t + 1) /\ (k # L => l(k) = t + 2)
      BY <2>1
    <2> HIDE DEF t
    <2>2. k - 1 \in 0..L /\ k - 1 # L /\ k \in 0..L
      BY <1>0
    <2>3. at[k - 1] = e(k - 1) /\ e(k - 1) \in Nat /\ e(k) = e(k - 1) + l(k) /\ l(k) \in Nat
      BY <1>1, <2>2 DEF at
    <2>4. at[k] - 1 = e(k - 1) + t + 1
      <3>0. /\ \A a, x \in Nat : ((a + (x + 1)) + 1) - 1 = a + x + 1
            /\ \A a, x \in Nat : (a + (x + 2)) - 1 = a + x + 1
        OBVIOUS
      <3>1. CASE k = L
        <4>1. at[k] = Len(s) + 1 /\ Len(s) = e(k) /\ l(k) = t + 1
          BY <1>2, <2>0, <2>2, <3>1 DEF at
        <4>2. at[k] = (e(k - 1) + (t + 1)) + 1
          BY <2>3, <4>1
        <4>3. ((e(k - 1) + (t + 1)) + 1) - 1 = e(k - 1) + t + 1
          BY ONLY <2>0, <2>3, <3>0
        <4> QED
          BY ONLY <4>2, <4>3
      <3>2. CASE k # L
        <4>1. at[k] = e(k) /\ l(k) = t + 2
          BY <2>0, <2>2, <3>2 DEF at
        <4>2. at[k] = e(k - 1) + (t + 2)
          BY <2>3, <4>1
        <4>3. (e(k - 1) + (t + 2)) - 1 = e(k - 1) + t + 1
          BY ONLY <2>0, <2>3, <3>0
        <4> QED
          BY ONLY <4>2, <4>3
      <3> QED
        BY <3>1, <3>2
    <2>5. line = SubSeq(s, e(k - 1) + 1, e(k - 1) + t + 1)
      BY <1>8, <2>3, <2>4
    <2>6. t + 1 <= l(k)
      <3>1. l(k) = t + 1 \/ l(k) = t + 2
        BY <2>1
      <3> QED
        BY <2>1, <2>3, <3>1
    <2>7. \A i \in 1..(t + 1) : s[e(k - 1) + i] = Line(ts, k)[i]
      <3> SUFFICES ASSUME NEW i \in 1..(t + 1) PROVE s[e(k - 1) + i] = Line(ts, k)[i]
        OBVIOUS
      <3>1. i \in Nat \ {0} /\ i <= l(k)
        BY <2>1, <2>3, <2>6
      <3> QED
        BY <1>3, <3>1
    <2>8. /\ line \in Seq(Token) /\ Len(line) = t + 1
          /\ \A i \in 1..(t + 1) : line[i] = Line(ts, k)[i]
      <3> DEFINE a == e(k - 1)
                 b == a + t + 1
      <3> HIDE DEF title
      <3>1. a \in Nat /\ a + 1 \in Int /\ b \in Int /\ a + 1 <= b /\ b - (a + 1) + 1 = t + 1
        <4>1. \A y, x \in Nat : /\ y + 1 \in Int /\ y + x + 1 \in Int
                               /\ y + 1 <= y + x + 1 /\ (y + x + 1) - (y + 1) + 1 = x + 1
          OBVIOUS
        <4> QED
          BY <2>0, <2>3, <4>1
      <3>2. \A i \in (a + 1)..b : s[i] \in Token
        <4> SUFFICES ASSUME NEW i \in (a + 1)..b PROVE s[i] \in Token
          OBVIOUS
        <4>1. i \in 1..Len(s)
          <5>0. e(k) \in Nat /\ e(L) \in Nat
            BY <1>1, <1>2, <2>2
          <5>1. b <= e(k)
            BY <2>0, <2>3
          <5>2. e(k) <= e(L)
            <6>1. k < L \/ k = L
              BY <1>0
            <6>2. CASE k < L
              <7>1. e(k) < e(L)
                BY <1>1, <1>2, <2>2, <6>2
              <7> QED
                BY ONLY <5>0, <7>1
            <6>3. CASE k = L
              BY ONLY <5>0, <6>3
            <6> QED
              BY <6>1, <6>2, <6>3
          <5>3. b <= Len(s)
            <6>1. Len(s) = e(L) /\ b \in Int
              BY <1>2, <3>1
            <6> QED
              BY ONLY <5>0, <5>1, <5>2, <6>1
          <5> QED
            BY ONLY i \in (a + 1)..b, <1>2, <3>1, <5>3
        <4> QED
          BY <1>5, <4>1, ElementOfSeq
      <3>3. /\ SubSeq(s, a + 1, b) \in Seq(Token)
            /\ Len(SubSeq(s, a + 1, b)) = IF a + 1 <= b THEN b - (a + 1) + 1 ELSE 0
            /\ \A i \in 1..(b - (a + 1) + 1) : SubSeq(s, a + 1, b)[i] = s[(a + 1) + i - 1]
        BY <3>1, <3>2, SubSeqProperties
      <3>4. \A i \in 1..(t + 1) : (a + 1) + i - 1 = a + i
        BY <3>1
      <3> HIDE DEF line
      <3>5. line \in Seq(Token) /\ Len(line) = t + 1
        BY <2>5, <3>1, <3>3
      <3>6. \A i \in 1..(t + 1) : line[i] = s[a + i]
        BY <2>5, <3>1, <3>3, <3>4
      <3> QED
        BY <2>7, <3>5, <3>6
    <2> HIDE DEF line
    <2>9. /\ Head(line) = line[1] /\ line[1] = Box(ts[k]) /\ 1 \in 1..Len(line)
          /\ Tail(line) \in Seq(Token) /\ Len(Tail(line)) = t
          /\ \A i \in 1..t : Tail(line)[i] = line[i + 1]
      <3>1. line # <<>> /\ Head(line) = line[1] /\ 1 \in 1..(t + 1)
        <4>1. Len(line) # 0
          BY <2>1, <2>8
        <4>2. line # <<>>
          BY <4>1, EmptySeq
        <4> QED
          BY <2>1, <2>8, <4>2
      <3>2. /\ Tail(line) \in Seq(Token) /\ Len(Tail(line)) = Len(line) - 1
            /\ \A i \in 1..Len(Tail(line)) : Tail(line)[i] = line[i + 1]
        BY <2>8, <3>1, HeadTailProperties
      <3>3. Len(line) - 1 = t
        BY <2>1, <2>8
      <3> QED
        BY <2>1, <2>8, <3>1, <3>2, <3>3
    <2>10. Tail(line) = title
      <3>1. title \in Seq(Token)
        BY <2>1, SeqMonotonic DEF Token
      <3>2. \A i \in 1..t : Tail(line)[i] = title[i]
        <4> SUFFICES ASSUME NEW i \in 1..t PROVE Tail(line)[i] = title[i]
          OBVIOUS
        <4>1. i + 1 \in 1..(t + 1)
          BY <2>1
        <4> QED
          BY <2>1, <2>8, <2>9, <4>1
      <3>3. Len(Tail(line)) = Len(title)
        BY <2>9 DEF t
      <3> HIDE DEF title
      <3> QED
        BY <2>9, <3>1, <3>2, <3>3, SeqEqual
    <2>11. TaskOf(line) = ts[k]
      <3>1. ts[k] \in NoteTask
        BY <1>0
      <3>2. (Head(line) = "done") = ts[k].completed
        BY <2>9, <3>1 DEF Box, NoteTask
      <3> QED
        BY <2>10, <3>1, <3>2 DEF TaskOf, NoteTask
    <2>12. \E b \in Boxes : Contains(line, b)
      <3>1. Box(ts[k]) \in Boxes
        BY DEF Box, Boxes
      <3> QED
        BY <2>9, <3>1 DEF Contains
    <2> QED
      BY <2>11, <2>12 DEF line
  <1>10. ~Unreadable(s)
    BY <1>8, <1>9 DEF Unreadable
  <1>11. [k \in DOMAIN Lines(s) |-> TaskOf(Lines(s)[k])] = ts
    <2>1. ts = [k \in 1..L |-> ts[k]]
      BY <1>0, LenProperties DEF L
    <2> QED
      BY <1>8, <1>9, <2>1
  <1> QED
    BY <1>10, <1>11 DEF s

\* The tasks in memory, the tasks written last and the text of the note have their
\* types, and the text is what was written: whatever is read from it, the list keeps
\* being one of tasks (src/items/checklist.go:58-120).
THEOREM NotesHoldTasks == ASSUME TitlesAssumption PROVE Spec => []NoteInv
  <1>1. Init => NoteInv
    BY NoteStarts
  <1>2. NoteInv /\ [Next]_toolVars => NoteInv'
    BY NoteKept
  <1> QED
    BY <1>1, <1>2, PTL DEF Spec

\* What is written into a note is read back: the same tasks, the completed ones
\* last, for lists and titles of any length (src/items/checklist.go:51 and 93).
THEOREM WhatIsSavedReadsBack == ASSUME TitlesAssumption PROVE Spec => []SavedTextReadsBack
  <1>1. NoteInv => SavedTextReadsBack
    <2> SUFFICES ASSUME NoteInv, text # <<>>, Plain(saved)
                 PROVE  /\ ~Unreadable(text)
                        /\ \A ts \in NoteTextToTasks(text) :
                              /\ SameTasks(ts, saved)
                              /\ \A j, k \in DOMAIN ts : ts[j].completed /\ j < k => ts[k].completed
      BY DEF SavedTextReadsBack
    <2>1. saved \in Seq(NoteTask) /\ text = TasksToNoteText(saved)
      BY DEF NoteInv
    <2>2. saved # <<>>
      <3> SUFFICES ASSUME saved = <<>> PROVE FALSE
        OBVIOUS
      <3>1. Len(saved) = 0
        BY EmptySeq
      <3> QED
        BY <2>1, <3>1, WrittenSteps DEF TasksToNoteText
    <2>3. /\ ~Unreadable(text)
          /\ [k \in DOMAIN Lines(text) |-> TaskOf(Lines(text)[k])] = saved
      BY <2>1, <2>2, PlainTextReadsBack
    <2>4. NoteTextToTasks(text) = Sorted(saved)
      BY <2>3 DEF NoteTextToTasks
    <2> QED
      BY <2>1, <2>3, <2>4, SortedTasks
  <1> QED
    BY <1>1, NotesHoldTasks, PTL

---------------------------------------------------------------------------
(* ItemLists: the lists of items.                                          *)

\* Some elements of a list of items are a list of items.
LEMMA SomeOfList ==
    ASSUME NEW list, IsItemList(list), NEW S \in SUBSET DOMAIN list
    PROVE  IsItemList(At(list, S)) /\ ElementsOf(At(list, S)) = {list[k] : k \in S}
  <1>1. list \in Seq(ElementsOf(list))
    BY DEF IsItemList
  <1>2. /\ At(list, S) \in Seq(ElementsOf(list))
        /\ ElementsOf(At(list, S)) = {list[k] : k \in S}
    BY <1>1, AtKeeps
  <1>3. At(list, S) \in Seq(ElementsOf(At(list, S)))
    BY <1>2, ListOfElements
  <1>4. {list[k] : k \in S} \subseteq ElementsOf(list)
    BY DEF ElementsOf
  <1>5. QED
    BY <1>2, <1>3, <1>4 DEF IsItemList

\* Every operation on a list of items leaves a list of items.
LEMMA ListsKept ==
    ASSUME ItemsInv, [Next]_toolVars
    PROVE  ItemsInv'
  <1> USE DEF ItemsInv
  <1>1. Len(items) \in Nat /\ DOMAIN items = 1..Len(items)
    BY LenProperties DEF IsItemList
  <1>2. ASSUME NEW ask, Filter(ask) \/ FilterAllTypes(ask)
        PROVE  IsItemList(items')
    <2>1. CASE Filter(ask)
      <3> DEFINE S == {i \in DOMAIN items : Found(Outcomes(ask, items[i], TagsOf(items)))}
      <3>1. items' = At(items, S) /\ S \in SUBSET DOMAIN items
        BY <2>1 DEF Filter, Kept
      <3>2. QED
        BY <3>1, SomeOfList
    <2>2. CASE FilterAllTypes(ask)
      <3> DEFINE outcomes(i) == [k \in DOMAIN ask.filters |->
                                   applyAnyTypeFilter(ask.filters[k], items[i], ask.any)]
                 S == {i \in DOMAIN items : Found(outcomes(i))}
      <3>1. items' = At(items, S) /\ S \in SUBSET DOMAIN items
        BY <2>2 DEF FilterAllTypes, KeptOfAllTypes
      <3> HIDE DEF S
      <3>2. QED
        BY <3>1, SomeOfList
    <2>3. QED
      BY <1>2, <2>1, <2>2
  <1>3. CASE DeDupe
    BY <1>3, SomeOfList DEF DeDupe
  <1>4. CASE RemoveDeleted
    BY <1>4, SomeOfList DEF RemoveDeleted
  <1>5. ASSUME NEW referring, NEW to, UpdateItemRefs(referring, to)
        PROVE  IsItemList(items')
    <2>1. \A k \in DOMAIN items : IsListItem(items[k])
      BY DEF IsItemList, ElementsOf
    <2>2. ASSUME NEW i, IsListItem(i)
          PROVE  IsListItem([i EXCEPT !.refs = @ \cup to])
      BY <2>2 DEF IsListItem
    <2>3. DOMAIN items' = DOMAIN items /\ \A k \in DOMAIN items' : IsListItem(items'[k])
      BY <1>5, <2>1, <2>2 DEF UpdateItemRefs
    <2>4. items' = [k \in 1..Len(items) |-> items'[k]]
      BY <1>1, <1>5 DEF UpdateItemRefs
    <2>5. \A k \in 1..Len(items) : items'[k] \in ElementsOf(items')
      BY <1>1, <2>3 DEF ElementsOf
    <2>6. items' \in Seq(ElementsOf(items'))
      <3> DEFINE T == ElementsOf(items')
                 new == [k \in 1..Len(items) |-> items'[k]]
      <3>1. \A k \in 1..Len(items) : items'[k] \in T
        BY <2>5
      <3> HIDE DEF T
      <3>2. new \in Seq(T)
        BY <1>1, <3>1, IsASeq
      <3>3. QED
        BY <2>4, <3>2 DEF T
    <2>7. QED
      BY <2>3, <2>6 DEF IsItemList, ElementsOf
  <1>6. CASE ListNext
    BY <1>2, <1>3, <1>4, <1>5, <1>6 DEF ListNext
  <1>7. CASE UNCHANGED items
    BY <1>7
  <1>8. QED
    BY <1>6, <1>7 DEF Next, toolVars, listVars

---------------------------------------------------------------------------
(* ItemLists: the filters.                                                 *)

\* A filter that is about notes has the outcome it says for a note, in the
\* regular cases.
LEMMA NoteOutcome ==
    ASSUME NEW f, NEW item, IsListItem(item), item.type = "Note", NEW T, NEW tags \in Seq(T),
           NEW any \in BOOLEAN, Regular(f, item, tags, any), Applies(f, item)
    PROVE  /\ Says(f, item, tags) => Outcome(f, item, tags, any) = IF any THEN "yes" ELSE "matched"
           /\ ~Says(f, item, tags) => Outcome(f, item, tags, any) = IF any THEN "unmatched" ELSE "no"
  <1>1. Outcome(f, item, tags, any) = applyNoteFilter(f, item, tags, any) /\ f.type \in {"Note", "Item"}
    BY DEF Outcome, Applies
  <1>2. CASE f.key = "title"
    BY <1>1, <1>2 DEF applyNoteFilter, applyNoteTitleFilter, NoteTextOf, Decide, Regular, Says, FieldOf
  <1>3. CASE f.key = "text"
    BY <1>1, <1>3 DEF applyNoteFilter, applyNoteTextFilter, NoteTextOf, Decide, Regular, Says, FieldOf
  <1>4. CASE f.key = "editor"
    BY <1>1, <1>4 DEF applyNoteFilter, applyNoteEditorFilter, NoteTextOf, Decide, Regular, Says, FieldOf
  <1>5. CASE f.key = "trash"
    <2>1. item.trashed \in BOOLEAN
      BY DEF IsListItem
    <2>2. f.comparison \in {"==", "!="}
      BY <1>1, <1>5 DEF Regular
    <2>3. QED
      BY <1>1, <1>5, <2>1, <2>2 DEF applyNoteFilter, applyNoteTrashedFilter, Decide, Says
  <1>6. CASE f.key = "tagtitle"
    <2> DEFINE titled == {k \in DOMAIN tags : tags[k].title # {}}
               hit == {k \in titled : Compare(f, tags[k].title) /\ item.uuid \in tags[k].refs}
    <2>1. any /\ Usable(f) /\ f.comparison \in {"~", "=="} /\ f.value # {}
      BY <1>1, <1>6 DEF Regular
    <2>2. Outcome(f, item, tags, any) = IF hit # {} THEN "yes" ELSE "unmatched"
      BY <1>1, <1>6, <2>1 DEF applyNoteFilter, applyNoteTagTitleFilter
    <2>3. \A t : Compare(f, t) => t # {}
      BY <2>1 DEF Compare
    <2>4. Says(f, item, tags) <=> hit # {}
      BY <1>6, <2>3 DEF Says, ElementsOf
    <2>5. QED
      BY <2>1, <2>2, <2>4
  <1>7. CASE f.key = "taguuid"
    <2> DEFINE found == {k \in DOMAIN tags : tags[k].uuid = f.value}
               tagged == \E k \in found : item.uuid \in tags[k].refs /\ \A j \in found : k <= j
    <2>1. f.comparison = "==" /\ \A s, t \in ElementsOf(tags) : s.uuid = f.value /\ t.uuid = f.value => s = t
      BY <1>1, <1>7 DEF Regular
    <2>2. Outcome(f, item, tags, any) = Decide(tagged, any)
      BY <1>1, <1>7, <2>1 DEF applyNoteFilter, applyNoteTagUUIDFilter
    <2>3. Says(f, item, tags) <=> \E k \in found : item.uuid \in tags[k].refs
      BY <1>7 DEF Says, ElementsOf
    <2>4. \A j, k \in found : tags[j] = tags[k]
      BY <2>1 DEF ElementsOf
    <2>5. found \in SUBSET Nat
      BY LenProperties
    <2>6. tagged <=> \E k \in found : item.uuid \in tags[k].refs
      <3>1. ASSUME NEW k \in found, item.uuid \in tags[k].refs
            PROVE  tagged
        <4> HIDE DEF found
        <4>1. PICK least \in found : \A j \in found : least <= j
          BY <2>5, <3>1, Least
        <4>2. tags[least] = tags[k]
          BY <2>4, <3>1
        <4>3. QED
          BY <3>1, <4>1, <4>2
      <3>2. QED
        BY <3>1
    <2>7. QED
      BY <2>2, <2>3, <2>6 DEF Decide
  <1>8. CASE f.key \in {"uuid", "duplicateof", "deleted"}
    BY <1>1, <1>8 DEF applyNoteFilter, Decide, Says
  <1>9. CASE f.key \notin {"title", "text", "editor", "trash", "tagtitle", "taguuid", "uuid", "duplicateof", "deleted"}
    <2>1. f.key = "type" /\ ~any
      BY <1>1, <1>9 DEF Regular
    <2>2. QED
      BY <1>1, <2>1 DEF applyNoteFilter, Says
  <1>10. QED
    BY <1>2, <1>3, <1>4, <1>5, <1>6, <1>7, <1>8, <1>9

\* The same for tags.
LEMMA TagOutcome ==
    ASSUME NEW f, NEW item, item.type = "Tag", NEW tags,
           NEW any \in BOOLEAN, Regular(f, item, tags, any), Applies(f, item)
    PROVE  /\ Says(f, item, tags) => Outcome(f, item, tags, any) = IF any THEN "yes" ELSE "matched"
           /\ ~Says(f, item, tags) => Outcome(f, item, tags, any) = IF any THEN "unmatched" ELSE "no"
  <1>1. Outcome(f, item, tags, any) = applyTagFilter(f, item, any) /\ f.type \in {"Tag", "Item"}
    BY DEF Outcome, Applies
  <1>2. CASE f.key = "title"
    BY <1>1, <1>2 DEF applyTagFilter, TitleOf, Usable, Decide, Regular, Says, FieldOf
  <1>3. CASE f.key = "uuid"
    BY <1>1, <1>3 DEF applyTagFilter, Decide, Says
  <1>4. CASE f.key \notin {"title", "uuid"}
    <2>1. f.key = "type" /\ ~any
      BY <1>1, <1>4 DEF Regular
    <2>2. QED
      BY <1>1, <2>1 DEF applyTagFilter, Says
  <1>5. QED
    BY <1>2, <1>3, <1>4

\* The same for components.
LEMMA ComponentOutcome ==
    ASSUME NEW f, NEW item, item.type = "Component", NEW tags,
           NEW any \in BOOLEAN, Regular(f, item, tags, any), Applies(f, item)
    PROVE  /\ Says(f, item, tags) => Outcome(f, item, tags, any) = IF any THEN "yes" ELSE "matched"
           /\ ~Says(f, item, tags) => Outcome(f, item, tags, any) = IF any THEN "unmatched" ELSE "no"
  <1>1. Outcome(f, item, tags, any) = applyComponentFilter(f, item, any) /\ f.type \in {"Component", "Item"}
    BY DEF Outcome, Applies
  <1>2. CASE f.key = "name"
    BY <1>1, <1>2 DEF applyComponentFilter, TitleOf, Usable, Decide, Regular, Says, FieldOf
  <1>3. CASE f.key \in {"uuid", "active"}
    BY <1>1, <1>3 DEF applyComponentFilter, Decide, Says
  <1>4. CASE f.key \notin {"name", "uuid", "active"}
    <2>1. f.key = "type" /\ ~any
      BY <1>1, <1>4 DEF Regular
    <2>2. QED
      BY <1>1, <2>1 DEF applyComponentFilter, Says
  <1>5. QED
    BY <1>2, <1>3, <1>4

\* A filter for another type leaves what was known, and any other does what it says.
LEMMA OutcomeSays ==
    ASSUME NEW f, NEW item, IsListItem(item), NEW T, NEW tags \in Seq(T),
           NEW any \in BOOLEAN, Regular(f, item, tags, any)
    PROVE  /\ ~Applies(f, item) => Outcome(f, item, tags, any) = "keep"
           /\ Applies(f, item) /\ Says(f, item, tags) =>
                 Outcome(f, item, tags, any) = IF any THEN "yes" ELSE "matched"
           /\ Applies(f, item) /\ ~Says(f, item, tags) =>
                 Outcome(f, item, tags, any) = IF any THEN "unmatched" ELSE "no"
  <1>1. CASE ~Applies(f, item)
    <2>1. item.type \in {"Note", "Tag", "Component"} /\ f.type \notin {item.type, "Item"}
      BY <1>1 DEF Regular, Applies
    <2>2. QED
      BY <1>1, <2>1 DEF Outcome, applyNoteFilter, applyTagFilter, applyComponentFilter
  <1>2. CASE item.type \notin {"Note", "Tag", "Component"}
    <2>1. f.key = "uuid" /\ Applies(f, item)
      BY <1>2 DEF Regular
    <2>2. QED
      BY <1>2, <2>1 DEF Outcome, applyAnyTypeFilter, Decide, Says
  <1>3. QED
    BY <1>1, <1>2, NoteOutcome, TagOutcome, ComponentOutcome

\* The walk ends with the first "yes", when no filter says "no".
LEMMA FoundAny ==
    ASSUME NEW outcomes, \A k \in DOMAIN outcomes : outcomes[k] \in {"yes", "unmatched", "keep"},
           NEW n \in Nat, DOMAIN outcomes = 1..n
    PROVE  Found(outcomes) <=> \E k \in DOMAIN outcomes : outcomes[k] = "yes"
  <1>1. \A k \in DOMAIN outcomes : \A j \in 1..(k - 1) : outcomes[j] # "no"
    <2>1. \A k \in DOMAIN outcomes : 1..(k - 1) \subseteq DOMAIN outcomes
      OBVIOUS
    <2>2. QED
      BY <2>1
  <1>2. QED
    BY <1>1 DEF Found

\* The walk finds an item that no filter says "no" to, if one says "matched".
LEMMA FoundAll ==
    ASSUME NEW outcomes, \A k \in DOMAIN outcomes : outcomes[k] \in {"matched", "no", "keep"},
           NEW n \in Nat, DOMAIN outcomes = 1..n
    PROVE  Found(outcomes) <=> /\ \E k \in DOMAIN outcomes : outcomes[k] = "matched"
                               /\ \A k \in DOMAIN outcomes : outcomes[k] # "no"
  <1>1. ASSUME NEW one \in DOMAIN outcomes, outcomes[one] = "matched",
               \A k \in DOMAIN outcomes : outcomes[k] # "no"
        PROVE  Found(outcomes)
    <2> DEFINE After == {i \in Nat : i <= n /\ n - i \in DOMAIN outcomes /\ outcomes[n - i] = "matched"}
    <2>1. n - one \in After
      BY <1>1
    <2>2. PICK i \in After : \A j \in After : i <= j
      <3>1. After \in SUBSET Nat /\ After # {}
        BY <2>1
      <3> HIDE DEF After
      <3>2. QED
        BY <3>1, Least
    <2>3. ASSUME NEW j \in DOMAIN outcomes, j > n - i, outcomes[j] = "matched"
          PROVE  FALSE
      <3>1. n - j \in After
        BY <2>3
      <3>2. QED
        BY <2>2, <2>3, <3>1
    <2>4. n - i \in DOMAIN outcomes /\ outcomes[n - i] = "matched"
      BY <2>2
    <2>5. \A j \in DOMAIN outcomes : outcomes[j] \notin {"yes", "no"} /\ (j > n - i => outcomes[j] = "keep")
      BY <1>1, <2>3
    <2>6. QED
      BY <2>4, <2>5 DEF Found
  <1>2. QED
    BY <1>1 DEF Found

\* A list that is filtered keeps what the filters say.
LEMMA KeptIsWanted ==
    ASSUME NEW list, IsItemList(list), NEW ask, ask.any \in BOOLEAN, ask.filters \in Seq(FiltersOf(ask)),
           NEW item \in ElementsOf(list),
           \A f \in FiltersOf(ask) : Regular(f, item, TagsOf(list), ask.any)
    PROVE  item \in ElementsOf(Kept(list, ask)) <=> Wanted(ask, item, TagsOf(list))
  <1> DEFINE tags == TagsOf(list)
             outcomes == Outcomes(ask, item, tags)
             on == {f \in FiltersOf(ask) : Applies(f, item)}
  <1>1. IsListItem(item) /\ tags \in Seq(ElementsOf(tags))
    BY SomeOfList DEF IsItemList, TagsOf
  <1>2. PICK n \in Nat : DOMAIN ask.filters = 1..n
    BY LenProperties
  <1>3. /\ DOMAIN outcomes = DOMAIN ask.filters
        /\ \A k \in DOMAIN outcomes :
              /\ ask.filters[k] \in FiltersOf(ask)
              /\ outcomes[k] = Outcome(ask.filters[k], item, tags, ask.any)
    BY DEF Outcomes, FiltersOf, ElementsOf
  <1>4. item \in ElementsOf(Kept(list, ask)) <=> Found(outcomes)
    <2> DEFINE S == {i \in DOMAIN list : Found(Outcomes(ask, list[i], tags))}
    <2>1. ElementsOf(Kept(list, ask)) = {list[i] : i \in S}
      BY SomeOfList DEF Kept
    <2>2. QED
      BY <2>1 DEF ElementsOf
  <1> HIDE DEF tags, outcomes
  <1>5. \A f \in FiltersOf(ask) :
           /\ ~Applies(f, item) => Outcome(f, item, tags, ask.any) = "keep"
           /\ Applies(f, item) /\ Says(f, item, tags) =>
                 Outcome(f, item, tags, ask.any) = IF ask.any THEN "yes" ELSE "matched"
           /\ Applies(f, item) /\ ~Says(f, item, tags) =>
                 Outcome(f, item, tags, ask.any) = IF ask.any THEN "unmatched" ELSE "no"
    BY <1>1, OutcomeSays DEF tags
  <1>6. FiltersOf(ask) = {ask.filters[k] : k \in DOMAIN ask.filters}
    BY DEF FiltersOf, ElementsOf
  <1>7. CASE ask.any
    <2>1. \A k \in DOMAIN outcomes :
             /\ outcomes[k] \in {"yes", "unmatched", "keep"}
             /\ outcomes[k] = "yes" <=> Applies(ask.filters[k], item) /\ Says(ask.filters[k], item, tags)
      BY <1>3, <1>5, <1>7
    <2>2. Found(outcomes) <=> \E k \in DOMAIN outcomes : outcomes[k] = "yes"
      BY <1>2, <1>3, <2>1, FoundAny
    <2>3. Found(outcomes) <=> \E f \in on : Says(f, item, tags)
      BY <1>3, <1>6, <2>1, <2>2
    <2>4. QED
      BY <1>4, <1>7, <2>3 DEF Wanted, tags
  <1>8. CASE ~ask.any
    <2>1. \A k \in DOMAIN outcomes :
             /\ outcomes[k] \in {"matched", "no", "keep"}
             /\ outcomes[k] = "matched" <=> Applies(ask.filters[k], item) /\ Says(ask.filters[k], item, tags)
             /\ outcomes[k] = "no" <=> Applies(ask.filters[k], item) /\ ~Says(ask.filters[k], item, tags)
      BY <1>3, <1>5, <1>8
    <2>2. Found(outcomes) <=> /\ \E k \in DOMAIN outcomes : outcomes[k] = "matched"
                              /\ \A k \in DOMAIN outcomes : outcomes[k] # "no"
      BY <1>2, <1>3, <2>1, FoundAll
    <2>3. Found(outcomes) <=> on # {} /\ \A f \in on : Says(f, item, tags)
      BY <1>3, <1>6, <2>1, <2>2
    <2>4. QED
      BY <1>4, <1>8, <2>3 DEF Wanted, tags
  <1>9. QED
    BY <1>7, <1>8

\* In the regular cases a filtered list has the items its filters ask for.
THEOREM FiltersDoWhatTheySay == Spec => []FilterMeansWhatItSays
  <1>1. Init => ItemsInv
    <2>1. IsItemList(<<>>)
      BY EmptySeq DEF IsItemList, ElementsOf
    <2>2. QED
      BY <2>1, ListsAssumption DEF Init, ListInit, NoLists, ItemsInv
  <1>2. ItemsInv /\ [Next]_toolVars => ItemsInv'
    BY ListsKept
  <1>3. ItemsInv => FilterMeansWhatItSays
    BY ListsAssumption, KeptIsWanted DEF FilterMeansWhatItSays, ItemsInv
  <1>4. QED
    BY <1>1, <1>2, <1>3, PTL DEF Spec

=============================================================================
