--------------------------- MODULE SyncPagingProofs ---------------------------
(* Theorems about SyncPaging, for every value of its constants. *)
EXTENDS SyncPaging, FiniteSetTheorems, TLAPS

---------------------------------------------------------------------------
(* One page of a request. *)

\* The pushed items are items, and their number is a natural number.
LEMMA PushType ==
    ASSUME PagingAssumption
    PROVE  N \in Nat /\ Push \in [1..N -> UUID] /\ Pushed \subseteq UUID
  BY DEF PagingAssumption, N, Pushed

\* An item to push has one position in the list.
LEMMA PositionType ==
    ASSUME PagingAssumption, NEW u \in Pushed
    PROVE  Position(u) \in 1..N /\ Push[Position(u)] = u
  BY DEF Pushed, Position

\* No request asks for or sends a single item only.
LEMMA LimitsLarge ==
    ASSUME PagingAssumption, TypeOK, LargePages, NEW limit \in Limits
    PROVE  limit \in Nat /\ limit > 1
  <1>1. call.pageSize \in Nat /\ call.pageSize # 1
    BY DEF TypeOK, Call, LargePages
  <1>2. DefaultPage \in Nat /\ MinPage \in Nat /\ MaxPage \in Nat /\ DefaultPage > 1 /\ MinPage > 1
    BY DEF PagingAssumption
  <1> DEFINE given == IF call.pageSize > 0 THEN call.pageSize ELSE DefaultPage
  <1>3. given \in Nat /\ given > 1
    BY <1>1, <1>2
  <1>4. limit \in MinPage..MaxPage \/ limit = given
    BY DEF Limits
  <1>5. QED
    BY <1>2, <1>3, <1>4

\* A request ends at an item of the list, and at its last one or far enough
\* for the next request to start behind it.
LEMMA FinalItemType ==
    ASSUME PagingAssumption, TypeOK, NEW limit \in Nat, limit > 1
    PROVE  /\ FinalItem(limit) \in 0..N
           /\ FinalItem(limit) > 0 => FinalItem(limit) < N
           /\ FinalItem(limit) = 0 => N <= 1
  <1>1. N \in Nat /\ call.nextItem \in Nat /\ call.nextItem <= N
    BY PushType DEF TypeOK, Call
  <1>2. CASE N = 0
    BY <1>2 DEF FinalItem
  <1>3. CASE N # 0 /\ call.nextItem + limit < N
    <2>1. FinalItem(limit) = call.nextItem + limit - 1
      BY <1>3 DEF FinalItem
    <2>2. QED
      BY <1>1, <1>3, <2>1
  <1>4. CASE N # 0 /\ ~(call.nextItem + limit < N)
    <2>1. FinalItem(limit) = N - 1
      BY <1>4 DEF FinalItem
    <2>2. QED
      BY <1>1, <1>4, <2>1
  <1>5. QED
    BY <1>2, <1>3, <1>4

\* What a request sends: the items from the next one to the final one.
LEMMA SentItems ==
    ASSUME NEW limit
    PROVE  /\ Sent(limit) \subseteq Pushed
           /\ \A k \in 1..N : call.nextItem < k /\ k <= FinalItem(limit) + 1
                                => Push[k] \in Sent(limit)
  BY DEF Sent, Pushed

\* A page is closed downwards in time.
LEMMA PageIsFirst ==
    ASSUME PagingAssumption, TypeOK, NEW limit \in Nat, NEW w \in Page(limit),
           NEW u \in Changed, server[u] <= server[w]
    PROVE  u \in Page(limit)
  <1> DEFINE upTo(v) == {x \in Changed : server[x] <= server[v]}
  <1>1. w \in UUID /\ u \in UUID /\ Cardinality(upTo(w)) <= limit
    BY DEF Page, Changed
  <1>2. \A x \in Changed : server[x] \in Nat
    BY DEF TypeOK, Changed
  <1>3. server[u] \in Nat /\ server[w] \in Nat
    BY <1>1 DEF TypeOK
  <1>4. upTo(u) \in SUBSET upTo(w)
    BY <1>2, <1>3
  <1>5. IsFiniteSet(UUID) /\ upTo(w) \in SUBSET UUID
    BY DEF PagingAssumption, Changed
  <1>6. IsFiniteSet(upTo(w))
    BY <1>5, FS_Subset
  <1>7. IsFiniteSet(upTo(u)) /\ Cardinality(upTo(u)) <= Cardinality(upTo(w))
    BY <1>4, <1>6, FS_Subset
  <1>8. Cardinality(upTo(u)) \in Nat /\ Cardinality(upTo(w)) \in Nat
    BY <1>6, <1>7, FS_CardinalityType
  <1>9. Cardinality(upTo(u)) <= limit
    BY <1>1, <1>7, <1>8
  <1>10. QED
    BY <1>9 DEF Page

\* When there is no more, the page holds every change.
LEMMA LastPageIsAll ==
    ASSUME PagingAssumption, NEW limit \in Nat, ~More(limit)
    PROVE  Changed \subseteq Page(limit)
  <1> SUFFICES ASSUME NEW u \in Changed
               PROVE  u \in Page(limit)
    OBVIOUS
  <1> DEFINE upTo == {x \in Changed : server[x] <= server[u]}
  <1>1. IsFiniteSet(UUID) /\ Changed \in SUBSET UUID /\ upTo \in SUBSET Changed
    BY DEF PagingAssumption, Changed
  <1>2. IsFiniteSet(Changed)
    BY <1>1, FS_Subset
  <1>3. IsFiniteSet(upTo) /\ Cardinality(upTo) <= Cardinality(Changed)
    BY <1>1, <1>2, FS_Subset
  <1>4. Cardinality(Changed) \in Nat /\ Cardinality(upTo) \in Nat
    BY <1>2, <1>3, FS_CardinalityType
  <1>5. Cardinality(Changed) <= limit
    BY <1>4 DEF More
  <1>6. Cardinality(upTo) <= limit
    BY <1>3, <1>4, <1>5
  <1>7. QED
    BY <1>6 DEF Page

\* A cursor is the time of an item, which is not earlier than any of its page.
LEMMA CursorType ==
    ASSUME PagingAssumption, TypeOK, TimesOrdered, NEW limit \in Nat,
           NEW cursor \in NextCursors(limit)
    PROVE  /\ cursor \in Nat /\ cursor <= clock
           /\ More(limit) => /\ cursor # 0
                             /\ \E w \in Page(limit) : cursor = server[w]
           /\ ~More(limit) => cursor = 0
  <1>1. CASE ~More(limit)
    BY <1>1 DEF NextCursors, CursorsAfter, TypeOK
  <1>2. CASE More(limit)
    <2>1. PICK w \in Page(limit) : cursor = server[w]
      BY <1>2 DEF NextCursors, CursorsAfter
    <2>2. w \in UUID /\ w \in Changed
      BY DEF Page, Changed
    <2>3. server[w] \in Nat /\ server[w] <= clock
      BY <2>2 DEF TypeOK, TimesOrdered
    <2>4. call.cursor \in Nat /\ call.syncToken \in Nat
      BY DEF TypeOK, Call
    <2>5. server[w] # 0
      BY <2>2, <2>3, <2>4 DEF Changed
    <2>6. QED
      BY <1>2, <2>1, <2>3, <2>5
  <1>3. QED
    BY <1>1, <1>2

\* Storing items leaves a map of timestamps, none later than the clock.
LEMMA StoresType ==
    ASSUME PagingAssumption, TypeOK, TimesOrdered, NEW S \in SUBSET Pushed, Stores(S)
    PROVE  /\ server' \in [UUID -> Nat] /\ clock' \in Nat /\ clock <= clock'
           /\ \A u \in UUID : server'[u] <= clock'
           /\ \A u \in UUID : u \notin S => server'[u] = server[u]
           /\ writes' \in Nat /\ stored' \subseteq Pushed
  <1>1. N \in Nat /\ Pushed \subseteq UUID /\ clock \in Nat /\ server \in [UUID -> Nat]
    BY PushType DEF TypeOK
  <1>2. \A u \in S : Position(u) \in Nat /\ Position(u) <= N /\ 1 <= N
    BY PositionType, <1>1
  <1>3. server' = [u \in UUID |-> IF u \in S THEN clock + Position(u) ELSE server[u]]
    BY DEF Stores
  <1>4. clock' = IF S = {} THEN clock ELSE clock + N
    BY DEF Stores
  <1>5. clock' \in Nat /\ clock <= clock'
    BY <1>1, <1>4
  <1>6. ASSUME NEW u \in UUID
        PROVE  server'[u] \in Nat /\ server'[u] <= clock'
    <2>1. CASE u \in S
      <3>1. server'[u] = clock + Position(u) /\ clock' = clock + N
        BY <1>3, <1>4, <2>1
      <3>2. QED
        BY <1>1, <1>2, <2>1, <3>1
    <2>2. CASE u \notin S
      <3>1. server'[u] = server[u] /\ server[u] <= clock /\ server[u] \in Nat
        BY <1>1, <1>3, <2>2 DEF TimesOrdered
      <3>2. QED
        BY <1>1, <1>5, <3>1
    <2>3. QED
      BY <2>1, <2>2
  <1>7. \A u \in UUID : u \notin S => server'[u] = server[u]
    BY <1>3
  <1>8. server' \in [UUID -> Nat]
    BY <1>3, <1>6
  <1>9. writes' \in Nat /\ stored' \subseteq Pushed
    BY DEF Stores, TypeOK
  <1>10. QED
    BY <1>5, <1>6, <1>7, <1>8, <1>9

---------------------------------------------------------------------------
(* A page whose answer arrives. *)

\* It leaves every variable in its type.
LEMMA PageAnsweredType ==
    ASSUME PagingAssumption, PagesInv, NEW limit \in Limits, PageAnswered(limit), tick' = ~tick
    PROVE  TypeOK'
  <1> DEFINE sent == Sent(limit)
             final == FinalItem(limit)
  <1> USE DEF PagesInv
  <1>1. limit \in Nat /\ limit > 1
    BY LimitsLarge
  <1>2. final \in 0..N /\ (final > 0 => final < N) /\ N \in Nat
    BY <1>1, FinalItemType, PushType
  <1>3. sent \subseteq Pushed /\ Pushed \subseteq UUID
    BY SentItems, PushType
  <1>4. Accepted(sent) \in SUBSET Pushed /\ Conflicting(sent) \subseteq UUID
    BY <1>3 DEF Accepted, Conflicting
  <1>5. /\ server' \in [UUID -> Nat] /\ clock' \in Nat
        /\ writes' \in Nat /\ stored' \subseteq Pushed
    BY <1>4, StoresType DEF PageAnswered
  <1>6. \A S \in SUBSET UUID : Versions(S) \subseteq Version
    BY DEF Versions, Version, TypeOK
  <1>7. Page(limit) \ Conflicting(sent) \subseteq UUID
    BY DEF Page, Changed
  <1>8. out' \in Output
    <2> DEFINE stamped == {[uuid |-> u, ts |-> server'[u]] : u \in Accepted(sent)}
    <2>1. stamped \subseteq Version
      BY <1>3, <1>4, <1>5 DEF Version
    <2>2. out \in Output
      BY DEF TypeOK
    <2>3. out' = [items |-> out.items \cup Versions(Page(limit) \ Conflicting(sent)),
                  saved |-> out.saved \cup stamped,
                  conflicts |-> out.conflicts \cup Versions(Conflicting(sent)),
                  lastItemPut |-> IF call.first THEN final ELSE out.lastItemPut]
      BY DEF PageAnswered
    <2>4. Versions(Page(limit) \ Conflicting(sent)) \subseteq Version
      BY <1>6, <1>7
    <2>5. Versions(Conflicting(sent)) \subseteq Version
      BY <1>4, <1>6
    <2>6. QED
      BY <1>2, <2>1, <2>2, <2>3, <2>4, <2>5 DEF Output
  <1>9. call' \in Call /\ pc' \in {"request", "done"}
    <2>1. call \in Call
      BY DEF TypeOK
    <2>2. CASE Goes(limit)
      <3>1. PICK cursor \in NextCursors(limit) :
                call' = [pageSize |-> limit, nextItem |-> ItemAfter(final),
                         syncToken |-> clock', cursor |-> cursor, first |-> FALSE]
        BY <2>2 DEF PageAnswered
      <3>2. cursor \in Nat
        BY <1>1, CursorType
      <3>3. ItemAfter(final) \in 0..N
        BY <1>2, <2>1 DEF ItemAfter, Call
      <3>4. pc' = "request"
        BY <2>2 DEF PageAnswered
      <3>5. QED
        BY <1>1, <1>5, <3>1, <3>2, <3>3, <3>4 DEF Call
    <2>3. CASE ~Goes(limit)
      <3>1. call' = [call EXCEPT !.syncToken = clock', !.cursor = 0] /\ pc' = "done"
        BY <2>3 DEF PageAnswered
      <3>2. QED
        BY <1>5, <2>1, <3>1 DEF Call
    <2>4. QED
      BY <2>2, <2>3
  <1>10. /\ base' \in [Pushed -> Nat] /\ token' \in Nat
         /\ pageSize' \in Nat /\ nextItem' \in 0..N /\ attempt' \in 1..MaxAttempts
         /\ answered' \subseteq Pushed /\ tick' \in BOOLEAN
    BY <1>3 DEF PageAnswered, TypeOK, inputVars, retryVars
  <1>11. QED
    BY <1>5, <1>8, <1>9, <1>10 DEF TypeOK

\* The next page is no single item, and its tokens are not ahead of the clock.
LEMMA PageAnsweredOrder ==
    ASSUME PagingAssumption, PagesInv, NEW limit \in Limits, PageAnswered(limit)
    PROVE  LargePages' /\ TimesOrdered'
  <1> DEFINE sent == Sent(limit)
  <1> USE DEF PagesInv
  <1>1. limit \in Nat /\ limit > 1
    BY LimitsLarge
  <1>2. Accepted(sent) \in SUBSET Pushed
    BY SentItems DEF Accepted
  <1>3. /\ clock \in Nat /\ clock' \in Nat /\ clock <= clock'
        /\ \A u \in UUID : server'[u] <= clock'
    BY <1>2, StoresType DEF PageAnswered, TypeOK
  <1>4. UNCHANGED <<pageSize, attempt>> /\ token' = token /\ token \in Nat /\ token <= clock
    BY DEF PageAnswered, retryVars, inputVars, TypeOK, TimesOrdered
  <1>5. call \in Call
    BY DEF TypeOK
  <1>6. CASE Goes(limit)
    <2>1. PICK cursor \in NextCursors(limit) :
              call' = [pageSize |-> limit, nextItem |-> ItemAfter(FinalItem(limit)),
                       syncToken |-> clock', cursor |-> cursor, first |-> FALSE]
      BY <1>6 DEF PageAnswered
    <2>2. cursor \in Nat /\ cursor <= clock
      BY <1>1, CursorType
    <2>3. pc' = "request"
      BY <1>6 DEF PageAnswered
    <2>4. call'.pageSize # 1 /\ call'.syncToken = clock' /\ call'.cursor <= clock'
      BY <1>1, <1>3, <2>1, <2>2
    <2>5. QED
      BY <1>3, <1>4, <2>3, <2>4 DEF LargePages, TimesOrdered
  <1>7. CASE ~Goes(limit)
    <2>1. call' = [call EXCEPT !.syncToken = clock', !.cursor = 0] /\ pc' = "done"
      BY <1>7 DEF PageAnswered
    <2>2. /\ call'.pageSize = call.pageSize
          /\ call'.syncToken = clock' /\ call'.cursor = 0
      BY <1>5, <2>1 DEF Call
    <2>3. QED
      BY <1>3, <1>4, <2>2 DEF LargePages, TimesOrdered
  <1>8. QED
    BY <1>6, <1>7

\* Whatever the next request passes over is in the lists: what this one stored
\* is saved, and what it passed over is retrieved or in conflict.
LEMMA PageAnsweredCovers ==
    ASSUME PagingAssumption, PagesInv, NEW limit \in Limits, PageAnswered(limit)
    PROVE  CoveredSoFar'
  <1> DEFINE sent == Sent(limit)
             all == out.items \cup out.saved \cup out.conflicts
  <1> USE DEF PagesInv
  <1>1. limit \in Nat /\ limit > 1
    BY LimitsLarge
  <1>2. Accepted(sent) \in SUBSET Pushed
    BY SentItems DEF Accepted
  <1>3. /\ clock' \in Nat
        /\ \A u \in UUID : server'[u] <= clock'
        /\ \A u \in UUID : u \notin Accepted(sent) => server'[u] = server[u]
    BY <1>2, StoresType DEF PageAnswered
  <1>4. token' = token /\ pc = "request"
    BY DEF PageAnswered, inputVars
  <1>5. /\ out'.items = out.items \cup Versions(Page(limit) \ Conflicting(sent))
        /\ out'.saved = out.saved \cup
               {[uuid |-> u, ts |-> server'[u]] : u \in Accepted(sent)}
        /\ out'.conflicts = out.conflicts \cup Versions(Conflicting(sent))
    BY DEF PageAnswered
  <1> SUFFICES ASSUME NEW u \in UUID, server'[u] > token, server'[u] <= Reached'
               PROVE  [uuid |-> u, ts |-> server'[u]] \in
                          out'.items \cup out'.saved \cup out'.conflicts
    BY <1>4 DEF CoveredSoFar
  <1>6. CASE u \in Accepted(sent)
    BY <1>5, <1>6
  <1>7. CASE u \notin Accepted(sent)
    <2>1. server'[u] = server[u] /\ server[u] \in Nat
      BY <1>3, <1>7 DEF TypeOK
    <2>2. CASE u \notin Changed
      <3>1. ~(server[u] > Reached) /\ Reached \in Nat
        BY <2>2 DEF Changed, Reached, TypeOK, Call
      <3>2. [uuid |-> u, ts |-> server[u]] \in all
        BY <1>4, <2>1, <3>1 DEF CoveredSoFar
      <3>3. QED
        BY <1>5, <2>1, <3>2
    <2>3. CASE u \in Changed
      <3>1. u \in Page(limit)
        <4>1. CASE More(limit)
          <5>1. Goes(limit)
            BY <4>1 DEF Goes
          <5>2. PICK cursor \in NextCursors(limit) :
                    call' = [pageSize |-> limit, nextItem |-> ItemAfter(FinalItem(limit)),
                             syncToken |-> clock', cursor |-> cursor, first |-> FALSE]
            BY <5>1 DEF PageAnswered
          <5>3. PICK w \in Page(limit) : cursor = server[w] /\ cursor # 0
            BY <1>1, <4>1, CursorType
          <5>4. Reached' = server[w]
            BY <5>2, <5>3 DEF Reached
          <5>5. server[u] <= server[w]
            BY <2>1, <5>4
          <5>6. QED
            BY <1>1, <2>3, <5>5, PageIsFirst
        <4>2. CASE ~More(limit)
          BY <1>1, <2>3, <4>2, LastPageIsAll
        <4>3. QED
          BY <4>1, <4>2
      <3>2. QED
        BY <1>5, <2>1, <3>1 DEF Versions
    <2>4. QED
      BY <2>2, <2>3
  <1>8. QED
    BY <1>6, <1>7

\* The items it sent are answered, and the next page starts behind them.
LEMMA PageAnsweredAnswers ==
    ASSUME PagingAssumption, PagesInv, NEW limit \in Limits, PageAnswered(limit)
    PROVE  AnsweredSoFar' /\ PushesAnswered'
  <1> DEFINE sent == Sent(limit)
             final == FinalItem(limit)
             lists == out.saved \cup out.conflicts
  <1> USE DEF PagesInv
  <1>1. limit \in Nat /\ limit > 1
    BY LimitsLarge
  <1>2. final \in Nat /\ (final = 0 => N <= 1) /\ N \in Nat
    BY <1>1, FinalItemType, PushType
  <1>3. \A k \in 1..N : call.nextItem < k /\ k <= final + 1 => Push[k] \in sent
    BY SentItems
  <1>4. answered' = answered \cup sent /\ nextItem' = nextItem /\ nextItem \in Nat
    BY DEF PageAnswered, retryVars, TypeOK
  <1>5. call.nextItem \in Nat /\ call.nextItem <= N /\ out.lastItemPut \in Nat
    BY <1>2 DEF TypeOK, Call, Output
  <1>6. pc = "request"
    BY DEF PageAnswered
  <1>7. \A k \in 1..N : k <= call.nextItem \/ k <= final + 1 => Push[k] \in answered'
    <2>1. \A k \in 1..N : k <= call.nextItem => Push[k] \in answered
      BY DEF AnsweredSoFar
    <2> SUFFICES ASSUME NEW k \in 1..N, k <= call.nextItem \/ k <= final + 1
                 PROVE  Push[k] \in answered'
      OBVIOUS
    <2>2. CASE k <= call.nextItem
      BY <1>4, <2>1, <2>2
    <2>3. CASE call.nextItem < k /\ k <= final + 1
      BY <1>3, <1>4, <2>3
    <2>4. k \in Nat
      BY <1>2
    <2>5. QED
      BY <1>5, <2>2, <2>3, <2>4
  <1>8. NamesIn(lists) \cup sent \subseteq NamesIn(out'.saved \cup out'.conflicts)
    <2>1. /\ out'.saved = out.saved \cup
                 {[uuid |-> u, ts |-> server'[u]] : u \in Accepted(sent)}
          /\ out'.conflicts = out.conflicts \cup Versions(Conflicting(sent))
      BY DEF PageAnswered
    <2>2. ASSUME NEW u \in sent
          PROVE  u \in NamesIn(out'.saved \cup out'.conflicts)
      <3>1. CASE Stale(u)
        <4>1. [uuid |-> u, ts |-> server[u]] \in out'.conflicts
          BY <2>1, <3>1 DEF Conflicting, Versions
        <4>2. QED
          BY <4>1 DEF NamesIn
      <3>2. CASE ~Stale(u)
        <4>1. [uuid |-> u, ts |-> server'[u]] \in out'.saved
          BY <2>1, <3>2 DEF Accepted
        <4>2. QED
          BY <4>1 DEF NamesIn
      <3>3. QED
        BY <3>1, <3>2
    <2>3. NamesIn(lists) \subseteq NamesIn(out'.saved \cup out'.conflicts)
      BY <2>1 DEF NamesIn
    <2>4. QED
      BY <2>2, <2>3
  <1>9. \A k \in 1..N : nextItem < k /\ (k <= call.nextItem \/ k <= final + 1)
            => Push[k] \in NamesIn(out'.saved \cup out'.conflicts)
    <2>1. \A k \in 1..N : nextItem < k /\ k <= call.nextItem => Push[k] \in NamesIn(lists)
      <3>1. \A k \in (nextItem + 1)..call.nextItem : Push[k] \in NamesIn(lists)
        BY <1>6 DEF AnsweredSoFar
      <3>2. ASSUME NEW k \in 1..N, nextItem < k, k <= call.nextItem
            PROVE  k \in (nextItem + 1)..call.nextItem
        <4>1. k \in Nat /\ nextItem \in Nat /\ call.nextItem \in Nat
          BY <1>2, <1>4, <1>5
        <4>2. QED
          BY <3>2, <4>1
      <3>3. QED
        BY <3>1, <3>2
    <2> SUFFICES ASSUME NEW k \in 1..N, nextItem < k, k <= call.nextItem \/ k <= final + 1
                 PROVE  Push[k] \in NamesIn(lists) \cup sent
      BY <1>8
    <2>2. CASE k <= call.nextItem
      BY <2>1, <2>2
    <2>3. CASE call.nextItem < k /\ k <= final + 1
      BY <1>3, <2>3
    <2>4. k \in Nat
      BY <1>2
    <2>5. QED
      BY <1>5, <2>2, <2>3, <2>4
  <1>10. out'.lastItemPut \in Nat /\ (out'.lastItemPut = final \/ out'.lastItemPut = out.lastItemPut)
    BY <1>2, <1>5 DEF PageAnswered
  <1>11. \A k \in 1..N : k <= nextItem \/ k <= out'.lastItemPut => Push[k] \in answered'
    <2>1. \A k \in 1..N : k <= nextItem \/ k <= out.lastItemPut => Push[k] \in answered
      BY DEF AnsweredSoFar
    <2> SUFFICES ASSUME NEW k \in 1..N, k <= nextItem \/ k <= out'.lastItemPut
                 PROVE  Push[k] \in answered'
      OBVIOUS
    <2>2. CASE k <= nextItem \/ k <= out.lastItemPut
      BY <1>4, <2>1, <2>2
    <2>3. CASE k <= final
      <3>1. k <= final + 1
        BY <1>2, <2>3
      <3>2. QED
        BY <1>7, <3>1
    <2>4. QED
      BY <1>10, <2>2, <2>3
  <1>12. CASE Goes(limit)
    <2>1. PICK cursor :
              call' = [pageSize |-> limit, nextItem |-> ItemAfter(final),
                       syncToken |-> clock', cursor |-> cursor, first |-> FALSE]
      BY <1>12 DEF PageAnswered
    <2>2. call'.nextItem = ItemAfter(final)
      BY <2>1
    <2>3. call'.nextItem = final + 1 \/ call'.nextItem = call.nextItem
      BY <2>2 DEF ItemAfter
    <2>4. pc' = "request"
      BY <1>6, <1>12 DEF PageAnswered
    <2>5. \A k \in 1..N : k <= call'.nextItem => Push[k] \in answered'
      BY <1>2, <1>5, <1>7, <2>3
    <2>6. \A k \in (nextItem + 1)..call'.nextItem :
              Push[k] \in NamesIn(out'.saved \cup out'.conflicts)
      <3>1. call'.nextItem <= N /\ call'.nextItem \in Nat
        BY <1>1, <1>2, <1>5, <2>3, FinalItemType, <2>2 DEF ItemAfter
      <3>2. ASSUME NEW k \in (nextItem + 1)..call'.nextItem
            PROVE  k \in 1..N /\ nextItem < k /\ (k <= call.nextItem \/ k <= final + 1)
        BY <1>2, <1>4, <1>5, <2>3, <3>1
      <3>3. QED
        BY <1>9, <3>2
    <2>7. QED
      BY <1>4, <1>11, <2>4, <2>5, <2>6 DEF AnsweredSoFar, PushesAnswered
  <1>13. CASE ~Goes(limit)
    <2>1. call' = [call EXCEPT !.syncToken = clock', !.cursor = 0] /\ pc' = "done"
      BY <1>13 DEF PageAnswered
    <2>2. call'.nextItem = call.nextItem
      BY <2>1 DEF TypeOK, Call
    <2>3. final = 0 \/ final >= N - 1
      BY <1>2, <1>13 DEF Goes
    <2>4. \A k \in 1..N : k <= final + 1
      BY <1>2, <2>3
    <2>5. Pushed \subseteq answered'
      BY ZenonT(30), <1>7, <2>4 DEF Pushed
    <2>6. \A k \in (nextItem + 1)..N : Push[k] \in NamesIn(out'.saved \cup out'.conflicts)
      BY <1>2, <1>4, <1>9, <2>4
    <2>7. \A k \in 1..N : Push[k] \in answered'
      BY <1>7, <2>4
    <2>8. QED
      BY <1>4, <2>1, <2>5, <2>6, <2>7 DEF AnsweredSoFar, PushesAnswered
  <1>14. QED
    BY <1>12, <1>13

---------------------------------------------------------------------------
(* A page that fails, and the other client. *)

\* A shrunk page is the page size of one attempt later.
LEMMA ResizedLarge ==
    ASSUME PagingAssumption, TypeOK, LargePages, attempt < MaxAttempts
    PROVE  /\ Resized(pageSize) \in Nat /\ Resized(pageSize) > 1
           /\ \E n \in 0..attempt : Resized(pageSize) = PageSizes[n]
  <1>1. PICK n \in 0..(attempt - 1) : pageSize = PageSizes[n]
    BY DEF LargePages
  <1>2. attempt \in Nat /\ MaxAttempts \in Nat /\ attempt < MaxAttempts
    BY DEF TypeOK, PagingAssumption
  <1>3. n + 1 \in 1..(MaxAttempts - 1) /\ n + 1 \in 0..attempt /\ (n + 1) - 1 = n
    BY <1>1, <1>2
  <1>4. PageSizes[n + 1] = Resized(PageSizes[n]) /\ PageSizes[n + 1] > 1
    BY <1>3 DEF PagingAssumption
  <1>5. PageSizes[n + 1] \in Nat
    BY <1>2, <1>3 DEF PagingAssumption
  <1>6. QED
    BY <1>1, <1>3, <1>4, <1>5

\* Starting again, or giving up, keeps the invariant: everything before the item
\* it starts from has been answered, and the original token covers nothing yet.
LEMMA RetryKeeps ==
    ASSUME PagingAssumption, PagesInv, pc = "request", tick' = ~tick,
           NEW p \in Nat, p # 1,
           attempt < MaxAttempts => \E n \in 0..attempt : p = PageSizes[n],
           NEW n \in {out.lastItemPut, nextItem}, Retry(p, n),
           server' \in [UUID -> Nat], clock' \in Nat, clock <= clock',
           \A u \in UUID : server'[u] <= clock',
           writes' \in Nat, stored' \subseteq Pushed
    PROVE  PagesInv'
  <1> USE DEF PagesInv
  <1>1. n \in 0..N /\ N \in Nat /\ token \in Nat /\ token <= clock'
    BY PushType DEF TypeOK, Output, TimesOrdered
  <1>2. out' = NoOutput /\ NoOutput \in Output /\ answered' = answered
    BY <1>1 DEF Retry, NoOutput, Output
  <1>3. token' = token /\ base' = base
    BY DEF Retry, inputVars
  <1>4. \A k \in 1..N : k <= nextItem \/ k <= call.nextItem \/ k <= out.lastItemPut
                         => Push[k] \in answered
    BY DEF AnsweredSoFar
  <1>5. CASE attempt < MaxAttempts
    <2>1. /\ attempt' = attempt + 1 /\ pageSize' = p /\ nextItem' = n
          /\ call' = Retried(p, n) /\ pc' = "request"
      BY <1>5 DEF Retry
    <2>2. call' = [pageSize |-> p, nextItem |-> n, syncToken |-> token, cursor |-> 0, first |-> TRUE]
      BY <2>1 DEF Retried
    <2>3. TypeOK'
      <3>1. attempt' \in 1..MaxAttempts
        BY <1>5, <2>1 DEF TypeOK, PagingAssumption
      <3>2. call' \in Call
        BY <1>1, <2>2 DEF Call
      <3>3. QED
        BY <1>1, <1>2, <1>3, <2>1, <3>1, <3>2 DEF TypeOK
    <2>4. LargePages'
      <3>1. attempt' - 1 = attempt
        BY <2>1 DEF TypeOK
      <3>2. QED
        BY SMTT(30), <1>5, <2>1, <2>2, <3>1 DEF LargePages
    <2>5. TimesOrdered'
      BY <1>1, <1>3, <2>1, <2>2 DEF TimesOrdered
    <2>6. CoveredSoFar'
      <3>1. Reached' = token
        BY <2>2 DEF Reached
      <3>2. \A u \in UUID : ~(server'[u] > token' /\ server'[u] <= Reached')
        BY <1>1, <1>3, <3>1
      <3>3. QED
        BY <3>2 DEF CoveredSoFar
    <2>7. AnsweredSoFar' /\ PushesAnswered'
      <3>1. \A k \in 1..N : k <= n => Push[k] \in answered
        BY <1>4
      <3>2. out'.lastItemPut = 0 /\ call'.nextItem = n /\ nextItem' = n
        BY <1>2, <2>1, <2>2 DEF NoOutput
      <3>3. \A k \in (n + 1)..n : FALSE
        BY <1>1
      <3>4. \A k \in 1..N : ~(k <= 0)
        BY <1>1
      <3>5. QED
        BY <1>2, <2>1, <3>1, <3>2, <3>3, <3>4 DEF AnsweredSoFar, PushesAnswered
    <2>8. QED
      BY <2>3, <2>4, <2>5, <2>6, <2>7
  <1>6. CASE ~(attempt < MaxAttempts)
    <2>1. pc' = "failed" /\ UNCHANGED <<pageSize, nextItem, attempt, call>>
      BY <1>6 DEF Retry, retryVars
    <2>2. TypeOK'
      BY <1>2, <1>3, <2>1 DEF TypeOK
    <2>3. LargePages'
      BY <2>1 DEF LargePages
    <2>4. TimesOrdered'
      <3>1. call.syncToken \in Nat /\ call.cursor \in Nat /\ clock \in Nat
        BY DEF TypeOK, Call
      <3>2. call.syncToken <= clock' /\ call.cursor <= clock'
        BY <3>1 DEF TimesOrdered
      <3>3. QED
        BY <1>1, <1>3, <2>1, <3>2 DEF TimesOrdered
    <2>5. CoveredSoFar' /\ PushesAnswered'
      BY <2>1 DEF CoveredSoFar, PushesAnswered
    <2>6. AnsweredSoFar'
      <3>1. out'.lastItemPut = 0
        BY <1>2 DEF NoOutput
      <3>2. \A k \in 1..N : ~(k <= 0)
        BY <1>1
      <3>3. QED
        BY <1>2, <1>4, <2>1, <3>1, <3>2 DEF AnsweredSoFar
    <2>7. QED
      BY <2>2, <2>3, <2>4, <2>5, <2>6
  <1>7. QED
    BY <1>5, <1>6

\* A write of the other client is later than everything covered so far.
LEMMA OtherWritesKeeps ==
    ASSUME PagingAssumption, PagesInv, NEW u \in UUID, OtherWrites(u)
    PROVE  PagesInv'
  <1> USE DEF PagesInv
  <1>1. /\ pc = "request" /\ server' = [server EXCEPT ![u] = clock + 1]
        /\ clock' = clock + 1 /\ writes' = writes + 1
        /\ UNCHANGED <<base, token, pageSize, nextItem, attempt, pc, call, out,
                       answered, stored, tick>>
    BY DEF OtherWrites, inputVars, retryVars
  <1>2. clock \in Nat /\ server \in [UUID -> Nat] /\ call \in Call
    BY DEF TypeOK
  <1>3. call.syncToken \in Nat /\ call.cursor \in Nat /\ token \in Nat
    BY <1>2 DEF Call, TypeOK
  <1>4. /\ token <= clock' /\ call.syncToken <= clock' /\ call.cursor <= clock'
        /\ Reached \in Nat /\ Reached <= clock
    BY <1>1, <1>2, <1>3 DEF TimesOrdered, Reached
  <1>5. server' \in [UUID -> Nat] /\ \A v \in UUID : server'[v] <= clock'
    <2>1. \A v \in UUID : server[v] <= clock
      BY DEF TimesOrdered
    <2>2. ASSUME NEW v \in UUID
          PROVE  server'[v] \in Nat /\ server'[v] <= clock'
      BY <1>1, <1>2, <2>1
    <2>3. QED
      BY <1>1, <1>2, <2>2
  <1>6. TypeOK'
    BY <1>1, <1>2, <1>5 DEF TypeOK
  <1>7. LargePages' /\ AnsweredSoFar' /\ PushesAnswered'
    BY <1>1 DEF LargePages, AnsweredSoFar, PushesAnswered
  <1>8. TimesOrdered'
    BY <1>1, <1>4, <1>5 DEF TimesOrdered
  <1>9. CoveredSoFar'
    <2> SUFFICES ASSUME NEW v \in UUID, server'[v] > token, server'[v] <= Reached
                 PROVE  [uuid |-> v, ts |-> server'[v]] \in
                            out.items \cup out.saved \cup out.conflicts
      BY <1>1 DEF CoveredSoFar, Reached
    <2>1. v # u
      BY <1>1, <1>2, <1>4
    <2>2. server'[v] = server[v]
      BY <1>1, <1>2, <2>1
    <2>3. QED
      BY <1>1, <2>2 DEF CoveredSoFar
  <1>10. QED
    BY <1>6, <1>7, <1>8, <1>9

\* An error that ends the sync leaves nothing to show.
LEMMA FatalErrorKeeps ==
    ASSUME PagingAssumption, PagesInv, FatalError, tick' = ~tick
    PROVE  PagesInv'
  <1> USE DEF PagesInv
  <1>1. /\ pc' = "failed" /\ out' = NoOutput
        /\ UNCHANGED <<server, clock, writes, base, token, pageSize, nextItem, attempt,
                       call, answered, stored>>
    BY DEF FatalError, serverVars, inputVars, retryVars
  <1>2. NoOutput \in Output /\ NoOutput.lastItemPut = 0 /\ N \in Nat
    BY PushType DEF NoOutput, Output
  <1>3. TypeOK'
    BY <1>1, <1>2 DEF TypeOK
  <1>4. LargePages' /\ TimesOrdered' /\ CoveredSoFar' /\ PushesAnswered'
    BY <1>1 DEF LargePages, TimesOrdered, CoveredSoFar, PushesAnswered
  <1>5. AnsweredSoFar'
    <2>1. \A k \in 1..N : ~(k <= 0)
      BY <1>2
    <2>2. QED
      BY <1>1, <1>2, <2>1 DEF AnsweredSoFar
  <1>6. QED
    BY <1>3, <1>4, <1>5

---------------------------------------------------------------------------
(* The theorems. *)

\* syncItems starts with nothing covered, nothing answered and the default page.
LEMMA InitPaging ==
    ASSUME PagingAssumption, Init
    PROVE  PagesInv
  <1>1. N \in Nat /\ InitialClock \in Nat /\ InitialServer \in [UUID -> Nat]
    BY PushType DEF PagingAssumption
  <1>2. MaxAttempts \in Nat /\ 1 <= MaxAttempts /\ PageSizes[0] = 0
    BY DEF PagingAssumption
  <1>3. token \in Nat /\ token <= InitialClock
    BY <1>1 DEF Init
  <1>4. call = [pageSize |-> 0, nextItem |-> 0, syncToken |-> token, cursor |-> 0, first |-> TRUE]
    BY DEF Init
  <1>5. out = NoOutput /\ NoOutput \in Output /\ out.lastItemPut = 0
    BY <1>1 DEF Init, NoOutput, Output
  <1>6. TypeOK
    <2>1. base \in [Pushed -> Nat]
      BY <1>1 DEF Init
    <2>2. call \in Call /\ 1 \in 1..MaxAttempts /\ 0 \in 0..N
      BY <1>1, <1>2, <1>3, <1>4 DEF Call
    <2>3. QED
      BY <1>1, <1>3, <1>5, <2>1, <2>2 DEF Init, TypeOK
  <1>7. LargePages
    BY <1>2, <1>4 DEF Init, LargePages
  <1>8. TimesOrdered
    BY <1>1, <1>3, <1>4 DEF Init, TimesOrdered, PagingAssumption
  <1>9. CoveredSoFar
    <2>1. Reached = token
      BY <1>4 DEF Reached
    <2>2. \A u \in UUID : ~(server[u] > token /\ server[u] <= token)
      BY <1>3, <1>6 DEF TypeOK
    <2>3. QED
      BY <2>1, <2>2 DEF CoveredSoFar
  <1>10. AnsweredSoFar /\ PushesAnswered
    <2>1. nextItem = 0 /\ call.nextItem = 0 /\ out.lastItemPut = 0 /\ pc = "request"
      BY <1>4, <1>5 DEF Init
    <2>2. \A k \in 1..N : ~(k <= 0)
      BY <1>1
    <2>3. \A k \in (0 + 1)..0 : FALSE
      OBVIOUS
    <2>4. QED
      BY <2>1, <2>2, <2>3 DEF AnsweredSoFar, PushesAnswered
  <1>11. QED
    BY <1>6, <1>7, <1>8, <1>9, <1>10 DEF PagesInv

\* Every step keeps the invariant.
LEMMA StepPaging ==
    ASSUME PagingAssumption, PagesInv, [Next]_vars
    PROVE  PagesInv'
  <1>1. CASE UNCHANGED vars
    BY <1>1 DEF vars, serverVars, inputVars, retryVars, PagesInv, TypeOK, LargePages,
                TimesOrdered, CoveredSoFar, Reached, AnsweredSoFar, PushesAnswered
  <1>2. ASSUME NEW u \in UUID, OtherWrites(u)
        PROVE  PagesInv'
    BY <1>2, OtherWritesKeeps
  <1>3. ASSUME NEW limit \in Limits, PageAnswered(limit), tick' = ~tick
        PROVE  PagesInv'
    BY <1>3, PageAnsweredType, PageAnsweredOrder, PageAnsweredCovers, PageAnsweredAnswers
       DEF PagesInv
  <1>4. ASSUME NEW limit \in Limits, AnswerLost(limit), tick' = ~tick
        PROVE  PagesInv'
    <2>1. TypeOK /\ LargePages /\ TimesOrdered /\ pc = "request" /\ Retry(Resized(pageSize), out.lastItemPut)
      BY <1>4 DEF PagesInv, AnswerLost
    <2>2. Accepted(Sent(limit)) \in SUBSET Pushed
      BY SentItems DEF Accepted
    <2>3. /\ server' \in [UUID -> Nat] /\ clock' \in Nat /\ clock <= clock'
          /\ \A u \in UUID : server'[u] <= clock'
          /\ writes' \in Nat /\ stored' \subseteq Pushed
      BY <1>4, <2>1, <2>2, StoresType DEF AnswerLost
    <2>4. CASE attempt < MaxAttempts
      <3>1. /\ Resized(pageSize) \in Nat /\ Resized(pageSize) # 1
            /\ \E n \in 0..attempt : Resized(pageSize) = PageSizes[n]
        BY <2>1, <2>4, ResizedLarge
      <3>2. QED
        BY <1>4, <2>1, <2>3, <3>1, RetryKeeps
    <2>5. CASE ~(attempt < MaxAttempts)
      <3>1. Retry(2, out.lastItemPut)
        BY <2>1, <2>5 DEF Retry
      <3>2. QED
        BY <1>4, <2>1, <2>3, <2>5, <3>1, RetryKeeps
    <2>6. QED
      BY <2>4, <2>5
  <1>5. ASSUME PageRefused, tick' = ~tick
        PROVE  PagesInv'
    <2>1. TypeOK /\ LargePages /\ TimesOrdered /\ pc = "request" /\ Retry(Resized(pageSize), out.lastItemPut)
      BY <1>5 DEF PagesInv, PageRefused
    <2>2. /\ server' \in [UUID -> Nat] /\ clock' \in Nat /\ clock <= clock'
          /\ \A u \in UUID : server'[u] <= clock'
          /\ writes' \in Nat /\ stored' \subseteq Pushed
      BY <1>5, <2>1 DEF PageRefused, serverVars, TypeOK, TimesOrdered
    <2>3. CASE attempt < MaxAttempts
      <3>1. /\ Resized(pageSize) \in Nat /\ Resized(pageSize) # 1
            /\ \E n \in 0..attempt : Resized(pageSize) = PageSizes[n]
        BY <2>1, <2>3, ResizedLarge
      <3>2. QED
        BY <1>5, <2>1, <2>2, <3>1, RetryKeeps
    <2>4. CASE ~(attempt < MaxAttempts)
      <3>1. Retry(2, out.lastItemPut)
        BY <2>1, <2>4 DEF Retry
      <3>2. QED
        BY <1>5, <2>1, <2>2, <2>4, <3>1, RetryKeeps
    <2>5. QED
      BY <2>3, <2>4
  <1>6. ASSUME ServerError, tick' = ~tick
        PROVE  PagesInv'
    <2>1. TypeOK /\ LargePages /\ TimesOrdered /\ pc = "request" /\ Retry(pageSize, nextItem)
      BY <1>6 DEF PagesInv, ServerError
    <2>2. /\ server' \in [UUID -> Nat] /\ clock' \in Nat /\ clock <= clock'
          /\ \A u \in UUID : server'[u] <= clock'
          /\ writes' \in Nat /\ stored' \subseteq Pushed
      BY <1>6, <2>1 DEF ServerError, serverVars, TypeOK, TimesOrdered
    <2>3. PICK n \in 0..(attempt - 1) : pageSize = PageSizes[n]
      BY <2>1 DEF LargePages
    <2>4. n \in 0..attempt /\ n \in 0..(MaxAttempts - 1)
      BY <2>1, <2>3 DEF TypeOK, PagingAssumption
    <2>5. pageSize \in Nat /\ pageSize # 1
      <3>1. CASE n = 0
        BY <2>3, <3>1 DEF PagingAssumption
      <3>2. CASE n # 0
        <4>1. n \in 1..(MaxAttempts - 1)
          BY <2>4, <3>2
        <4>2. PageSizes[n] > 1 /\ PageSizes[n] \in Nat
          BY <2>4, <4>1 DEF PagingAssumption
        <4>3. QED
          BY <2>3, <4>2
      <3>3. QED
        BY <3>1, <3>2
    <2>6. \E m \in 0..attempt : pageSize = PageSizes[m]
      BY <2>3, <2>4
    <2>7. QED
      BY <1>6, <2>1, <2>2, <2>5, <2>6, RetryKeeps
  <1>7. ASSUME FatalError, tick' = ~tick
        PROVE  PagesInv'
    BY <1>7, FatalErrorKeeps
  <1>8. QED
    BY <1>1, <1>2, <1>3, <1>4, <1>5, <1>6, <1>7 DEF Next, Request

\* Reached, answered and covered in step: the invariant holds in every state of
\* syncItems, for any list of items, page sizes and number of attempts.
THEOREM PagesInductive == Spec => []PagesInv
  <1>1. Init => PagesInv
    BY PagingAssumption, InitPaging
  <1>2. PagesInv /\ [Next]_vars => PagesInv'
    BY PagingAssumption, StepPaging
  <1>3. QED
    BY <1>1, <1>2, PTL DEF Spec

\* No pushed item falls between two pages or between an attempt and its retry.
THEOREM NoneSkipped == Spec => []PushesAnswered
  <1>1. PagesInv => PushesAnswered
    BY DEF PagesInv
  <1>2. QED
    BY <1>1, PagesInductive, PTL

\* The token syncItems returns may replace the one it was called with.
THEOREM NoneMissed == Spec => []ChangesCovered
  <1>1. ASSUME PagesInv, pc = "done", NEW u \in UUID, server[u] > token
        PROVE  [uuid |-> u, ts |-> server[u]] \in out.items \cup out.saved \cup out.conflicts
    <2>1. Reached = clock
      BY <1>1 DEF PagesInv, TimesOrdered, Reached
    <2>2. server[u] <= Reached
      BY <1>1, <2>1 DEF PagesInv, TimesOrdered
    <2>3. QED
      BY <1>1, <2>2 DEF PagesInv, CoveredSoFar
  <1>2. PagesInv => ChangesCovered
    BY <1>1 DEF ChangesCovered
  <1>3. QED
    BY <1>2, PagesInductive, PTL

---------------------------------------------------------------------------
(* A syncItems that needs no retry is one exchange. *)

\* A request sends what follows what was pushed so far, and nothing twice.
LEMMA SentNext ==
    ASSUME PagingAssumption, PagesInv, N # 1, NEW limit \in Limits, PageAnswered(limit)
    PROVE  /\ PushedSoFar \subseteq Pushed /\ Sent(limit) \subseteq Pushed
           /\ \A u \in Sent(limit) : u \notin PushedSoFar
           /\ PushedSoFar' = PushedSoFar \cup Sent(limit)
  <1> DEFINE final == FinalItem(limit)
             next == call.nextItem
             To(n) == {Push[k] : k \in 1..n}
  <1>1. limit \in Nat /\ limit > 1 /\ N \in Nat /\ next \in Nat /\ next <= N
    BY LimitsLarge, PushType DEF PagesInv, TypeOK, Call
  <1>2. final \in Nat /\ final <= N /\ (final > 0 => final < N) /\ (final = 0 => N = 0)
    BY <1>1, FinalItemType, PushType DEF PagesInv
  <1>3. N > 0 => next <= final + 1
    BY <1>1 DEF FinalItem
  <1>4. pc = "request" /\ PushedSoFar = To(next)
    BY DEF PageAnswered, PushedSoFar
  <1>5. Sent(limit) = {Push[k] : k \in {j \in 1..N : next < j /\ j <= final + 1}}
    BY DEF Sent
  <1>6. \A j, k \in 1..N : Push[j] = Push[k] => j = k
    BY DEF PagingAssumption
  <1> HIDE DEF final, next
  <1>7. To(next) \subseteq Pushed /\ Sent(limit) \subseteq Pushed
    BY <1>1, <1>5 DEF Pushed
  <1>8. ASSUME NEW u \in Sent(limit) PROVE u \notin To(next)
    <2>1. PICK k \in 1..N : next < k /\ u = Push[k]
      BY <1>5
    <2>2. \A j \in 1..next : j \in 1..N /\ j # k
      BY <1>1, <2>1
    <2> QED
      BY <1>6, <2>1, <2>2
  <1>9. ASSUME NEW n \in Nat, N = 0 => n = 0, N > 0 => n = final + 1
        PROVE  To(n) = To(next) \cup Sent(limit)
    <2>1. CASE N = 0
      <3>1. next = 0 /\ n = 0
        BY <1>1, <1>9, <2>1
      <3> QED
        BY <1>5, <2>1, <3>1
    <2>2. CASE N > 0
      <3>1. n = final + 1 /\ next <= n /\ n <= N
        BY <1>1, <1>2, <1>3, <1>9, <2>2
      <3>2. \A k : k \in 1..n <=> k \in 1..next \/ (k \in 1..N /\ next < k /\ k <= final + 1)
        BY <1>1, <1>2, <3>1
      <3> HIDE DEF To
      <3>3. ASSUME NEW u \in To(n) PROVE u \in To(next) \/ u \in Sent(limit)
        <4>1. PICK k \in 1..n : u = Push[k]
          BY DEF To
        <4>2. CASE k \in 1..next
          BY <4>1, <4>2 DEF To
        <4>3. CASE k \in 1..N /\ next < k /\ k <= final + 1
          BY <1>5, <4>1, <4>3
        <4> QED
          BY <3>2, <4>2, <4>3
      <3>4. \A u \in To(next) : u \in To(n)
        BY <3>2 DEF To
      <3>5. ASSUME NEW u \in Sent(limit) PROVE u \in To(n)
        <4>1. PICK k \in 1..N : next < k /\ k <= final + 1 /\ u = Push[k]
          BY <1>5
        <4> QED
          BY <3>2, <4>1 DEF To
      <3> QED
        BY <3>3, <3>4, <3>5
    <2>3. N = 0 \/ N > 0
      BY <1>1
    <2> QED
      BY <2>1, <2>2, <2>3
  <1>10. PushedSoFar' = To(next) \cup Sent(limit)
    <2>1. CASE Goes(limit)
      <3>1. pc' = "request" /\ call'.nextItem = ItemAfter(final)
        BY <2>1 DEF PageAnswered, final
      <3>2. PushedSoFar' = To(ItemAfter(final))
        BY <3>1 DEF PushedSoFar
      <3>3. ItemAfter(final) = IF final > 0 THEN final + 1 ELSE next
        BY DEF ItemAfter, next
      <3>4. /\ ItemAfter(final) \in Nat /\ (N = 0 => ItemAfter(final) = 0)
            /\ N > 0 => ItemAfter(final) = final + 1
        BY <1>1, <1>2, <3>3
      <3> QED
        BY <1>9, <3>2, <3>4
    <2>2. CASE ~Goes(limit)
      <3>1. pc' = "done" /\ ~(final > 0 /\ final < N - 1)
        BY <2>2 DEF PageAnswered, Goes, final
      <3>2. N > 0 => N = final + 1
        BY <1>1, <1>2, <3>1
      <3>3. PushedSoFar' = To(N)
        BY <3>1 DEF PushedSoFar, Pushed
      <3> QED
        BY <1>1, <1>9, <3>2, <3>3
    <2> QED
      BY <2>1, <2>2
  <1> QED
    BY <1>4, <1>7, <1>8, <1>10

\* A single item is sent with every page.
LEMMA SentSingle ==
    ASSUME PagingAssumption, PagesInv, N = 1, call.nextItem = 0, NEW limit \in Limits, PageAnswered(limit)
    PROVE  /\ PushedSoFar = IF call.first THEN {} ELSE Pushed
           /\ Sent(limit) = Pushed
           /\ PushedSoFar' = Pushed
           /\ call'.nextItem = 0
  <1>1. FinalItem(limit) = 0
    <2>1. limit \in Nat /\ limit > 1
      BY LimitsLarge DEF PagesInv
    <2> QED
      BY <2>1 DEF FinalItem
  <1>2. Sent(limit) = Pushed
    BY <1>1 DEF Sent, Pushed
  <1>3. pc = "request" /\ PushedSoFar = IF call.first THEN {} ELSE Pushed
    <2>1. pc = "request" /\ {Push[k] : k \in 1..call.nextItem} = {}
      BY DEF PageAnswered
    <2> QED
      BY <2>1 DEF PushedSoFar
  <1>4. ItemAfter(FinalItem(limit)) = 0
    BY <1>1 DEF ItemAfter
  <1>5. CASE Goes(limit)
    <2>1. call'.nextItem = 0 /\ call'.first = FALSE
      BY <1>4, <1>5 DEF PageAnswered
    <2> QED
      BY <1>2, <1>3, <2>1 DEF PushedSoFar
  <1>6. CASE ~Goes(limit)
    <2>1. pc' = "done" /\ call' = [call EXCEPT !.syncToken = clock', !.cursor = 0]
      BY <1>6 DEF PageAnswered
    <2>2. call'.nextItem = 0
      BY <2>1
    <2> QED
      BY <1>2, <1>3, <2>1, <2>2 DEF PushedSoFar
  <1> QED
    BY <1>5, <1>6

\* No page goes back behind the token.
LEMMA ReachedStays ==
    ASSUME PagingAssumption, PagesInv, NEW limit \in Limits, PageAnswered(limit), token <= Reached
    PROVE  pc' = "request" => token <= Reached'
  <1> SUFFICES ASSUME pc' = "request" PROVE token <= Reached'
    OBVIOUS
  <1>1. PICK cursor \in NextCursors(limit) :
            call' = [pageSize |-> limit, nextItem |-> ItemAfter(FinalItem(limit)),
                     syncToken |-> clock', cursor |-> cursor, first |-> FALSE]
    BY DEF PageAnswered
  <1>2. Reached' = IF cursor # 0 THEN cursor ELSE clock'
    BY <1>1 DEF Reached
  <1>3. token \in Nat /\ token <= clock
    BY DEF PagesInv, TypeOK, TimesOrdered
  <1>4. CASE cursor = 0
    <2>1. Accepted(Sent(limit)) \in SUBSET Pushed
      BY DEF Accepted, Sent, Pushed
    <2>2. clock <= clock' /\ clock \in Nat /\ clock' \in Nat
      BY <2>1, StoresType DEF PageAnswered, PagesInv, TypeOK
    <2> QED
      BY <1>2, <1>3, <1>4, <2>2
  <1>5. CASE cursor # 0
    <2>1. limit \in Nat
      BY LimitsLarge DEF PagesInv
    <2>2. PICK w \in Page(limit) : cursor = server[w]
      BY <1>5, <2>1, CursorType DEF PagesInv
    <2>3. w \in UUID /\ server[w] > Reached
      BY <2>2 DEF Page, Changed, Reached
    <2>4. server[w] \in Nat /\ Reached \in Nat
      BY <2>3 DEF PagesInv, TypeOK, Call, Reached
    <2> QED
      BY <1>2, <1>3, <1>5, <2>2, <2>3, <2>4
  <1> QED
    BY <1>4, <1>5

\* The server answers each page as it would have answered all of the push at first.
LEMMA PageAtOnce ==
    ASSUME PagingAssumption, PagesInv, AtOnceSoFar, NEW limit \in Limits, PageAnswered(limit),
           N # 1 \/ call.first
    PROVE  AtOnceSoFar'
  <1> DEFINE sent == Sent(limit)
             accepted == sent \ Refuses(sent)
  <1> SUFFICES ASSUME Undisturbed' PROVE AtOnceSoFar'
    BY DEF AtOnceSoFar
  <1>1. /\ pc = "request" /\ base' = base /\ token' = token
        /\ attempt' = attempt /\ writes' = writes
    BY DEF PageAnswered, Stores, inputVars, retryVars
  <1>2. Undisturbed
    BY <1>1 DEF Undisturbed
  <1>3. /\ stored = PushedSoFar \ Refuses(PushedSoFar)
        /\ out.saved = Versions(stored)
        /\ AtFirst(Refuses(PushedSoFar)) \subseteq out.conflicts
        /\ out.conflicts \subseteq AtFirst(Refuses(PushedSoFar)) \cup OwnConflicts
        /\ \A v \in out.items :
              IF v.uuid \in stored THEN v \in out.saved \cup AtFirst({v.uuid})
              ELSE v \in AtFirst({v.uuid}) /\ v.ts > token
        /\ \A u \in UUID \ stored : server[u] = InitialServer[u]
        /\ \A u \in Pushed : base[u] <= clock
        /\ \A u \in stored : base[u] < server[u]
        /\ N = 1 => call.nextItem = 0
        /\ token <= Reached
    BY <1>1, <1>2 DEF AtOnceSoFar
  <1>4. /\ PushedSoFar \subseteq Pushed /\ sent \subseteq Pushed /\ Pushed \subseteq UUID
        /\ \A u \in sent : u \notin PushedSoFar
        /\ PushedSoFar' = PushedSoFar \cup sent
        /\ N = 1 => call'.nextItem = 0
    <2>1. CASE N # 1
      BY <2>1, SentNext, PushType
    <2>2. CASE N = 1
      <3>1. call.first /\ call.nextItem = 0
        BY <1>3, <2>2
      <3>2. PushedSoFar = {} /\ sent = Pushed /\ PushedSoFar' = Pushed /\ call'.nextItem = 0
        BY <2>2, <3>1, SentSingle
      <3> QED
        BY <3>2, PushType
    <2> QED
      BY <2>1, <2>2
  <1>5. \A u \in sent : Stale(u) <=> StaleAtFirst(u)
    <2>1. \A u \in sent : u \in UUID \ stored
      BY <1>3, <1>4
    <2> QED
      BY <1>3, <2>1 DEF Stale, StaleAtFirst
  <1>6. Accepted(sent) = accepted /\ Conflicting(sent) = Refuses(sent)
    BY <1>5 DEF Accepted, Conflicting, Refuses
  <1>7. accepted \in SUBSET Pushed
    BY <1>4
  <1>8. /\ stored' = stored \cup accepted
        /\ \A u \in UUID \ accepted : server'[u] = server[u]
        /\ clock <= clock' /\ clock \in Nat /\ clock' \in Nat
    <2>1. Stores(accepted)
      BY <1>6 DEF PageAnswered
    <2> QED
      BY <1>7, <2>1, StoresType DEF Stores, PagesInv, TypeOK
  <1>9. /\ out'.items = out.items \cup Versions(Page(limit) \ Conflicting(sent))
        /\ out'.saved = out.saved \cup {[uuid |-> u, ts |-> server'[u]] : u \in accepted}
        /\ out'.conflicts = out.conflicts \cup Versions(Refuses(sent))
    BY <1>6 DEF PageAnswered
  <1>10. (\A u : StaleAtFirst(u)' <=> StaleAtFirst(u)) /\ \A S : Refuses(S)' = Refuses(S)
    BY <1>1 DEF StaleAtFirst, Refuses
  <1> HIDE DEF sent, accepted
  <1>11. stored' = PushedSoFar' \ Refuses(PushedSoFar)'
    <2>1. Refuses(PushedSoFar \cup sent) = Refuses(PushedSoFar) \cup Refuses(sent)
      BY DEF Refuses
    <2>2. (PushedSoFar \cup sent) \ Refuses(PushedSoFar \cup sent)
            = (PushedSoFar \ Refuses(PushedSoFar)) \cup (sent \ Refuses(sent))
      BY DEF Refuses
    <2>3. Refuses(PushedSoFar)' = Refuses(PushedSoFar \cup sent)
      BY <1>1, <1>4 DEF Refuses, StaleAtFirst
    <2> QED
      BY <1>3, <1>4, <1>8, <2>2, <2>3 DEF accepted
  <1>12. out'.saved = Versions(stored)'
    <2>1. \A u \in stored : u \in UUID \ accepted
      BY <1>3, <1>4 DEF accepted
    <2>2. \A u \in stored : server'[u] = server[u]
      BY <1>8, <2>1
    <2> QED
      BY <1>3, <1>8, <1>9, <2>2 DEF Versions
  <1>13. /\ AtFirst(Refuses(PushedSoFar))' \subseteq out'.conflicts
         /\ out'.conflicts \subseteq AtFirst(Refuses(PushedSoFar))' \cup OwnConflicts'
    <2>1. \A u \in Refuses(sent) : server[u] = InitialServer[u]
      BY <1>3, <1>4 DEF Refuses
    <2>2. Versions(Refuses(sent)) = AtFirst(Refuses(sent))
      BY <2>1 DEF Versions, AtFirst
    <2>3. Refuses(PushedSoFar)' = Refuses(PushedSoFar) \cup Refuses(sent)
      BY <1>1, <1>4 DEF Refuses, StaleAtFirst
    <2>4. OwnConflicts \subseteq OwnConflicts'
      BY <1>9 DEF OwnConflicts
    <2>5. AtFirst(Refuses(PushedSoFar))' =
            AtFirst(Refuses(PushedSoFar)) \cup AtFirst(Refuses(sent))
      BY <2>3 DEF AtFirst
    <2> QED
      BY <1>3, <1>9, <2>2, <2>4, <2>5
  <1>14. ASSUME NEW u \in Changed
         PROVE  server[u] > token /\ u \in UUID
    <2>1. server[u] > Reached /\ u \in UUID
      BY DEF Changed, Reached
    <2>2. server[u] \in Nat /\ Reached \in Nat /\ token \in Nat
      BY <2>1 DEF PagesInv, TypeOK, Call, Reached
    <2> QED
      BY <1>3, <2>1, <2>2
  <1>15. ASSUME NEW v \in out'.items
         PROVE  IF v.uuid \in stored' THEN v \in out'.saved \cup AtFirst({v.uuid})
                ELSE v \in AtFirst({v.uuid}) /\ v.ts > token
    <2>1. CASE v \in out.items
      BY <1>3, <1>8, <1>9, <2>1
    <2>2. CASE v \in Versions(Page(limit) \ Conflicting(sent))
      <3>1. PICK u \in Changed : v = [uuid |-> u, ts |-> server[u]]
        BY <2>2 DEF Versions, Page
      <3>2. v.uuid = u /\ v.ts > token /\ u \in UUID
        BY <1>14, <3>1
      <3>3. CASE u \in stored
        BY <1>3, <1>8, <1>9, <3>1, <3>2, <3>3 DEF Versions
      <3>4. CASE u \notin stored
        <4>1. v \in AtFirst({u})
          BY <1>3, <3>1, <3>2, <3>4 DEF AtFirst
        <4> QED
          BY <3>2, <4>1
      <3> QED
        BY <3>3, <3>4
    <2> QED
      BY <1>9, <2>1, <2>2
  <1>16. \A u \in UUID \ stored' : server'[u] = InitialServer[u]
    BY <1>3, <1>8
  <1>17. pc' = "request" => token <= Reached'
    BY <1>3, ReachedStays
  <1>18. ASSUME NEW u \in Pushed PROVE base'[u] <= clock'
    <2>1. base[u] <= clock /\ base[u] \in Nat
      BY <1>3 DEF PagesInv, TypeOK
    <2> QED
      BY <1>1, <1>8, <2>1
  <1>19. ASSUME NEW u \in stored' PROVE base'[u] < server'[u]
    <2>1. CASE u \in accepted
      <3>1. Stores(accepted) /\ u \in UUID
        BY <1>4, <1>6, <1>7, <2>1 DEF PageAnswered, sent
      <3>2. server'[u] = clock + Position(u)
        BY <2>1, <3>1 DEF Stores
      <3>3. Position(u) \in 1..N /\ N \in Nat
        BY <1>7, <2>1, PositionType, PushType
      <3>4. base[u] <= clock /\ base[u] \in Nat
        BY <1>3, <1>7, <2>1 DEF PagesInv, TypeOK
      <3> QED
        BY <1>1, <1>8, <3>2, <3>3, <3>4
    <2>2. CASE u \notin accepted
      <3>1. u \in stored /\ u \in UUID
        BY <1>3, <1>4, <1>8, <2>2
      <3> QED
        BY <1>1, <1>3, <1>8, <2>2, <3>1
    <2> QED
      BY <2>1, <2>2
  <1> QED
    <2>1. \A v \in out'.items :
             IF v.uuid \in stored' THEN v \in out'.saved \cup AtFirst({v.uuid})'
             ELSE v \in AtFirst({v.uuid})' /\ v.ts > token'
      BY <1>1, <1>15 DEF AtFirst
    <2> QED
      BY <1>1, <1>4, <1>11, <1>12, <1>13, <1>16, <1>17, <1>18, <1>19, <2>1 DEF AtOnceSoFar

\* A single item that was put is put again, and refused.
LEMMA PageAgain ==
    ASSUME PagingAssumption, PagesInv, AtOnceSoFar, NEW limit \in Limits, PageAnswered(limit),
           N = 1, ~call.first
    PROVE  AtOnceSoFar'
  <1> SUFFICES ASSUME Undisturbed' PROVE AtOnceSoFar'
    BY DEF AtOnceSoFar
  <1>1. /\ pc = "request" /\ base' = base /\ token' = token
        /\ attempt' = attempt /\ writes' = writes
    BY DEF PageAnswered, Stores, inputVars, retryVars
  <1>2. Undisturbed
    BY <1>1 DEF Undisturbed
  <1>3. call.nextItem = 0 /\ token <= Reached
    BY <1>1, <1>2 DEF AtOnceSoFar
  <1>4. /\ PushedSoFar = Pushed /\ PushedSoFar' = Pushed /\ Sent(limit) = Pushed
        /\ call'.nextItem = 0 /\ Pushed \subseteq UUID
    BY <1>3, SentSingle, PushType
  <1>5. /\ stored = Pushed \ Refuses(Pushed)
        /\ out.saved = Versions(stored)
        /\ AtFirst(Refuses(Pushed)) \subseteq out.conflicts
        /\ out.conflicts \subseteq AtFirst(Refuses(Pushed)) \cup OwnConflicts
        /\ \A v \in out.items :
              IF v.uuid \in stored THEN v \in out.saved \cup AtFirst({v.uuid})
              ELSE v \in AtFirst({v.uuid}) /\ v.ts > token
        /\ \A u \in UUID \ stored : server[u] = InitialServer[u]
        /\ \A u \in Pushed : base[u] <= clock
        /\ \A u \in stored : base[u] < server[u]
    BY <1>1, <1>2, <1>4 DEF AtOnceSoFar
  <1>6. ASSUME NEW u \in Pushed PROVE Stale(u)
    <2>1. CASE u \in stored
      <3>1. base[u] < server[u] /\ base[u] \in Nat /\ server[u] \in Nat
        BY <1>4, <1>5, <2>1 DEF PagesInv, TypeOK
      <3> QED
        BY <3>1 DEF Stale
    <2>2. CASE u \notin stored
      <3>1. u \in Refuses(Pushed) /\ server[u] = InitialServer[u]
        BY <1>4, <1>5, <2>2
      <3> QED
        BY <3>1 DEF Stale, Refuses, StaleAtFirst
    <2> QED
      BY <2>1, <2>2
  <1>7. Accepted(Sent(limit)) = {} /\ Conflicting(Sent(limit)) = Pushed
    BY <1>4, <1>6 DEF Accepted, Conflicting
  <1>8. stored' = stored /\ clock' = clock /\ \A u \in UUID : server'[u] = server[u]
    BY <1>7 DEF PageAnswered, Stores
  <1>9. /\ out'.items = out.items \cup Versions(Page(limit) \ Pushed)
        /\ out'.saved = out.saved
        /\ out'.conflicts = out.conflicts \cup Versions(Pushed)
    <2>1. out'.saved = out.saved \cup {[uuid |-> u, ts |-> server'[u]] : u \in {}}
      BY <1>7 DEF PageAnswered
    <2> QED
      BY <1>7, <2>1 DEF PageAnswered
  <1>10. /\ Refuses(PushedSoFar)' = Refuses(Pushed)
         /\ AtFirst(Refuses(PushedSoFar))' = AtFirst(Refuses(Pushed))
    BY <1>1, <1>4 DEF Refuses, StaleAtFirst, AtFirst
  <1>11. OwnConflicts = out.saved /\ OwnConflicts' = out.saved
    BY <1>9 DEF OwnConflicts
  <1>12. Versions(Pushed) \subseteq AtFirst(Refuses(Pushed)) \cup out.saved
    <2>1. ASSUME NEW u \in Pushed
          PROVE  [uuid |-> u, ts |-> server[u]] \in AtFirst(Refuses(Pushed)) \cup out.saved
      <3>1. CASE u \in stored
        BY <1>5, <3>1 DEF Versions
      <3>2. CASE u \notin stored
        <4>1. u \in Refuses(Pushed) /\ server[u] = InitialServer[u]
          BY <1>4, <1>5, <3>2
        <4> QED
          BY <4>1 DEF AtFirst
      <3> QED
        BY <3>1, <3>2
    <2> QED
      BY <2>1 DEF Versions
  <1>13. out'.saved = Versions(stored)'
    <2>1. stored \subseteq UUID
      BY <1>4, <1>5
    <2> QED
      BY <1>5, <1>8, <1>9, <2>1 DEF Versions
  <1>14. ASSUME NEW v \in out'.items
         PROVE  IF v.uuid \in stored THEN v \in out.saved \cup AtFirst({v.uuid})
                ELSE v \in AtFirst({v.uuid}) /\ v.ts > token
    <2>1. CASE v \in out.items
      BY <1>5, <2>1
    <2>2. CASE v \in Versions(Page(limit) \ Pushed)
      <3>1. PICK u \in Changed \ Pushed : v = [uuid |-> u, ts |-> server[u]]
        BY <2>2 DEF Versions, Page
      <3>2. u \in UUID /\ u \notin stored /\ server[u] > Reached
        BY <1>5, <3>1 DEF Changed, Reached
      <3>3. server[u] \in Nat /\ Reached \in Nat /\ token \in Nat
        BY <3>2 DEF PagesInv, TypeOK, Call, Reached
      <3>4. server[u] > token /\ server[u] = InitialServer[u]
        BY <1>3, <1>5, <3>2, <3>3
      <3>5. v.uuid = u /\ v.ts = server[u] /\ v = [uuid |-> u, ts |-> InitialServer[u]]
        BY <3>1, <3>4
      <3> QED
        BY <3>2, <3>4, <3>5 DEF AtFirst
    <2> QED
      BY <1>9, <2>1, <2>2
  <1>15. pc' = "request" => token <= Reached'
    BY <1>3, ReachedStays
  <1> QED
    <2>1. \A v \in out'.items :
             IF v.uuid \in stored' THEN v \in out'.saved \cup AtFirst({v.uuid})'
             ELSE v \in AtFirst({v.uuid})' /\ v.ts > token'
      BY <1>1, <1>8, <1>9, <1>14 DEF AtFirst
    <2>2. stored' = PushedSoFar' \ Refuses(PushedSoFar)'
      BY <1>4, <1>5, <1>8, <1>10
    <2>3. /\ AtFirst(Refuses(PushedSoFar))' \subseteq out'.conflicts
          /\ out'.conflicts \subseteq AtFirst(Refuses(PushedSoFar))' \cup OwnConflicts'
      BY <1>5, <1>9, <1>10, <1>11, <1>12
    <2>4. /\ \A u \in UUID \ stored' : server'[u] = InitialServer[u]
          /\ \A u \in Pushed : base'[u] <= clock'
          /\ \A u \in stored' : base'[u] < server'[u]
      <3>1. stored \subseteq UUID
        BY <1>4, <1>5
      <3> QED
        BY <1>1, <1>5, <1>8, <3>1
    <2> QED
      BY <1>1, <1>4, <1>13, <1>15, <2>1, <2>2, <2>3, <2>4 DEF AtOnceSoFar

\* A retry or a write of the other client ends what could have been one exchange.
LEMMA StepAtOnce ==
    ASSUME PagingAssumption, PagesInv, AtOnceSoFar, [Next]_vars
    PROVE  AtOnceSoFar'
  <1>0. attempt \in Nat /\ attempt >= 1 /\ writes \in Nat
    BY DEF PagesInv, TypeOK, PagingAssumption
  <1>1. ASSUME NEW p, NEW n, Retry(p, n) PROVE AtOnceSoFar'
    <2>1. pc' = "failed" \/ attempt' = attempt + 1
      BY <1>1 DEF Retry
    <2>2. attempt' = attempt + 1 => attempt' # 1
      BY <1>0
    <2> QED
      BY <2>1, <2>2 DEF AtOnceSoFar, Undisturbed
  <1>2. ASSUME NEW limit \in Limits, AnswerLost(limit) PROVE AtOnceSoFar'
    BY <1>1, <1>2 DEF AnswerLost
  <1>3. CASE PageRefused
    BY <1>1, <1>3 DEF PageRefused
  <1>4. CASE ServerError
    BY <1>1, <1>4 DEF ServerError
  <1>5. CASE FatalError
    BY <1>5 DEF FatalError, AtOnceSoFar
  <1>6. ASSUME NEW u \in UUID, OtherWrites(u) PROVE AtOnceSoFar'
    BY <1>0, <1>6 DEF OtherWrites, AtOnceSoFar, Undisturbed
  <1>7. CASE UNCHANGED vars
    <2>1. UNCHANGED <<server, clock, writes, base, token, attempt, pc, call, out, stored>>
      BY <1>7 DEF vars, serverVars, inputVars, retryVars
    <2>2. /\ PushedSoFar' = PushedSoFar /\ OwnConflicts' = OwnConflicts /\ Reached' = Reached
          /\ Undisturbed' = Undisturbed /\ Versions(stored)' = Versions(stored)
      BY <2>1 DEF PushedSoFar, OwnConflicts, Reached, Undisturbed, Versions
    <2>3. /\ Refuses(PushedSoFar)' = Refuses(PushedSoFar)
          /\ AtFirst(Refuses(PushedSoFar))' = AtFirst(Refuses(PushedSoFar))
          /\ \A v : AtFirst({v.uuid})' = AtFirst({v.uuid})
      BY <2>1, <2>2 DEF Refuses, StaleAtFirst, AtFirst
    <2> QED
      BY <2>1, <2>2, <2>3 DEF AtOnceSoFar
  <1> QED
    BY <1>2, <1>3, <1>4, <1>5, <1>6, <1>7, PageAtOnce, PageAgain DEF Next, Request

LEMMA InitAtOnce == ASSUME PagingAssumption, Init PROVE AtOnceSoFar
  <1>1. /\ stored = {} /\ out = NoOutput /\ server = InitialServer /\ pc = "request"
        /\ call.nextItem = 0 /\ call.first /\ Reached = token /\ token \in Nat
    BY DEF Init, Reached, PagingAssumption
  <1>2. PushedSoFar = {}
    BY <1>1 DEF PushedSoFar
  <1>3. Refuses(PushedSoFar) = {} /\ Versions(stored) = {} /\ AtFirst({}) = {}
    BY <1>1, <1>2 DEF Refuses, Versions, AtFirst
  <1>4. out.items = {} /\ out.saved = {} /\ out.conflicts = {}
    BY <1>1 DEF NoOutput
  <1>5. token <= Reached
    BY <1>1
  <1>6. stored = PushedSoFar \ Refuses(PushedSoFar) /\ AtFirst(Refuses(PushedSoFar)) = {}
    BY <1>1, <1>2, <1>3
  <1>7. \A u \in Pushed : base[u] <= clock
    BY DEF Init, PagingAssumption
  <1> QED
    BY <1>1, <1>3, <1>4, <1>5, <1>6, <1>7 DEF AtOnceSoFar

\* All of it: reached, answered and covered in step, and as long as nothing went
\* wrong the answers so far are those of one request.
THEOREM PagingInductive == Spec => []PagingInv
  <1>1. Init => AtOnceSoFar
    BY PagingAssumption, InitAtOnce
  <1>2. PagesInv /\ AtOnceSoFar /\ [Next]_vars => AtOnceSoFar'
    BY PagingAssumption, StepAtOnce
  <1> QED
    BY <1>1, <1>2, PagesInductive, PTL DEF Spec, PagingInv

\* A syncItems that needs no retry and that nobody disturbs is one exchange: pages
\* do not show, but where a single item that was saved is put again and is in
\* conflict with itself (syncItemsViaAPI).
THEOREM ExchangedAtOnce == Spec => []OneExchange
  <1>1. PagingInv /\ ChangesCovered => OneExchange
    <2> SUFFICES ASSUME PagingInv, ChangesCovered, pc = "done", Undisturbed
                 PROVE  OneExchange
      BY DEF OneExchange
    <2>1. /\ stored = Pushed \ Refuses(Pushed)
          /\ out.saved = Versions(stored)
          /\ AtFirst(Refuses(Pushed)) \subseteq out.conflicts
          /\ out.conflicts \subseteq AtFirst(Refuses(Pushed)) \cup OwnConflicts
          /\ \A v \in out.items :
                IF v.uuid \in stored THEN v \in out.saved \cup AtFirst({v.uuid})
                ELSE v \in AtFirst({v.uuid}) /\ v.ts > token
          /\ \A u \in UUID \ stored : server[u] = InitialServer[u]
      BY DEF PagingInv, AtOnceSoFar, PushedSoFar
    <2>2. \A v \in out.items : v.uuid \in UUID
      BY DEF PagingInv, PagesInv, TypeOK, Output, Version
    <2>3. Pushed \subseteq UUID /\ call.syncToken = clock
      BY PagingAssumption, PushType DEF PagingInv, PagesInv, TimesOrdered
    <2>4. ASSUME NEW v \in out.items, v.uuid \notin Pushed
          PROVE  v \in AtFirst({u \in UUID \ Pushed : InitialServer[u] > token})
      <3>1. v \in AtFirst({v.uuid}) /\ v.ts > token
        BY <2>1, <2>4
      <3> QED
        BY <2>2, <2>4, <3>1 DEF AtFirst
    <2>5. ASSUME NEW u \in UUID \ Pushed, InitialServer[u] > token
          PROVE  [uuid |-> u, ts |-> InitialServer[u]] \in out.items
      <3>1. server[u] = InitialServer[u]
        BY <2>1
      <3>2. [uuid |-> u, ts |-> server[u]] \in out.items \cup out.saved \cup out.conflicts
        BY <2>5, <3>1 DEF ChangesCovered
      <3>3. \A v \in out.saved \cup out.conflicts : v.uuid \in Pushed
        BY <2>1 DEF Versions, AtFirst, Refuses, OwnConflicts
      <3> QED
        BY <3>1, <3>2, <3>3
    <2>6. {v \in out.items : v.uuid \notin Pushed} =
            AtFirst({u \in UUID \ Pushed : InitialServer[u] > token})
      BY <2>4, <2>5 DEF AtFirst
    <2>7. {v \in out.items : v.uuid \in Pushed} \subseteq AtFirst(Pushed) \cup out.saved
      BY <2>1 DEF AtFirst
    <2> QED
      BY <2>1, <2>3, <2>6, <2>7 DEF OneExchange
  <1> QED
    BY <1>1, PagingInductive, NoneMissed, PTL

---------------------------------------------------------------------------
(* Why syncItems returns. *)

\* The other client has its writes left, and what is pushed is based on what the
\* server has had.
Bounds == writes <= MaxWrites /\ \A u \in Pushed : base[u] <= clock

\* The clock of the server goes on, and only the other client's writes count.
LEMMA ClockGoesOn ==
    ASSUME PagingAssumption, PagesInv, [Next]_vars
    PROVE  /\ clock <= clock' /\ clock \in Nat /\ clock' \in Nat
           /\ base' = base /\ token' = token
           /\ writes' = writes \/ (writes < MaxWrites /\ writes' = writes + 1)
  <1> USE DEF PagesInv
  <1>1. clock \in Nat /\ writes \in Nat
    BY DEF TypeOK
  <1>2. ASSUME NEW S \in SUBSET Pushed, Stores(S)
        PROVE  clock <= clock' /\ clock' \in Nat /\ writes' = writes
    BY <1>2, StoresType DEF Stores
  <1>3. \A limit \in Limits : Accepted(Sent(limit)) \in SUBSET Pushed
    BY SentItems DEF Accepted
  <1>4. ASSUME Request
        PROVE  /\ clock <= clock' /\ clock' \in Nat /\ writes' = writes
               /\ base' = base /\ token' = token
    <2>1. ASSUME NEW limit \in Limits, PageAnswered(limit) \/ AnswerLost(limit)
          PROVE  Stores(Accepted(Sent(limit))) /\ base' = base /\ token' = token
      BY <2>1 DEF PageAnswered, AnswerLost, Retry, inputVars
    <2>2. CASE PageRefused \/ ServerError \/ FatalError
      BY <1>1, <2>2 DEF PageRefused, ServerError, FatalError, Retry, serverVars, inputVars
    <2>3. QED
      BY <1>2, <1>3, <1>4, <2>1, <2>2 DEF Request
  <1>5. ASSUME NEW u \in UUID, OtherWrites(u)
        PROVE  /\ clock <= clock' /\ clock' \in Nat /\ base' = base /\ token' = token
               /\ writes < MaxWrites /\ writes' = writes + 1
    BY <1>1, <1>5 DEF OtherWrites, inputVars
  <1>6. CASE UNCHANGED vars
    BY <1>1, <1>6 DEF vars, serverVars, inputVars
  <1>7. QED
    BY <1>1, <1>4, <1>5, <1>6 DEF Next

LEMMA BoundsKept == Spec => []Bounds
  <1>1. PagingAssumption /\ Init => Bounds
    BY DEF Init, PagingAssumption, Bounds
  <1>2. PagingAssumption /\ PagesInv /\ Bounds /\ [Next]_vars => Bounds'
    <2> SUFFICES ASSUME PagingAssumption, PagesInv, Bounds, [Next]_vars PROVE Bounds'
      OBVIOUS
    <2>1. \A u \in Pushed : base[u] \in Nat /\ base[u] <= clock
      BY DEF Bounds, PagesInv, TypeOK
    <2>2. \A u \in Pushed : base'[u] <= clock'
      BY <2>1, ClockGoesOn
    <2>3. writes' <= MaxWrites
      BY ClockGoesOn DEF Bounds, PagesInv, TypeOK, PagingAssumption
    <2>4. QED
      BY <2>2, <2>3 DEF Bounds
  <1>3. QED
    BY <1>1, <1>2, PagingAssumption, PagesInductive, PTL DEF Spec

\* Sums, which the provers find best on their own.
LEMMA SumsFall ==
    ASSUME NEW a \in Nat, NEW b \in Nat, NEW s \in Nat, NEW x \in Nat, NEW m \in Nat,
           NEW an \in Nat, NEW bn \in Nat, a >= 1,
           m = a - 1 + s - x, an <= m, bn <= b - s
    PROVE  an + 2 * bn < a + 2 * b
  OBVIOUS

LEMMA OneWritten ==
    ASSUME NEW c \in Nat, NEW f \in Nat, NEW cn \in Nat, NEW fn \in Nat, NEW z \in Int,
           NEW zn \in Int, cn <= c + 1, fn <= f, zn = z - 2
    PROVE  cn + 2 * fn + zn \in Int /\ cn + 2 * fn + zn < c + 2 * f + z
  OBVIOUS

\* What changed, and what can still be stored, are finitely many items.
LEMMA Counts ==
    ASSUME PagingAssumption, PagesInv, Bounds
    PROVE  /\ IsFiniteSet(Changed) /\ Cardinality(Changed) \in Nat
           /\ IsFiniteSet(Fresh) /\ Cardinality(Fresh) \in Nat
           /\ N \in Nat /\ call.nextItem \in Nat /\ call.nextItem <= N
           /\ writes \in Nat /\ MaxWrites \in Nat /\ writes <= MaxWrites
           /\ VersionsLeft \in Nat /\ PagesLeft \in Nat
  <1>1. IsFiniteSet(UUID) /\ Changed \in SUBSET UUID /\ Fresh \in SUBSET UUID
    BY PushType DEF PagingAssumption, Changed, Fresh
  <1>2. IsFiniteSet(Changed) /\ IsFiniteSet(Fresh)
    BY <1>1, FS_Subset
  <1>3. Cardinality(Changed) \in Nat /\ Cardinality(Fresh) \in Nat
    BY <1>2, FS_CardinalityType
  <1>4. N \in Nat /\ call.nextItem \in Nat /\ call.nextItem <= N
    BY PushType DEF PagesInv, TypeOK, Call
  <1>5. writes \in Nat /\ MaxWrites \in Nat /\ writes <= MaxWrites
    BY DEF PagesInv, TypeOK, Bounds, PagingAssumption
  <1>6. VersionsLeft \in Nat
    BY <1>3, <1>5 DEF VersionsLeft
  <1>7. PagesLeft \in Nat
    BY <1>4, <1>6 DEF PagesLeft
  <1>8. QED
    BY <1>2, <1>3, <1>4, <1>5, <1>6, <1>7

\* What a request stores cannot be stored again: its time is not the pushed one's.
LEMMA StoredOnce ==
    ASSUME PagingAssumption, PagesInv, Bounds, NEW S \in SUBSET Fresh, Stores(S), base' = base
    PROVE  Fresh' \subseteq Fresh \ S
  <1>1. S \in SUBSET Pushed /\ Pushed \subseteq UUID
    BY PushType DEF Fresh
  <1>2. \A u \in S : server'[u] = clock + Position(u)
    BY <1>1 DEF Stores
  <1>3. \A u \in S : Position(u) \in Nat /\ Position(u) > 0
    BY SMTT(30), <1>1, PositionType, PushType
  <1>4. clock \in Nat /\ \A u \in Pushed : base[u] \in Nat /\ base[u] <= clock
    BY DEF PagesInv, TypeOK, Bounds
  <1>5. \A u \in S : server'[u] # 0 /\ base[u] # server'[u]
    BY <1>1, <1>2, <1>3, <1>4
  <1>6. \A u \in S : u \notin Fresh'
    BY <1>5 DEF Fresh, Stale
  <1>7. \A u \in UUID \ S : server'[u] = server[u]
    BY <1>1 DEF Stores
  <1>8. \A u \in Fresh' : u \in Pushed /\ u \in Fresh
    BY <1>1, <1>6, <1>7 DEF Fresh, Stale
  <1>9. QED
    BY <1>6, <1>8

\* Fewer of the changed and the fresh: S of the fresh are gone, and the changed
\* that remain are others than w, or in S.
LEMMA FewerLeft ==
    ASSUME NEW C, NEW F, IsFiniteSet(C), IsFiniteSet(F), NEW S \in SUBSET F, NEW w \in C,
           NEW Cn, NEW Fn, Cn \subseteq (C \ {w}) \cup S, Fn \subseteq F \ S
    PROVE  /\ Cardinality(Cn) \in Nat /\ Cardinality(Fn) \in Nat
           /\ Cardinality(Cn) + 2 * Cardinality(Fn) < Cardinality(C) + 2 * Cardinality(F)
  <1>1. IsFiniteSet(S) /\ IsFiniteSet(C \ {w}) /\ Cardinality(C \ {w}) = Cardinality(C) - 1
    BY FS_Subset, FS_RemoveElement
  <1>2. /\ IsFiniteSet(F \ S)
        /\ Cardinality(F \ S) = Cardinality(F) - Cardinality(F \cap S)
    BY <1>1, FS_Difference
  <1>3. F \cap S = S
    OBVIOUS
  <1>4. /\ IsFiniteSet((C \ {w}) \cup S)
        /\ Cardinality((C \ {w}) \cup S)
             = Cardinality(C \ {w}) + Cardinality(S) - Cardinality((C \ {w}) \cap S)
    BY <1>1, FS_Union
  <1>5. IsFiniteSet((C \ {w}) \cap S) /\ Cardinality((C \ {w}) \cap S) \in Nat
    <2>1. IsFiniteSet((C \ {w}) \cap S)
      BY <1>1, FS_Subset
    <2>2. QED
      BY <2>1, FS_CardinalityType
  <1>6. /\ Cardinality(C) \in Nat /\ Cardinality(F) \in Nat /\ Cardinality(S) \in Nat
    BY <1>1, FS_CardinalityType
  <1>7. IsFiniteSet(Cn) /\ Cardinality(Cn) <= Cardinality((C \ {w}) \cup S)
    BY <1>4, FS_Subset
  <1>8. IsFiniteSet(Fn) /\ Cardinality(Fn) <= Cardinality(F \ S)
    BY <1>2, FS_Subset
  <1>9. Cardinality(Cn) \in Nat /\ Cardinality(Fn) \in Nat
    BY <1>7, <1>8, FS_CardinalityType
  <1>10. Cardinality(C) >= 1
    BY <1>6, FS_EmptySet
  <1>11. /\ Cardinality((C \ {w}) \cup S) \in Nat
         /\ Cardinality((C \ {w}) \cup S)
              = Cardinality(C) - 1 + Cardinality(S) - Cardinality((C \ {w}) \cap S)
    BY <1>1, <1>4, FS_CardinalityType
  <1>12. Cardinality(Fn) <= Cardinality(F) - Cardinality(S)
    BY <1>2, <1>3, <1>8
  <1>13. QED
    BY <1>5, <1>6, <1>7, <1>9, <1>10, <1>11, <1>12, SumsFall
\* The next page starts no earlier in the list than this one.
LEMMA NextItemGoesOn ==
    ASSUME PagingAssumption, PagesInv, NEW limit \in Limits
    PROVE  /\ ItemAfter(FinalItem(limit)) \in Nat /\ ItemAfter(FinalItem(limit)) <= N
           /\ call.nextItem <= ItemAfter(FinalItem(limit))
           /\ FinalItem(limit) > 0 /\ FinalItem(limit) < N - 1
                => call.nextItem < ItemAfter(FinalItem(limit))
  <1> DEFINE final == FinalItem(limit)
  <1>1. limit \in Nat /\ limit > 1
    BY LimitsLarge DEF PagesInv
  <1>2. /\ N \in Nat /\ call.nextItem \in Nat /\ call.nextItem <= N
        /\ final \in Nat /\ (final > 0 => final < N)
    BY SMTT(30), <1>1, PushType, FinalItemType DEF PagesInv, TypeOK, Call
  <1>3. final = 0 \/ final = call.nextItem + limit - 1 \/ final = N - 1
    BY DEF FinalItem
  <1>4. ItemAfter(final) = IF final > 0 THEN final + 1 ELSE call.nextItem
    BY DEF ItemAfter
  <1> HIDE DEF final
  <1>5. /\ ItemAfter(final) \in Nat /\ ItemAfter(final) <= N /\ call.nextItem <= ItemAfter(final)
        /\ final > 0 /\ final < N - 1 => call.nextItem < ItemAfter(final)
    BY <1>1, <1>2, <1>3, <1>4
  <1>6. QED
    BY <1>5 DEF final

\* A page that leads to another one leaves less to ask for.
LEMMA PageGoesOn ==
    ASSUME PagingAssumption, PagesInv, Bounds, NEW limit \in Limits, PageAnswered(limit),
           Goes(limit)
    PROVE  PagesLeft' < PagesLeft
  <1> DEFINE S == Accepted(Sent(limit))
             after == ItemAfter(FinalItem(limit))
  <1>1. limit \in Nat /\ limit > 1
    BY LimitsLarge DEF PagesInv
  <1>2. PICK cursor \in NextCursors(limit) :
            call' = [pageSize |-> limit, nextItem |-> after, syncToken |-> clock',
                     cursor |-> cursor, first |-> FALSE]
    BY DEF PageAnswered
  <1>3. /\ IsFiniteSet(Changed) /\ Cardinality(Changed) \in Nat
        /\ IsFiniteSet(Fresh) /\ Cardinality(Fresh) \in Nat
        /\ N \in Nat /\ call.nextItem \in Nat /\ call.nextItem <= N
        /\ writes \in Nat /\ MaxWrites \in Nat /\ writes <= MaxWrites
    BY Counts
  <1>4. S \in SUBSET Fresh /\ S \in SUBSET Pushed
    BY SentItems DEF Accepted, Fresh
  <1>5. Stores(S) /\ base' = base /\ writes' = writes
    BY DEF PageAnswered, inputVars, Stores
  <1>6. Fresh' \subseteq Fresh \ S
    BY <1>4, <1>5, StoredOnce
  <1>7. /\ \A u \in UUID : server'[u] <= clock'
        /\ \A u \in UUID : u \notin S => server'[u] = server[u]
        /\ server' \in [UUID -> Nat] /\ clock' \in Nat
    BY <1>4, <1>5, StoresType DEF PagesInv
  <1>8. after \in Nat /\ after <= N /\ call.nextItem <= after
    BY NextItemGoesOn
  <1>9. call'.nextItem = after /\ call'.cursor = cursor /\ call'.syncToken = clock'
    BY <1>2
  <1>10. VersionsLeft \in Nat /\ 2 * (MaxWrites - writes) \in Nat
    BY <1>3, Counts
  <1> HIDE DEF S, after
  <1>11. CASE More(limit)
    <2>1. PICK w \in Page(limit) : cursor = server[w] /\ cursor # 0
      BY <1>1, <1>11, CursorType DEF PagesInv
    <2>2. w \in Changed /\ w \in UUID /\ server[w] \in Nat
      BY DEF Page, Changed, PagesInv, TypeOK
    <2>3. Changed' \subseteq (Changed \ {w}) \cup S
      <3> SUFFICES ASSUME NEW u \in UUID, server'[u] > server[w], u \notin S
                   PROVE  u \in Changed \ {w}
        BY <1>9, <2>1 DEF Changed
      <3>1. server'[u] = server[u] /\ server[u] \in Nat
        BY <1>7 DEF PagesInv, TypeOK
      <3>2. u # w
        BY <2>2, <3>1
      <3>3. server[w] > Reached /\ Reached \in Nat
        BY <2>2 DEF Changed, Reached, PagesInv, TypeOK, Call
      <3>4. server[u] > Reached
        BY <2>2, <3>1, <3>3
      <3>5. QED
        BY <3>2, <3>4 DEF Changed, Reached
    <2>4. /\ Cardinality(Changed') \in Nat /\ Cardinality(Fresh') \in Nat
          /\ Cardinality(Changed') + 2 * Cardinality(Fresh')
               < Cardinality(Changed) + 2 * Cardinality(Fresh)
      BY <1>3, <1>4, <1>6, <2>2, <2>3, FewerLeft
    <2>5. VersionsLeft' \in Int /\ VersionsLeft' < VersionsLeft
      BY SMTT(30), <1>3, <1>5, <2>4 DEF VersionsLeft
    <2>6. QED
      BY SMTT(30), <1>3, <1>8, <1>9, <1>10, <2>5 DEF PagesLeft
  <1>12. CASE ~More(limit)
    <2>1. cursor = 0
      BY <1>1, <1>12, CursorType DEF PagesInv
    <2>2. Changed' = {}
      BY <1>7, <1>9, <2>1 DEF Changed
    <2>3. IsFiniteSet(Fresh') /\ Cardinality(Fresh') <= Cardinality(Fresh)
      BY <1>3, <1>6, FS_Subset
    <2>4. Cardinality(Changed') = 0 /\ Cardinality(Fresh') \in Nat
      BY <2>2, <2>3, FS_EmptySet, FS_CardinalityType
    <2>5. call.nextItem < after
      BY <1>12, NextItemGoesOn DEF Goes, after
    <2>6. VersionsLeft' \in Int /\ VersionsLeft' <= VersionsLeft
      BY SMTT(30), <1>3, <1>5, <2>3, <2>4 DEF VersionsLeft
    <2>7. QED
      BY SMTT(30), <1>3, <1>8, <1>9, <1>10, <2>5, <2>6 DEF PagesLeft
  <1>13. QED
    BY <1>11, <1>12

\* A write of the other client is one more change, and one of its writes.
LEMMA OtherGoesOn ==
    ASSUME PagingAssumption, PagesInv, Bounds, NEW u \in UUID, OtherWrites(u)
    PROVE  attempt' = attempt /\ PagesLeft' < PagesLeft
  <1>1. /\ server' = [server EXCEPT ![u] = clock + 1] /\ writes' = writes + 1
        /\ base' = base /\ call' = call /\ attempt' = attempt /\ writes < MaxWrites
    BY DEF OtherWrites, inputVars, retryVars
  <1>2. /\ IsFiniteSet(Changed) /\ Cardinality(Changed) \in Nat
        /\ IsFiniteSet(Fresh) /\ Cardinality(Fresh) \in Nat
        /\ N \in Nat /\ call.nextItem \in Nat /\ call.nextItem <= N
        /\ writes \in Nat /\ MaxWrites \in Nat
    BY Counts
  <1>3. server \in [UUID -> Nat] /\ clock \in Nat /\ Pushed \subseteq UUID
    BY PushType DEF PagesInv, TypeOK
  <1>4. Changed' \subseteq Changed \cup {u}
    BY <1>1, <1>3 DEF Changed
  <1>5. Fresh' \subseteq Fresh
    <2>1. \A v \in Pushed : base[v] \in Nat /\ base[v] <= clock
      BY DEF PagesInv, TypeOK, Bounds
    <2>2. ASSUME NEW v \in Pushed, ~Stale(v)' PROVE ~Stale(v)
      <3>1. v # u
        BY <1>1, <1>3, <2>1, <2>2 DEF Stale
      <3>2. server'[v] = server[v]
        BY <1>1, <1>3, <3>1
      <3>3. QED
        BY <1>1, <2>2, <3>2 DEF Stale
    <2>3. QED
      BY <2>2 DEF Fresh
  <1>6. /\ IsFiniteSet(Changed \cup {u})
        /\ Cardinality(Changed \cup {u}) <= Cardinality(Changed) + 1
        /\ Cardinality(Changed \cup {u}) \in Nat
    <2>1. /\ IsFiniteSet(Changed \cup {u})
          /\ Cardinality(Changed \cup {u}) =
               IF u \in Changed THEN Cardinality(Changed) ELSE Cardinality(Changed) + 1
      BY <1>2, FS_AddElement
    <2>2. QED
      BY <1>2, <2>1
  <1>7. IsFiniteSet(Changed') /\ Cardinality(Changed') <= Cardinality(Changed \cup {u})
    BY <1>4, <1>6, FS_Subset
  <1>8. IsFiniteSet(Fresh') /\ Cardinality(Fresh') <= Cardinality(Fresh)
    BY <1>2, <1>5, FS_Subset
  <1>9. Cardinality(Changed') \in Nat /\ Cardinality(Fresh') \in Nat
    BY <1>7, <1>8, FS_CardinalityType
  <1>10. Cardinality(Changed') <= Cardinality(Changed) + 1
    BY <1>2, <1>6, <1>7, <1>9
  <1>11. VersionsLeft' \in Int /\ VersionsLeft' < VersionsLeft /\ VersionsLeft \in Nat
    <2>1. VersionsLeft'
            = Cardinality(Changed') + 2 * Cardinality(Fresh') + 2 * (MaxWrites - (writes + 1))
      BY <1>1 DEF VersionsLeft
    <2>2. 2 * (MaxWrites - (writes + 1)) = 2 * (MaxWrites - writes) - 2
      BY <1>2
    <2>3. 2 * (MaxWrites - writes) \in Int /\ VersionsLeft \in Nat
      BY <1>2, Counts
    <2> DEFINE z == 2 * (MaxWrites - writes)
               zn == 2 * (MaxWrites - (writes + 1))
    <2>4. z \in Int /\ zn \in Int /\ zn = z - 2
      BY <2>2, <2>3
    <2> HIDE DEF z, zn
    <2>5. /\ Cardinality(Changed') + 2 * Cardinality(Fresh') + zn \in Int
          /\ Cardinality(Changed') + 2 * Cardinality(Fresh') + zn
               < Cardinality(Changed) + 2 * Cardinality(Fresh) + z
      BY <1>2, <1>8, <1>9, <1>10, <2>4, OneWritten
    <2>6. QED
      BY <2>1, <2>3, <2>5 DEF VersionsLeft, z, zn
  <1>12. PagesLeft' < PagesLeft
    BY <1>1, <1>2, <1>11 DEF PagesLeft
  <1>13. QED
    BY <1>1, <1>12

\* A request that fails is a new attempt, or the last one.
LEMMA RetryGoesOn ==
    ASSUME PagingAssumption, PagesInv, NEW p, NEW n, Retry(p, n)
    PROVE  attempt' > attempt \/ (attempt' = attempt /\ pc' # "request")
  BY DEF Retry, retryVars, PagesInv, TypeOK

\* Every step ends the request, starts another of MaxAttempts attempts, or leaves
\* less to ask for: recursion and retries are bounded for any push, any account,
\* and any number of writes between the pages.
THEOREM PagesAreBounded == Spec => PagesRunOut
  <1> DEFINE GoesOn == \/ attempt' > attempt
                       \/ attempt' = attempt /\ (pc' # "request" \/ PagesLeft' < PagesLeft)
  <1>1. PagingAssumption /\ PagesInv /\ Bounds /\ [Next]_vars => [GoesOn]_vars
    <2> SUFFICES ASSUME PagingAssumption, PagesInv, Bounds, Next PROVE GoesOn
      OBVIOUS
    <2>1. ASSUME NEW limit \in Limits, PageAnswered(limit) PROVE GoesOn
      <3>1. attempt' = attempt
        BY <2>1 DEF PageAnswered, retryVars
      <3>2. CASE Goes(limit)
        BY <2>1, <3>1, <3>2, PageGoesOn
      <3>3. CASE ~Goes(limit)
        BY <2>1, <3>1, <3>3 DEF PageAnswered
      <3>4. QED
        BY <3>2, <3>3
    <2>2. CASE PageRefused \/ ServerError \/ \E limit \in Limits : AnswerLost(limit)
      BY <2>2, RetryGoesOn DEF PageRefused, ServerError, AnswerLost
    <2>3. CASE FatalError
      BY <2>3 DEF FatalError, retryVars
    <2>4. QED
      BY <2>1, <2>2, <2>3, OtherGoesOn DEF Next, Request
  <1>2. PagingAssumption /\ PagesInv /\ Bounds => PagesLeft \in Nat /\ attempt \in 1..MaxAttempts
    BY Counts DEF PagesInv, TypeOK
  <1>3. QED
    BY <1>1, <1>2, PagingAssumption, PagesInductive, BoundsKept, PTL DEF Spec, PagesRunOut
=============================================================================
