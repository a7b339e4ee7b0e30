------------------------------ MODULE SyncPaging ------------------------------
(***************************************************************************)
(* syncItems and syncItemsViaAPI (items/sync.go): one call of syncItems    *)
(* pushes a list of items and retrieves what changed since a sync token,   *)
(* page by page, and starts again from the last page whose items were put  *)
(* when a page fails.  CacheSync takes this whole exchange for one step;   *)
(* here it is taken apart, with another client that writes between pages.  *)
(*                                                                         *)
(* Items are reduced to their names and the server's timestamps.  The      *)
(* recursion of syncItemsViaAPI is flattened: `call` is the input of the   *)
(* innermost call, `out` what the calls of this attempt have appended.     *)
(***************************************************************************)
EXTENDS Naturals, Sequences, FiniteSets

CONSTANTS
    UUID,            \* names of items
    Push,            \* SyncInput.Items, a sequence of names
    InitialServer,   \* timestamps of the stored items, 0 when not stored
    InitialClock,    \* the latest of them
    DefaultPage,     \* common.PageSize
    MinPage,         \* common.MinPageSize
    MaxPage,         \* common.MaxPageSize
    ScaleBy,         \* 1 / common.RetryScaleFactor
    PageSizes,       \* PageSize by the number of resizings before
    MaxAttempts,     \* attempts of syncItems, 4
    MaxWrites        \* writes of the other client (bound of the model)

N == Len(Push)
Pushed == {Push[k] : k \in 1..N}

\* resizeForRetry; 0 is a PageSize that is not set
Resized(p) == ((IF p # 0 THEN p ELSE DefaultPage) + ScaleBy - 1) \div ScaleBy

ASSUME PagingAssumption ==
    /\ IsFiniteSet(UUID)
    /\ Push \in Seq(UUID)
    /\ \A j, k \in 1..N : Push[j] = Push[k] => j = k
    /\ InitialServer \in [UUID -> Nat] /\ InitialClock \in Nat
    /\ \A u \in UUID : InitialServer[u] <= InitialClock
    /\ \A u, v \in UUID :
          InitialServer[u] = InitialServer[v] /\ u # v => InitialServer[u] = 0
    /\ DefaultPage \in Nat /\ MinPage \in Nat /\ MaxPage \in Nat
    /\ DefaultPage > 1 /\ MinPage > 1 /\ MinPage <= MaxPage
    /\ ScaleBy \in Nat \ {0} /\ MaxAttempts \in Nat \ {0} /\ MaxWrites \in Nat
    /\ PageSizes \in [0..(MaxAttempts - 1) -> Nat] /\ PageSizes[0] = 0
    /\ \A n \in 1..(MaxAttempts - 1) :
          \* 150, 38, 10, 3: no page shrinks to a single item
          PageSizes[n] = Resized(PageSizes[n - 1]) /\ PageSizes[n] > 1

Version == [uuid : UUID, ts : Nat]
Call == [pageSize : Nat, nextItem : 0..N, syncToken : Nat, cursor : Nat, first : BOOLEAN]
Output == [items : SUBSET Version, saved : SUBSET Version,
           conflicts : SUBSET Version, lastItemPut : 0..N]
NoOutput == [items |-> {}, saved |-> {}, conflicts |-> {}, lastItemPut |-> 0]

VARIABLES
    \* the server
    server,      \* timestamp of each item
    clock,       \* its latest timestamp
    writes,      \* writes of the other client so far
    \* syncItems
    base,        \* UpdatedAtTimestamp of the items to push
    token,       \* i.SyncToken
    pageSize,    \* i.PageSize
    nextItem,    \* i.NextItem
    attempt,     \* of try.Do
    pc,          \* "request", "done" or "failed"
    \* syncItemsViaAPI
    call, out,
    \* history
    answered,    \* items whose answer reached the client
    stored,      \* items whose pushed version the server stored
    tick         \* changes with every request, so that asking for ever is no stuttering

serverVars == <<server, clock, writes>>
inputVars == <<base, token>>
retryVars == <<pageSize, nextItem, attempt>>
vars == <<serverVars, inputVars, retryVars, pc, call, out, answered, stored, tick>>

Versions(S) == {[uuid |-> u, ts |-> server[u]] : u \in S}
NamesIn(V) == {v.uuid : v \in V}

Init ==
    /\ server = InitialServer /\ clock = InitialClock /\ writes = 0
    /\ base \in [Pushed -> 0..InitialClock]
    /\ \A u \in Pushed : base[u] <= server[u]
    /\ token \in 0..InitialClock
    /\ pageSize = 0 /\ nextItem = 0 /\ attempt = 1
    /\ pc = "request"
    /\ call = [pageSize |-> 0, nextItem |-> 0, syncToken |-> token,
                cursor |-> 0, first |-> TRUE]
    /\ out = NoOutput
    /\ answered = {} /\ stored = {} /\ tick = FALSE

---------------------------------------------------------------------------
(* The server: what one request does to it and what it answers. *)

OtherWrites(u) ==
    /\ pc = "request" /\ writes < MaxWrites
    /\ server' = [server EXCEPT ![u] = clock + 1]
    /\ clock' = clock + 1
    /\ writes' = writes + 1
    /\ UNCHANGED <<inputVars, retryVars, pc, call, out, answered, stored, tick>>

\* an item that exists is stored only when the pushed one is based on it
Stale(u) == server[u] # 0 /\ base[u] # server[u]
Accepted(S) == {u \in S : ~Stale(u)}
Conflicting(S) == {u \in S : Stale(u)}

Position(u) == CHOOSE k \in 1..N : Push[k] = u

Stores(S) ==
    /\ server' = [u \in UUID |-> IF u \in S THEN clock + Position(u) ELSE server[u]]
    /\ clock' = IF S = {} THEN clock ELSE clock + N
    /\ stored' = stored \cup S
    /\ UNCHANGED writes

\* what changed since the cursor, else since the sync token
Changed == {u \in UUID : server[u] > IF call.cursor # 0 THEN call.cursor
                                                        ELSE call.syncToken}

\* the first `limit` of it by time
Page(limit) ==
    {u \in Changed : Cardinality({v \in Changed : server[v] <= server[u]}) <= limit}

More(limit) == Cardinality(Changed) > limit

\* cursor_token: the last item of a page that is not the last one
CursorsAfter(limit) ==
    IF More(limit)
    THEN {server[u] : u \in {w \in Page(limit) : \A v \in Page(limit) : server[v] <= server[w]}}
    ELSE {0}

---------------------------------------------------------------------------
(* syncItemsViaAPI: one request. *)

\* determineLimit and calculateOptimalBatchSize, which depends on the size of
\* the items that are left and clamps to MinPage..MaxPage
Limits ==
    LET limit == IF call.pageSize > 0 THEN call.pageSize ELSE DefaultPage
    IN  IF limit = DefaultPage /\ N > 0 /\ call.nextItem < N
        THEN MinPage..MaxPage
        ELSE {limit}

\* encodeItems: the index of the last item of a request, and its items
FinalItem(limit) ==
    IF N = 0 THEN 0
    ELSE IF call.nextItem + limit < N THEN call.nextItem + limit - 1 ELSE N - 1

\* Variant: items[start:finalItem], without the last item.
SentShort(limit) ==
    {Push[k] : k \in {j \in 1..N : call.nextItem < j /\ j <= FinalItem(limit)}}

Sent(limit) ==
    {Push[k] : k \in {j \in 1..N : call.nextItem < j /\ j <= FinalItem(limit) + 1}}

\* Variant: one item is left out between two pages.
ItemAfterNext(final) == IF final > 0 THEN final + 2 ELSE call.nextItem

\* input.NextItem of the call for the next page
ItemAfter(final) == IF final > 0 THEN final + 1 ELSE call.nextItem

\* Variant: only the first cursor is taken over.
FirstCursor(limit) == IF call.cursor # 0 THEN {call.cursor} ELSE CursorsAfter(limit)

\* input.CursorToken of the call for the next page
NextCursors(limit) == CursorsAfter(limit)

Goes(limit) ==
    LET final == FinalItem(limit)
    IN  (final > 0 /\ final < N - 1) \/ More(limit)

\* The answer arrives: its lists are appended, and the next page is asked for
\* or this was the last one.
PageAnswered(limit) ==
    LET sent == Sent(limit)
        final == FinalItem(limit)
    IN  /\ pc = "request"
        /\ limit \in Limits
        /\ Stores(Accepted(sent))
        /\ out' = [items |-> out.items \cup Versions(Page(limit) \ Conflicting(sent)),
                   saved |-> out.saved \cup
                       {[uuid |-> u, ts |-> server'[u]] : u \in Accepted(sent)},
                   conflicts |-> out.conflicts \cup Versions(Conflicting(sent)),
                   lastItemPut |-> IF call.first THEN final ELSE out.lastItemPut]
        /\ IF Goes(limit)
           THEN /\ \E cursor \in NextCursors(limit) :
                     call' = [pageSize |-> limit, nextItem |-> ItemAfter(final),
                              syncToken |-> clock', cursor |-> cursor, first |-> FALSE]
                /\ UNCHANGED pc
           ELSE /\ pc' = "done"
                /\ call' = [call EXCEPT !.syncToken = clock', !.cursor = 0]
        /\ answered' = answered \cup sent
        /\ UNCHANGED <<inputVars, retryVars>>

---------------------------------------------------------------------------
(* syncItems: a page that failed. *)

\* Variant: the retry goes on from the token of the failed attempt.
RetriedAtNewToken(p, n) == [pageSize |-> p, nextItem |-> n,
                            syncToken |-> call.syncToken, cursor |-> 0, first |-> TRUE]

\* what the next attempt hands to syncItemsViaAPI: syncItems never changes i.SyncToken
Retried(p, n) == [pageSize |-> p, nextItem |-> n, syncToken |-> token,
                  cursor |-> 0, first |-> TRUE]

Retry(p, n) ==
    /\ out' = NoOutput
    /\ UNCHANGED <<inputVars, answered>>
    /\ IF attempt < MaxAttempts
       THEN /\ attempt' = attempt + 1
            /\ pageSize' = p /\ nextItem' = n
            /\ call' = Retried(p, n)
            /\ UNCHANGED pc
       ELSE /\ pc' = "failed"
            /\ UNCHANGED <<retryVars, call>>

\* "too large", and a time-out before the server had done anything
PageRefused ==
    /\ pc = "request"
    /\ Retry(Resized(pageSize), out.lastItemPut)
    /\ UNCHANGED <<serverVars, stored>>

\* a time-out of a request the server had carried out
AnswerLost(limit) ==
    /\ pc = "request"
    /\ limit \in Limits
    /\ Stores(Accepted(Sent(limit)))
    /\ Retry(Resized(pageSize), out.lastItemPut)

\* "500": neither a smaller page nor another item
ServerError ==
    /\ pc = "request"
    /\ Retry(pageSize, nextItem)
    /\ UNCHANGED <<serverVars, stored>>

\* every other error ends the sync
FatalError ==
    /\ pc = "request"
    /\ pc' = "failed" /\ out' = NoOutput
    /\ UNCHANGED <<serverVars, inputVars, retryVars, call, answered, stored>>

Request ==
    /\ tick' = ~tick
    /\ \/ \E limit \in Limits : PageAnswered(limit) \/ AnswerLost(limit)
       \/ PageRefused
       \/ ServerError
       \/ FatalError

Next == Request \/ \E u \in UUID : OtherWrites(u)

Spec == Init /\ [][Next]_vars

\* Every request ends: the HTTP client and the request's context have a time-out.
FairSpec == Spec /\ WF_vars(Request)

---------------------------------------------------------------------------
(* Properties. *)

\* Every variable has its type.
TypeOK ==
    /\ server \in [UUID -> Nat] /\ clock \in Nat /\ writes \in Nat
    /\ base \in [Pushed -> Nat] /\ token \in Nat
    /\ pageSize \in Nat /\ nextItem \in 0..N /\ attempt \in 1..MaxAttempts
    /\ pc \in {"request", "done", "failed"}
    /\ call \in Call /\ out \in Output
    /\ answered \subseteq Pushed /\ stored \subseteq Pushed /\ tick \in BOOLEAN

\* When syncItems succeeds, the server has answered for every pushed item, and
\* what the last attempt had to push is in its output, saved or in conflict:
\* no item falls between two pages or between an attempt and its retry.
PushesAnswered ==
    pc = "done" =>
        /\ Pushed \subseteq answered
        /\ \A k \in (nextItem + 1)..N : Push[k] \in NamesIn(out.saved \cup out.conflicts)

\* When syncItems succeeds, its output holds the present version of whatever
\* changed since the token it was called with, so that the token it returns may
\* replace it, though pages were retried and others wrote between them.
ChangesCovered ==
    pc = "done" =>
        \A u \in UUID : server[u] > token =>
            [uuid |-> u, ts |-> server[u]] \in out.items \cup out.saved \cup out.conflicts

\* The strengthening that makes both inductive: no page has a single item; up to
\* the cursor, else the sync token, of the next request everything is covered;
\* and everything before the next item is answered, by this attempt or another.
LargePages ==
    /\ \E n \in 0..(attempt - 1) : pageSize = PageSizes[n]
    /\ call.pageSize # 1
TimesOrdered ==
    /\ \A u \in UUID : server[u] <= clock
    /\ token <= clock /\ call.syncToken <= clock /\ call.cursor <= clock
    /\ pc = "done" => call.syncToken = clock /\ call.cursor = 0
Reached == IF call.cursor # 0 THEN call.cursor ELSE call.syncToken
CoveredSoFar ==
    pc # "failed" =>
        \A u \in UUID : server[u] > token /\ server[u] <= Reached =>
            [uuid |-> u, ts |-> server[u]] \in out.items \cup out.saved \cup out.conflicts
AnsweredSoFar ==
    /\ \A k \in 1..N : k <= nextItem \/ k <= call.nextItem \/ k <= out.lastItemPut
                         => Push[k] \in answered
    /\ pc = "request" =>
        \A k \in (nextItem + 1)..call.nextItem :
            Push[k] \in NamesIn(out.saved \cup out.conflicts)
PagesInv ==
    TypeOK /\ LargePages /\ TimesOrdered /\ CoveredSoFar /\ AnsweredSoFar /\ PushesAnswered

\* What an answer would hold if all of the push went in one request, and nobody
\* else wrote: CacheSync's Exchange.
Undisturbed == attempt = 1 /\ writes = 0
StaleAtFirst(u) == InitialServer[u] # 0 /\ base[u] # InitialServer[u]
AtFirst(S) == {[uuid |-> u, ts |-> InitialServer[u]] : u \in S}
Refuses(S) == {u \in S : StaleAtFirst(u)}

\* A single item is put again with every page: what was saved of it is then in
\* conflict with itself.
OwnConflicts == IF N = 1 THEN out.saved ELSE {}

\* A syncItems that needs no retry, and during which nobody else writes, is one
\* exchange: however its push and what it retrieves are divided into pages, and
\* though the server changes with each of them, the same items are saved, in
\* conflict and retrieved as if a single request had been answered by the server
\* as it was at first.  Only of pushed items there may be a version too many, an
\* older one that DeDupe drops or the one in conflict, and a single item may be
\* in conflict with what was just saved of it (src/items/sync.go:1020-1045).
OneExchange ==
    pc = "done" /\ Undisturbed =>
        /\ stored = Pushed \ Refuses(Pushed)
        /\ out.saved = Versions(stored)
        /\ AtFirst(Refuses(Pushed)) \subseteq out.conflicts
        /\ out.conflicts \subseteq AtFirst(Refuses(Pushed)) \cup OwnConflicts
        /\ {v \in out.items : v.uuid \notin Pushed} =
              AtFirst({u \in UUID \ Pushed : InitialServer[u] > token})
        /\ {v \in out.items : v.uuid \in Pushed} \subseteq AtFirst(Pushed) \cup out.saved
        /\ \A u \in UUID \ stored : server[u] = InitialServer[u]
        /\ call.syncToken = clock

\* Its strengthening: what was pushed so far has its answer and the rest has not
\* been touched, what was stored is newer than what it was based on, and no page
\* goes back behind the token.
PushedSoFar == IF pc = "done" \/ (N = 1 /\ ~call.first) THEN Pushed
               ELSE {Push[k] : k \in 1..call.nextItem}
AtOnceSoFar ==
    pc # "failed" /\ Undisturbed =>
        /\ stored = PushedSoFar \ Refuses(PushedSoFar)
        /\ out.saved = Versions(stored)
        /\ AtFirst(Refuses(PushedSoFar)) \subseteq out.conflicts
        /\ out.conflicts \subseteq AtFirst(Refuses(PushedSoFar)) \cup OwnConflicts
        /\ \A v \in out.items :
              IF v.uuid \in stored THEN v \in out.saved \cup AtFirst({v.uuid})
              ELSE v \in AtFirst({v.uuid}) /\ v.ts > token
        /\ \A u \in UUID \ stored : server[u] = InitialServer[u]
        /\ \A u \in Pushed : base[u] <= clock
        /\ \A u \in stored : base[u] < server[u]
        /\ N = 1 => call.nextItem = 0
        /\ pc = "request" => token <= Reached

PagingInv == PagesInv /\ AtOnceSoFar

\* syncItems returns: cursors run out and attempts are counted.
Terminates == <>(pc # "request")

\* Why it does: a page that leads to another one has taken something off what
\* changed, stored something of the push, or gone on in its list; a version that
\* was stored counts twice, because the next pages retrieve it again, and so does
\* what the other client may still write.
Fresh == {u \in Pushed : ~Stale(u)}
VersionsLeft == Cardinality(Changed) + 2 * Cardinality(Fresh) + 2 * (MaxWrites - writes)
PagesLeft == VersionsLeft + (N - call.nextItem)

\* Every step ends the request, is a new attempt, of which there are MaxAttempts,
\* or leaves less to ask for in this one (src/items/sync.go:1020-1045).
PagesRunOut ==
    /\ [](PagesLeft \in Nat /\ attempt \in 1..MaxAttempts)
    /\ [][ \/ attempt' > attempt
           \/ attempt' = attempt /\ (pc' # "request" \/ PagesLeft' < PagesLeft) ]_vars

\* "sync until all conflicts have been resolved" (items/sync.go:220): an item
\* the server never stored is reported in conflict by a sync that succeeds.
ConflictsReported ==
    pc = "done" => Pushed \subseteq stored \cup NamesIn(out.conflicts)
=============================================================================
