# Verification of gosn-v2's sync client

gosn-v2 is a Go client library for Standard Notes. It signs in, keeps an
encrypted copy of an account in a local database, lets an application edit that
copy, and synchronises it with the server. This directory holds TLA+ modules of
that client, the TLC configurations that check them on small instances, and
TLAPS proofs of what matters most for every instance. `PROJECT.json` lists the
components, the runs, the source lines each definition stands for, the hazards
and the theorems.

    tlc -config CacheSyncLive.cfg MCCacheSync.tla      # one run
    tlapm CacheSyncProofs.tla                          # one module of proofs

## 1. The system

| component | state it keeps | operations | modelled in |
|---|---|---|---|
| `cache.Sync` and the item database (`cache/cache.go`) | a storm/bolt file: bucket `Item` with a `Dirty` flag, bucket `SyncToken` | `SaveNotes`, `SaveTags`, `SaveEncryptedItems`, `SaveItems`, `Sync`, and below it `SaveCacheItems`, `DeleteCacheItems`, `CleanCacheItems` | `CacheSync` |
| `items.Sync` (`items/sync.go`) | the input and output of one exchange | push, conflict resolution, second push, merge of the outputs | `CacheSync` |
| `syncItems`, `syncItemsViaAPI` (`items/sync.go`) | page size, next item, cursor, attempt | paging, dynamic batch sizes, retries | `SyncPaging` |
| items keys (`cache.go`, `items.go`, `sync.go`) | `Session.ItemsKeys`, `Session.DefaultItemsKey`, the keys in the database | replace, merge, choose the default, look a key up | `ItemsKeys` |
| `Sync` around the exchange, `SyncWithRetry`, `handleSyncError` (`cache.go`) | time of the last sync, back-off, the lock of the database file | delay, open with a time-out, classify an error, retry, close | `SyncOpening` |
| `makeSyncRequest`, session, refresh (`items.go`, `session/`, `auth/`) | tokens and their expiry, in memory and in the keyring | request, 401 and refresh, 429, update the keyring | `SessionTokens` |
| registering and signing in (`auth/authentication.go`, `session.go`) | the keyring; challenge, code and tokens of one call | `Register`, `SignIn`, `CliSignIn`, `AddSession` | `SignIn` |
| conflict resolution (`processConflicts` and below, `updateEncryptedItemRefs`) | the conflicts, the new ids, the items of the second request | keep, overwrite or duplicate an item; encrypt it again; remap references | `ConflictRefs` |
| encryption and decryption of items (`itemDecryption.go`, `itemEncryption.go`, `items.go`) | jobs and results channels | choice of keys, `DecryptItems` sequentially or with a pool, `Parse` | `ItemCipher`, `DecryptPool` |
| filters and lists of items (`filter.go`, `items.go`) | a list | `Filter`, `FilterAllTypes`, `DeDupe`, `RemoveDeleted`, `UpdateItemRefs` | `ItemLists` |
| checklists (`checklist.go`, `advancedChecklist.go`) | tasks, groups, the text of a note | add, complete, reopen, delete, write, read | `Checklists` |
| item types, schemas, crypto, logging, environment | none | getters and setters, library calls, I/O | no |

How they interact. The application edits the database while no sync runs: a sync
opens the bolt file, whose lock excludes every other opener. `cache.Sync` merges
the items keys of the database into the session, reads the dirty items and the
sync token, and calls `items.Sync`; that calls `syncItems` once, or twice when
the server reported conflicts; `syncItems` makes one request per page and starts
again from an earlier page after a failure. `cache.Sync` then writes the output
in a fixed sequence of separate transactions. Other clients of the account
change the server at any time, also between two requests of one sync.
`SyncWithRetry` calls `cache.Sync`, which waits for the minimum delay and opens the
file before, and closes it after, all of this. Its requests use the session that
`AddSession` put into the keyring.

What is hard about it:

* **Crashes.** The writes at the end of a sync are seven kinds of transactions, most
  of them split into batches of 500. Nothing makes them atomic together.
* **Lost answers.** The server stores a push before its answer is lost; the next
  push is then based on a version that exists no more.
* **Conflicts.** Each is resolved by a second request that may itself conflict,
  fail, or find the server changed again.
* **Two clocks.** A version is told by its timestamp, and the token that says how
  far the database is current is stored long after it was issued.
* **Retries of half a job.** A failed page is tried again from a position that
  belongs to an earlier page.
* **Tokens that are good once.** Goroutines, processes and retried requests share
  a session whose tokens a renewal makes worthless.
* **Rotation of keys.** The list of keys in the session is replaced, merged and
  rebuilt at three places of one sync.
* **A lock that outlives its holder.** The database is opened in a goroutine that is
  given up after 30 s and goes on; a handle that nobody has keeps the file locked.
* **Retries around retries.** The HTTP client, `syncItems`, `cache.Sync` and
  `SyncWithRetry` each try again, and decide by the wording of an error.
* **Workers and an early error.** The caller stops reading results at the first
  failure while workers still send.

What makes each part correct:

* `cache.Sync`: no edit is forgotten, but for those whose conflict a retry dropped; the
  token never promises what the database does not have; duplicates are made only of what
  somebody else changed or one exchange put twice; protected items stay; the database
  converges to the server.
* `syncItems`: no item to push and no change to retrieve falls between two pages
  or between an attempt and the next; it ends.
* items keys: no item in the database is under a key that is nowhere; a sync
  starts with the keys it needs; after it the session can encrypt.
* opening: syncs start the minimum delay apart and never work at the same time; who asks
  for the file to be closed finds it closed, however the sync ended; every call
  returns.
* conflict resolution: every local change is in the second request once; no
  reference is left pointing at the old id.
* decryption: all items in their order or a genuine failure; no goroutine stays
  behind; a caller who got items may change the keys.
* signing in: one call is one session at the server; the challenge of a token request is
  known there, if the parameters were got and no answer was lost; it ends.
* filters and checklists: an item is kept exactly if the filters say so, in any order;
  what is written to a note is read back; an operation touches its task only.

## 2. The modules

### EditLedger

The abstract specification of what an offline cache promises its user. Edits are
numbers; `mine` shows the last edit of every item, `pending` says which the cache
still tracks, `settled` which the account stored or refused. `MoveOn` is the only
way to stop tracking an edit or to show another one in its place, and it requires
the edit to be settled, or `lost`: the edits that a cache may lose without being told,
which `CacheSync` maps to those whose conflict a retry dropped.

### CacheSync

One client's database, the server and a running `cache.Sync` with `items.Sync`
inlined. An item is `[kind, val, ts, del]`: `val` numbers the edit that made its
content, `ts` is `UpdatedAtTimestamp`. A collection is a total map from UUIDs.

| code | model |
|---|---|
| `Item` bucket, its `Dirty` fields, `SyncToken` bucket | `db`, `flagged`, `token` |
| `SaveNotes`, `SaveTags`, `SaveEncryptedItems`, `SaveItems` | `Create`, `Edit`, `Delete` |
| `Sync` up to the request, `validateAndCleanSyncToken` | `Begin(age)` |
| first `syncItems`, with its pages and attempts | `Exchange`, with `Attempts`, `PutAgain`, `Reported`, `Retrieved` |
| `processSyncOutput`, `processConflicts`, `processConflict`, `processSyncConflict`, `processUUIDConflict` | `NoConflict`, `Resolve`, `AllSkipped`, with `ServerWins`, `LocalWins`, `DeletionWins`, `Duplicated` |
| second `syncItems`, `updateTimestampsOnSavedItems`, `DeDupe` | `Resync`, `Unresolved`, `Newest` |
| `SaveCacheItems`, `DeleteCacheItems`, `CleanCacheItems`, one transaction | `SaveSaved`, `DeleteSaved`, `Clean`, `SaveItems`, `DeleteItems` |
| `db.Drop("SyncToken")`, `db.Save(&sv)` | `DropToken`, `SaveToken` |
| every error return, a crash | `Abort` |

A `syncItems` is one step with two sets that say what its pages and attempts did. A
page that fails makes the code start again from `LastItemPut` of the first page, with
empty lists: of the items before it (`drop`) the output has neither what was saved nor
what was in conflict, and what was stored of the rest (`redo`) is put again, in conflict
with itself. Without a failure, and without an answer of more than `PageLimit` items,
both are empty. A single item (`own`) is put with every page of the attempt that succeeds
(`PutAgain`), and from the second page on is in conflict with what the first one stored.
`overlooked` keeps the edits whose conflict was dropped, `again` the items of `own`. The
sets allow somewhat more than the pages of one attempt can do (any items may be the ones
before `LastItemPut`), which can only add behaviours. A retry is one of the `MaxFaults`.

Details that look odd and are the code's. A blocked item (a changed items key) is
not pushed, but `Clean` cleans it: `dirty` is every item found dirty. When all
conflicts are skipped, `processSyncOutput` returns an empty output and no error:
`AllSkipped`. Saved items keep the content that was passed in (`mine` in
`Resync`), also where the server's version was pushed back. A return within
`MinSyncInterval` changes nothing and is a stuttering step. `cache.Sync` tries
`items.Sync` several times; a further try has the same input as the first,
and is an `Abort` followed by `Begin`. Several further errors (a failed
transaction, a failed decryption) leave what is committed, as a crash does.

### SyncPaging

What `CacheSync` takes for one step, `Exchange`, taken apart: the pages and attempts of
one `syncItems`, with another client that writes between them. The recursion of
`syncItemsViaAPI` is flattened: `call` is the input of the innermost call, `out`
what this attempt has appended. `PageAnswered` is one request with its answer,
`PageRefused`, `AnswerLost`, `ServerError` and `FatalError` are the branches of
`syncItems` on the error, and `Retry` is `try.Do`. `Goes`, `FinalItem`,
`ItemAfter` and `NextCursors` are the conditions and assignments around the
recursion, which depend on `finalItem` in ways that matter at its boundaries.
Items are reduced to names and timestamps.

### ItemsKeys

The keys on the server, in the database and in the session. An item is reduced to
the key it is under, its timestamps, and the `isDefault` mark of a key.
`cache.Sync` is followed again, in the steps at which keys move: `Begin` and
`MergeRetrieved` are `processCachedItemsKeys` (`MergeKeys`: the newer of two
versions wins, marks are lost on the way), `Request`, and `Resync` with it, is
`processSessionItemsKeysInSavedItems` (`ReplaceKeys`: the keys of the answer
replace the session's). `CanResolve` is what conflict resolution must decrypt.
`Committed` leaves any part of a bulk write committed. `Restart` ends the process
and imports the session again; `ImportSession` takes no keys over. Deletions made
here and refusals are in `CacheSync` and not repeated.

The MC modules give the constants their values and a symmetry set. Operators
marked `Variant:` are bugs that the checks must notice: each property is violated
when one of them takes the place of the definition it varies.

### SessionTokens

| here | code |
|---|---|
| `mem`, `keyring` | the token fields of `Session`; the `MinimalSession` in the keyring |
| `main` | where a process is in `GetSession`: before it, renewing, updating the keyring, done |
| `AddSession`, `RemoveSession`, `SignIn` | the functions of `session.go`; `SignIn` is `GetSession` without the keyring |
| `Load`, `Refresh`, `UpdateSession` | `GetSession`: the session is loaded and, near its expiry by the local clock, renewed and written back |
| `Renewed` | `RequestRefreshTokenWithSession` with its callers' assignments: new tokens, or none after a refusal |
| `RefreshLost`, `RefreshedLost` | the server renewed, the answer was lost, and `retryablehttp` sends the request again |
| `Begin` ... `Retried` | `makeSyncRequest` under `syncMutex`: 429 with repetitions, 401 with a renewal and one more request, everything else |
| `Exit` | `os.Exit` after 498, an error of `GetSession`, or a crash |

A token is a number that stands for the pair of access and refresh token; which
of the two a renewal presents (`authentication.go:697-713`) is abstracted. The
renewal's request and its answer are one step, since the mutex, or `GetSession`
running alone, keeps the process's own threads away, and other processes see
only the server. `exchanged` is a history of one run of a process.

### SyncOpening

What is around one sync. `Call` is `SyncWithRetry` (`Sync` with `MaxRetries` 0);
`Measure` and `Space` are `enforceMinimumSyncDelay` before and after its sleep under
`syncMutex`; `Refuse`, `Open`, `OpenFails`, `OpenGivenUp` and `OpenLate` are `Sync`
up to the open database, with the goroutine that opens it; `Try` is one call of
`items.Sync` and what `handleSyncError` makes of its error. Leaving `Sync` runs the
deferred function (`Left`), and `Fail` is what `SyncWithRetry` does with the error.
An error is the set of words that are looked for in its message, so that a message
may contain several (a rate limit that mentions "auth"). `file` says who has the
lock: a running sync, a failed attempt that is repeated, the program that called
(without `Close` the handle is in the output), or a handle that is lost. Time is
counted in ticks; what a sync does with the file is `CacheSync`.

### ItemCipher, DecryptAll and DecryptPool

`ItemCipher` has items as plaintext and encrypted, with symbolic encryption: an
item's key is sealed with an items key or the master key, its content with the
item's key. `KeyFor` is the search of `DecryptItem` for a key. `DecryptAll` is the
abstract specification: one answer, the plaintexts of all items that are not
deleted in their order, or the failure of one of them. `DecryptPool` is
`DecryptAndParse`: the caller, which works item by item below
`DecryptionBatchThreshold` and else fills a channel, closes it and collects
results; the workers; and the goroutine that closes the results. It implements
`DecryptAll` (`DecryptsAll`), of which it hides everything but `batch` and `answer`.
`Parse` passes items keys over and appends the rest (`Parsed`), or fails with the first
item it cannot read.

### ItemLists, Checklists, ConflictRefs and ItemTools

Three machines without concurrency. `ItemLists` is a list and the operations on it.
Each filter function returns what the list of filters is to do with the item
("yes", "no", and whether to go on), and `Found` is the walk over the filters; what
a filter *says* is defined next to the property, item by item and without an order
(`Wanted`). `Checklists` is the task list of a note and the checklist with groups;
texts are sequences of tokens, so that a title with a newline is told apart. A text grows
line by line (`Written`, the `strings.Builder`), and is split at the positions of its
newlines (`Breaks`, `Split`).
`ConflictRefs` is what `CacheSync` calls `Resolve`, taken apart: one action per kind
of conflict, with the keys, references and ids that `CacheSync` leaves out. An item that
cannot be decrypted, or not be parsed (an unknown content type, a schema it does not
satisfy, content that is no JSON), or is an items key (of which `DecryptAndParseItem`
returns nothing, so that `GetUUID` panics), ends the resolution where the code needs its
plaintext (`CannotDuplicate`, `CannotRemap`); an error and a panic are one outcome.
A loop that appends the elements it keeps (`DeDupe`, `RemoveDeleted`, `Filter`,
`removeTask`, the `DeDupe` of conflicts) is stated by the positions of what it keeps:
`At(s, S)` of `Positions` has the elements of `s` at the positions `S`, in their order.
`ItemTools` puts them beside each other: a behaviour uses one.

### SignIn

Processes that share a keyring register and add sessions. `Params` is
`processDoAuthRequestOutput` with the branch on the name of the second factor;
`ParamsMissing` is an answer 400, 401 or 404 without that name, which is no error, so
that `SignIn` derives a password from empty parameters (`derived` stays FALSE) and asks for
a token; `ParamsRefused` is every other answer. `TokenRefused` is an error if the answer has
a message, and else a session without tokens. `Registered` reports success for an
answer without a message, whether or not there is an account. `EnterCode` the second call of `SignIn` in `CliSignIn`, `Token` `requestToken`,
`Write` the keyring. `ParamsLost`, `TokenLost` and `RegisterLost` are lost answers,
after the server did what was asked or before, and `SendAgain` is
`retryablehttp`. `granted` and `repeated` are histories of one call.

## 3. Assumptions about the server and the transport

The server is not part of the repository. It is modelled as the code and
`SERVER_CONSECUTIVE_SYNC_ANALYSIS.md` use it:

* an item that exists is stored if and only if the pushed `updated_at_timestamp` is
  the stored one; otherwise the answer is a `sync_conflict` with the server's item;
* the items of an answer are those changed after the token, tombstones included
  (also in a full download), without those reported in a `sync_conflict`;
* the sync token is the time after storing;
* a cursor continues strictly after the last item of its page;
* refusals (`uuid_error`, `content_error` ...) may be given to any pushed item, a
  `uuid_conflict` only to a name the account does not have;
* items keys are never deleted.

`PagingAssumption` also says that no page shrinks to a single item. With the
code's numbers it holds: 150 scaled by 0.25 three times is 38, 10, 3, and four
attempts resize three times. `SyncInput.PageSize` starts at 0, as `cache.Sync`
and `items.Sync` call it.

* a session has one pair of access and refresh token at a time: issuing the next
  makes the last worthless, and presenting that is refused with JSON;
* an access token may expire at any time, whatever the machine's clock says;
* a challenge is left by the request for the parameters (one that is not answered with the
  parameters may leave it or not), replaced by the next of the same sign-in, and spent by the
  session that is issued for it; no token is given for a password that was derived from
  anything but the account's parameters; a code of the
  second factor is good for some time only.

`ExchangesAssumption` says what a second request starts from: the database has an item
under an id once; a conflict is about an item that was pushed, and the server's version of
it has the same id, and is an items key if the item is one; a `sync_conflict` comes with
that version; and if the server reports one item more than once (in two pages), it has
sent its version each time or never. Ids that `GenUUID` returns are new.
`ListsAssumption` says of a list only that its items have their fields, and `trashed` a truth
value; `TitlesAssumption` of titles only that they have none of the boxes that a line begins
with.

And about libraries and the operating system: bolt locks its file for the process
that opened it and gives up after the second that storm is told to wait
(`storm.Open`); the lock of a handle that is neither closed nor reachable stays until
the process ends; `retryablehttp` sends a request again at most `MaxRequestRetries`
times.

## 4. The runs

| run | question | bounds |
|---|---|---|
| `CacheSyncRefusals` | Is every edit stored, refused, overlooked or pending, does the database keep EditLedger's promise, is everything up to the saved token in it, do preferences survive, and does the inductive `SyncInv` hold? | 3 names, a stored note and preferences, notes and items keys created, 2 edits anywhere, 1 fault, three kinds of refusal, one item per page and per transaction |
| `CacheSyncLive` | Does the database become and stay equal to the server, unless a single item was put with every page; is it equal whenever nothing is dirty and its token is the last one (`CaughtUp`); is a duplicate only made of what somebody else changed or one exchange put twice? | 5 names, 1 stored note, 2 edits, 1 fault, one item per page, two per transaction, no refusals |
| `CacheSyncCleanIsSynced` (violated) | Is what is cleaned always synced? | 2 names, 2 edits, `uuid_error` |
| `SyncPagingRetries` | Is anything skipped, missed or asked for ever, and are the pages of an undisturbed call what one request would have been? | 3 pushed items, one of them new, 4 stored, pages of 2 to 5, 3 attempts, 1 write between pages |
| `SyncPagingConflicts` (violated) | Does a successful sync report every conflict? | 3 pushed items, 3 attempts |
| `ItemsKeysRotation` | Is every item under a key that is there or coming, does a sync start with the keys it needs, can the session encrypt after it? | 2 keys, 2 items, clock up to 5, 1 fault or restart |
| `SessionTokensMutex` | Does a process ever work with tokens it has renewed, and is the mutex of all requests given back? | 2 goroutines of one process, another process, 3 tokens, 2 repetitions after 429 |
| `SyncOpening` | Are syncs spaced and alone with the file, is it closed for who asked, how can its lock be lost, and does every call return? | 2 goroutines, one of which closes; 4 retries, delay of 2 ticks, five messages of errors, 1 abandoned open |
| `DecryptPool` | Is the answer that of `DecryptAll`, do all goroutines end, is the session left alone after success? | 3 workers, threshold 2, all lists of up to two of seven sorts of items, longer ones of up to four |
| `ItemTools` | Do filters mean what they say, does a saved checklist read back, do operations touch their task only, is every conflict answered with its references? | 3 lists, each filter alone and beside five others in both orders, all and any; 3 titles, 2 groups; exchanges of two items with up to two conflicts, the same one twice |
| `ItemToolsDuplicates` (violated) | Does a duplicate name its original? | as above, conflicts only matter |
| `SignIn` | Does a call make one session, is the challenge known, does a call end? | 2 processes, 3 calls, 1 repetition of a request |

Why these bounds are enough. The conditions in the code compare two versions of
one item, one item with the token, or two items of one batch; two names and a
spare one for a duplicate show every combination, and two edits are a local one and
a remote one between the two requests, or one after the sync. One fault
suffices for a state that no fault-free run reaches; several are covered by the
proofs. `BatchSize` 1 and 2 put a crash between any two writes and leave a partial
last batch. The pages of SyncPaging give two pages of items to push, three to
retrieve, and one resizing more than one retry needs. `MaxClock` ends runs in which
resolution fails again and again, each time leaving another duplicate at the
server (a hazard without a property: the code has no bound either).

Four retries reach the longest back-off (5 s), and two ticks are a delay that another
goroutine can interrupt; a second abandoned open does what the first does. Three
workers leave one idle for a batch of two; a batch of four has more jobs than
workers. One of two processes signs in while the other has its keyring question, and a
third call meets what both left. One repetition of a request is one that succeeds and one
that is the last. One item per page makes every answer of two items one with pages. To drop the
conflict of an item takes another one to push and a change at the server: with two edits
`CacheSyncRefusals` reaches it as a `uuid_conflict` between two new items, and not as a
`sync_conflict`, which takes a third edit; the proofs have both.

`CHECK_DEADLOCK FALSE` is set everywhere: a run stops at its bounds, a
finished `syncItems` or `DecryptAndParse` has no next step, and with the file's lock
lost a program may stop calling. Symmetry is over names that nothing has at
first, and is not used with a liveness property.

### What the violated runs show

* **A refused edit is cleaned** (`cache.go:1417`). Whatever became of an item during
  the exchange, its dirty flag is removed; after `uuid_error` the change is then
  neither on the server nor pushed again. `EditsAccounted` therefore says
  *settled*, stored or refused, and not *stored*.
* **A conflict of a page before a retry is lost** (`sync.go:128`). The retry starts
  after the items of the first page and drops its lists. `cache.Sync` then
  cleans the item and takes over the server's version. `EditsAccounted` and `LedgerKept`
  therefore except the edits of `overlooked`, of which `EditsAccounted` says that there
  are none without a fault.
* **A duplicate does not name its original** (`sync.go:478` and `544`). The pointer is
  set on an element of the decrypted slice after the item that is sent was made of
  it, although the message at `sync.go:429` announces it.

### Seen while modelling

No run states the following; each is in the model as the code has it.

Sync and keys:

* `NextItem` only moves if `finalItem > 0` (`sync.go:1031`), so that a push of one item is put
  with every page of the answer and conflicts with itself from the second page on. As the
  first request this makes a duplicate of an item that nobody else changed; as the second,
  although nothing failed, it is an "unexpected conflict" (`sync.go:308`), the output is dropped,
  the token stays, and the next sync, with as much to retrieve, ends in the same way.
  `NoSpuriousDuplicate` and `Convergence` except it.
* A push of several pages may be answered with two versions of an item, which an earlier
  page retrieved and a later one stored; `EncryptedItems.DeDupe` keeps the newest of them
  (`items.go:1273`), `Items.DeDupe` would keep the older (`items.go:1320`).
* When every conflict is skipped (`sync.go:692`) the output is empty, and with it the new
  timestamps of the items that were accepted are lost; their next edit conflicts
  with itself. `NoSpuriousDuplicate` is therefore checked without refusals.
* A rotated key replaces all others in the session (`sync.go:379`) until the next
  sync reads the database. In the meantime items under the older key cannot be
  decrypted, and a conflict about one fails every sync with "missing ItemsKey" or "not
  encrypted with default key" (`CannotResolve`, and in `ConflictRefs`
  `CannotDuplicate`, `CannotRemap`).
* Resolving a conflict also fails, in every sync that has it, for a local item of a type that
  `ParseItem` does not know or that its schema refuses, and panics for an items key in a
  `uuid_conflict` (`items.go:220-259`, `sync.go:516-524`).
* The mark of the default key is lost between database and session, so that a
  restarted client chooses the key created last.
* Items that were pushed without a conflict keep references to an id that resolution
  replaced, and encrypting an item again drops its `DuplicateOf`.

Opening and retrying:

* After "invalid sync token" the token is to be dropped from the database, which
  `handleSyncError` opens although its own sync has it locked; so the same token is sent
  again, three times.
* The time-out that `calculateSyncTimeout` computes is logged, and used for nothing else.
* A database that opens after `Sync` has given up stays locked until the process ends,
  also for callers that asked for `Close`
  (`cache/consecutive_sync_isolated_test.go:182` expects a proper cleanup).
  `LostTwoWays` says that this and a repeated sync without `Close` are the only ways.

Sessions:

* A refused renewal empties the session (`authentication.go:751`): the status of
  the answer is not looked at, and JSON without tokens is no error. `GetSession`
  then writes the empty tokens to the keyring. One lost answer suffices, since the
  HTTP client sends the renewal again with a token that is spent.
* Tokens renewed after a 401 stay in memory, while the keyring keeps the spent ones.
* `AddSession` reports success with a session without tokens (`session.go:282`) when the code
  of the second factor is wrong (`authentication.go:1049-1057`), because the second call of
  `SignIn` is answered as the first was and nobody looks, and when the server refuses the token
  without a message (`617-626`).
* An answer 400, 401 or 404 to the request for the parameters is no error
  (`authentication.go:291-298`): `SignIn` goes on with empty parameters, and asks for a token
  with a challenge that the server may not have been left.
* `Register`, sent again after a lost answer, says that the address is taken by someone.
* Of two processes that add a session at once, both are told that none is stored, and the
  second replaces the session of the first.

Data:

* Filters: with "any", a note whose title "!=" rules out ends the walk with no, and
  with "all" does not; with "all" only the first titled tag decides about
  "tagtitle"; "!=" of "taguuid" ends the walk with yes when all should hold; a key
  nobody knows counts as a match; filtering for notes removes the tags, so that a
  second filter by tag finds nothing; `FilterAllTypes` ignores the type.
  `FilterMeansWhatItSays` is about the filters that remain (`Regular`).
* Checklists: an empty list is written as a text that cannot be read, a title with a
  newline makes reading it panic, and of two tasks with one title neither can be
  completed once one is.
* After an error of `DecryptItems` its workers go on and read the session's keys.

### Fairness

`CacheSync!FairSpec` has weak fairness of starting a sync (the application syncs
again and again; for any age of the token) and of the running sync's own steps
(requests end in an answer or an error, since the HTTP client has a time-out).
No edit, remote change or fault is fair, so that "edits stop" is among the
behaviours checked. `SyncPaging!FairSpec` has weak fairness of the request, with
either outcome; `tick` makes every request change the state, so that asking for
ever would be a behaviour and not stuttering. `SessionTokens!FairSpec` has weak
fairness of the steps of a request, whose client and context have time-outs;
waiting for the mutex, syncing again and exits are not fair, so nothing is claimed
about which goroutine gets the mutex.

`SyncOpening!FairSpec` has weak fairness of the clock and of the steps of a call, each
of which waits for a bounded time (a sleep, the 30 s of the opening, the time-out of
a request), and strong fairness of taking `syncMutex`: Go hands a mutex over to a
goroutine that has waited for a millisecond. Nothing says that a lost lock comes back,
and no call is fair. `DecryptPool!FairSpec` has weak fairness of the caller, of each worker
and of the closer: goroutines are scheduled. `SignIn!FairSpec` has weak fairness of
the steps of a call, the prompt included, which the user may break off.

## 5. The proofs

All theorems hold for every value of the constants that satisfies the named
assumption of the module (`ConstantsAssumption`, `PagingAssumption`,
`KeysAssumption`, `TokensAssumption`, `OpeningAssumption`, `SignInAssumption`,
`PoolAssumption`, `ListsAssumption`, `ExchangesAssumption`, `TitlesAssumption`), and for
any number of edits, faults, other clients' writes, items, processes and workers. Every
safety invariant and action property that a passing run checks is proved; what is left to
TLC is liveness.

**CacheSyncProofs.** `TypeCorrect` and `Inductive` (`Spec => []IInv`),
`NoEditForgotten` (`EditsAccounted`) and `LedgerRefined` (`LedgerKept`: CacheSync
implements EditLedger). `EditsAccounted` is not inductive: when a transaction
writes `got`, nothing in it says that what is written was settled. `IInv` follows
each edit through the hands of a sync. It is pending in the database and in
`push` (`PushCurrent`); then answered or in conflict (`Answered`,
`ConflictsKnown`), or its conflict was dropped by a retry, which puts it among the
overlooked; then pushed again under its own or a new name, or given up
(`Reconciled`); and from the first write on everything in hand is settled
(`WritesSettled`), so that writing, cleaning and deleting in any order, cut at any
point, forget nothing. The refinement is a case analysis over the same steps: an
application's edit is `Write`, an answer is `Settle`, a transaction is
`MoveOn` of its items, all else leaves the ledger unchanged. The ledger's `lost` edits are
the overlooked ones, and the second conjunct of `EditsAccounted` says that there are none
unless a request failed: of a client whose pages are never asked for again, both theorems
say that every edit is pending, stored or refused.

Its second part is about the token: `TokenInductive`, `SyncInductive` (`Spec => []SyncInv`),
`TokenCoversAll` (`TokenCovers`) and `ProtectedAreKept` (`ProtectedKept`). That the
database has everything up to its token is inductive only together with what is on
its way there. `TokenInv` says it of the saved token and of the one that was sent
(`BothCovered`), that every version up to `newToken` is known, retrieved, saved or in a
conflict (`AllRetrieved`), that later all of them are in `got` and, from their
transaction on, in the database (`AllWritten`), and that an edit which is not
pushed, or not stored, was refused (`BasedRefused`). The new token is saved after all
transactions, so that a cut at any point leaves an older token, or none. It also says
that no push deletes anything protected (`NoProtectedPushed`), from which the action
property follows step by step.

Its third part proves `DuplicateInductive` and, from it, `NoneSpurious`
(`NoSpuriousDuplicate`) under the hypothesis `Refusals = {}`, as in the run: with refusals
a client may conflict with itself (see "Seen while modelling"). `DuplicateInv` says that
of an item which nobody else changed the database and the server have the same
timestamp, unless the new one is in `saved` and its transaction is to come
(`BasesKnown`); a conflict is then about an item that somebody else did change, or that this
exchange put twice (`ConflictsDisturbed`): `disturbed` has both.

Its last part is what of `Convergence` is safety. `CaughtUpIsInSync` (`CaughtUp`) is about
where it ends: a database without dirty items whose token is of the server's last
change is equal to the server. One direction is `TokenInv`, every version up to the token
is in the database. The other is that the database has nothing that the server
does not know: `StoredInv` (`StoredInductive`): what is clean, and what was ever stamped, is on
the server, what is dirty is either pushed with the first request or a stamped items
key, and a server that refuses nothing then has it, if only as the other side of a
conflict. The hypotheses are those of the run: `Refusals = {}`, since an item that
was refused stays in the database clean (the violated run), and notes only, since a
change of an items key that is given up (`GivenUp`) stays there until the next sync, and
an items key or preferences deleted by another client stay on purpose. `NotesOnly` says that among notes no conflict is given up.
The strengthenings themselves (`DuplicateInv`, `StoredInv`, `NotesOnly`) are not among the properties of a run;
TLC finds them true in the instance of `CacheSyncLive` as well.
`SyncsAreBounded` (`SyncRunsOut`) needs no hypothesis: each step of a sync leaves fewer of its
ten phases, or has written more of the items of this one.

**SyncPagingProofs.** `PagesInductive` (`PagesInv`), `PagingInductive` (`PagingInv`),
`NoneSkipped` (`PushesAnswered`), `NoneMissed` (`ChangesCovered`), `PagesAreBounded`
(`PagesRunOut`) and `ExchangedAtOnce` (`OneExchange`). The strengthening `PagesInv` says
that up to the cursor, else the token, of the next request everything is covered by the output
(`CoveredSoFar`), that everything before any of the three positions a retry can start
from was answered (`AnsweredSoFar`), and that pages have more than one item
(`LargePages`), without which `finalItem` could stop at the first item for ever.

`OneExchange` is about a `syncItems` whose first attempt is answered and during which no other
client writes: its pages come to the same as one request, for any number of pages and for a push
of any length. The server changes with every page, since the earlier ones were stored; so the
claim compares with `InitialServer`, and `AtOnceSoFar` says it of every moment: what was pushed so
far is stored or refused as it would have been at first, what comes later is untouched, and no
page goes back behind the token. Two differences remain, both in its statement. Of an item that
was pushed the output may have a version too many, because a page retrieves what an
earlier one stored, or is about to overwrite; `DeDupe` keeps the newest. And a single
item is put again with every page, so that it may be in conflict with what was saved of it
(`OwnConflicts`), which is `PutAgain` of `CacheSync`. The run has a push of three items; the
theorem has pushes of any length, a single item among them. Of a call that retries it says nothing.

**ItemsKeysProofs.** `KeysInductive`, `NoneOrphaned` (`NoItemOrphaned`), `Usable`
(`UsableAfterSync`) and `StartsWithKeys` (`StartsDecryptable`). `KeyInv` rests on
two facts: everything encrypted anywhere is under a key of the account
(`KeysKnown`), and the database has every key up to its token, while what a
running answer holds makes up for the rest up to the new one (`KeysCovered`). So an
item can be committed without its key only if the token is still older than
that key. `DefaultComing` says where the default key of an unfinished sync will
come from.

**SessionTokensProofs.** `TokensInductive` and `NeverTwice` (`NoTokenTwice`). A
thread's tokens are good only if nobody replaced them since they were read, so
`TokensInv` says who can: a thread is in a request exactly if it holds its
process's mutex (`MutexHeld`), its tokens are the session's (`UsesSession`), and
those are not among the ones the process has renewed (`SessionUnspent`).

`RequestsAreBounded` (`RequestsRunOut`) is what is safety in `MutexReleased`: whoever holds
the mutex either gives it back with the next step or has less left to send, with 429
answered by another request `MaxRetries` times at most. The exception is a renewal that the
server carried out and whose answer is lost: the HTTP client sends it again.

**SyncOpeningProofs.** `OpeningInductive`, `NeverTwoSyncs` (`NoTwoSyncsWork`),
`ClosingCleansUp` (`CleanedUp`), `SyncsAreSpaced` (`SyncsSpaced`) and `HandleLostTwoWays`
(`LostTwoWays`). `OpeningInv` says who the file belongs to at each place of a call: who
works holds it (`WorkHoldsFile`), who is inside `syncMutex` is the one it names
(`MutexInv`), and a call that repeats without `Close` is the one that keeps it
(`KeptInv`). That two syncs do not work at once follows from the file's single owner,
not from the mutex, which is given back before the file is opened.

`CallsAreBounded` (`CallsRunOut`) is what is safety in `CallsReturn`: a call goes through at
most seven stages in each attempt (`Stages`), and every step of it leaves fewer; sleeps
are bounded by the delay and the longest back-off and get shorter with each tick; what
other callers do changes neither. This holds with the file locked for ever.

**SignInProofs.** `SignInInductive`, `OneSessionForEach` (`OneSessionEach`) and
`ChallengeIsKnown` (`ChallengeKnown`). `OneSessionEach` alone is not inductive, since a
request for a token that is sent again would be granted twice if its challenge were
still good: `ChallengeSpent` says that while a call asks for its token either the server
has the challenge and has granted nothing, or it has granted one session and has spent
the challenge. It also says that a call without a challenge at the server, to which nothing was
granted, has not got the parameters (`derived`), from which `ChallengeKnown` follows; of a call
that went on without parameters nothing is claimed but that it is granted nothing. Two calls write different sessions because each was the latest the
server had issued when it was granted. `CallsAreBounded` (`CallsRunOut`) is what is safety in
`CallsEnd`: a call has five stages before it at most (`StagesLeft`; two calls of `SignIn`,
since the code is asked for once), and its steps leave fewer or send the same request again,
which is counted.

**DecryptPoolProofs.** `PoolInductive`, `QuietWhenAnswered` (`QuietAfterSuccess`),
`PoolDecryptsAll` (`Spec => All!AllSafety`: the safety part of `DecryptsAll`, step by
step) and `AllOrNothing` (`NothingLeftOut`). `PoolInv` follows each job through the
channels: until the caller stops, one that
was taken is in a worker's hands, among the results or in the slice (`TakenInv`); the
slice has at each place the plaintext of its item (`FilledInv`); workers end only when
the queue is closed and empty, and the results are closed after the last of them
(`PhaseInv`). So a full slice is the answer of `DecryptAll`, and no worker is left that
could read the session's keys. `DecryptAll` states its
answer by positions (`Wanted`, `InOrder`) and not by `SelectSeq`, whose result for every
batch could only be computed by induction over sequences; so does `Parsed`, which is why
`NothingLeftOut` follows from the answer: positions kept of positions kept are positions
of the batch.

`NobodyIsStuck` (`NobodyStuck`) and `PoolRunsOut` (`StepsRunOut`) are what is safety in
`PoolEnds`: until caller, workers and closer have ended, one of them can go on, and each
step leaves less to do. The danger is a caller that returns at the first failure and
never empties the results channel. No worker waits on it, because a job is in one worker's
hands or has one result, and never both (`ResultsInv`), and jobs are distinct undeleted
items, whose number is the channel's capacity (`RoomForResults`, a counting argument).
That what can go on does go on is fairness, and so left to TLC.

**ItemToolsProofs.** `ConflictInductive` and, from it, `ReferencesAreFollowed`
(`ReferencesFollow`) and `AllConflictsAnswered` (`EveryConflictAnswered`), which are about
resolutions that succeed; `FiltersDoWhatTheySay`
(`FilterMeansWhatItSays`); `OthersAreKept` (`OnlyTheTaskChanges`); `NotesHoldTasks`
(`NoteInv`) and `WhatIsSavedReadsBack` (`SavedTextReadsBack`).

They rest on lemmas about positions: n positions can be counted through in their order
(`NthInOrder`), so that `At` keeps the elements at the positions and their order
(`AtKeeps`); a set of numbers has a least one (`Least`), which takes the place of induction
where the code takes the first or the last of several.

`ConflictInv` follows the conflicts before `next`, the `Processed` ones. After `DeDupe` no two
conflicts are about one id (`StepInv`): two about one item have the same identity, since
the server named its version both times or never. New ids are of processed items,
each its own, and none is an id of the account (`NewIdsInv`); so what is to be sent for the
next conflict, under its id or a new one, meets no id that is there already
(`ResolvedInv`). What is sent for a conflict is the local change, or says that it
was deleted (`SentInv`). Only `updateEncryptedItemRefs` needs all of them at once: it
changes references and keys but no id (`RemappedFields`), and a reference it renames
leads to a new id, which is not itself renamed, because new ids are fresh.

`KeptIsWanted` has one lemma for each type of item, that the outcome of a filter
is what the filter says (`OutcomeSays`), and one for each way to combine them, that the
walk over the outcomes finds a "yes" (`FoundAny`) or a "matched" and no "no" (`FoundAll`).
The order of the filters drops out of both.

`OthersAreKept` needs only that groups are groups of tasks (`GroupsInv`), and that
rebuilding the list of tasks and the list of groups leaves each in its place.

`WhatIsSavedReadsBack` is about a text of any length. `NoteInv` says that the text is that of
the tasks saved last. Where a line is in it depends on the lengths of all before it, which is
what the builder of `Written` is for: `TextIsLines` has the lines one after another,
from step to step (`Stepwise`: what holds at first and is kept by each step holds at the last, by
the least step at which it would fail). The breaks of a text of plain titles are then the ends
of its lines (`BreaksOfText`), so that `Split` gives back each line (`SplitAt`), and sorting
permutes tasks that are sorted already (`SortedTasks`).

Only model-checked are the liveness properties (`Convergence`, `Terminates`, `MutexReleased`,
`CallsReturn`, `PoolEnds`, `CallsEnd`, and the fairness that `DecryptsAll` promises): liveness
under fairness and `ENABLED` are out of the prover's reach. The part without fairness is
proved, that the steps run out: `SyncRunsOut`, `PagesRunOut`, `RequestsRunOut`, the `CallsRunOut`
of calls and of sign-ins, `NobodyStuck` and `StepsRunOut`; and of `Convergence` also where
it ends, `CaughtUp`. That what can go on does go on, and
that all these measures have a last value, is fairness, and so left to TLC.

## 6. What is left out, and the plan

Abstracted: contents, encryption itself, the timestamps' format, the spelling of keys of
filters and the order of checklists by time. Not modelled, and why:

* the getters, setters and schemas of the item types, the logging and the environment: they
  set one field or call a library, and have no state to relate;
* the crypto primitives: external, and symbolic here;
* import and export, `compareItems`, `ReEncrypt` and the JSON of checklists: conversions
  of data that nothing else reads back;
* `RequestRefreshToken`, which nothing in `src/` calls, and the console's
  prompts beyond their outcome.

What the plan has left:

1. `CacheSync!Exchange` and `SyncPaging` have items in different detail (content there, names and
   timestamps here). `OneExchange` says for the latter what an undisturbed `Exchange` does for the
   former; that the two agree is by reading.
2. The same for a `syncItems` that retries: `Attempts` allows all that `SyncPaging` can do, and
   somewhat more; that it does is by reading, too.
3. What lies between `SyncRunsOut` and `CaughtUp`: once edits and faults stop, a sync that is
   not cut leaves less that is flagged or behind the server, and the second one after the
   last conflict finds nothing to do.
