----------------------------- MODULE DecryptPool -----------------------------
(***************************************************************************)
(* EncryptedItems.DecryptAndParse: DecryptItems works item by item or, for *)
(* a large batch, with a pool of workers, and Parse makes items of what    *)
(* they return.                                                            *)
(*                                                                         *)
(* The jobs channel is a queue that the caller fills before it looks at    *)
(* any result, so it holds the jobs taken+1 .. Len(at), where at[k] is the *)
(* position in the batch of the k-th job.  A result is named by the index  *)
(* of its job, which determines the rest of it.                            *)
(***************************************************************************)
EXTENDS ItemCipher, Naturals, FiniteSets

CONSTANTS
    Batches,        \* the lists of encrypted items to choose from
    Worker,         \* 1 .. runtime.NumCPU()
    Threshold       \* DecryptionBatchThreshold

ASSUME PoolAssumption ==
    /\ Threshold \in Nat
    /\ Worker \subseteq Nat \ {0} /\ 1 \in Worker
    /\ \A b \in Batches : b \in Seq({b[i] : i \in DOMAIN b})

VARIABLES
    batch,
    pc,             \* the caller
    next,           \* the position in the batch it has come to
    at, closed,     \* the jobs channel: what was sent, and whether it is closed
    taken,
    alive, hand,    \* the workers that run, and the job in their hands (or 0)
    results, finished,   \* the results channel, and whether it is closed
    decrypted,      \* the slice, as far as it is filled
    answer,         \* of DecryptItems
    parsed          \* of Parse

callerVars == <<pc, next, decrypted, answer, parsed>>
channelVars == <<at, closed, taken, results, finished>>
vars == <<batch, callerVars, channelVars, alive, hand>>

Unanswered == [status |-> "none"]
Ok(items) == [status |-> "ok", items |-> items]
Failed(e) == [status |-> "failed", item |-> e]

\* DecryptAndParse passes no keys of its own
Works(e) == Decryptable(e, <<>>)

Undeleted == {i \in DOMAIN batch : ~batch[i].deleted}
nonDeletedCount == Cardinality(Undeleted)

Init ==
    /\ batch \in Batches
    /\ pc = "start" /\ next = 1
    /\ at = <<>> /\ closed = FALSE /\ taken = 0
    /\ alive = {} /\ hand = [w \in Worker |-> 0]
    /\ results = <<>> /\ finished = FALSE
    /\ decrypted = <<>>
    /\ answer = Unanswered /\ parsed = Unanswered

---------------------------------------------------------------------------
(* The caller *)

Start ==
    /\ pc = "start"
    /\ \/ /\ nonDeletedCount = 0
          /\ pc' = "parse" /\ answer' = Ok(<<>>)
          /\ UNCHANGED alive
       \/ /\ nonDeletedCount # 0 /\ nonDeletedCount < Threshold
          /\ pc' = "sequential"
          /\ UNCHANGED <<alive, answer>>
       \/ /\ nonDeletedCount # 0 /\ nonDeletedCount >= Threshold
          /\ pc' = "queue"
          /\ alive' = {w \in Worker : w <= nonDeletedCount}
          /\ UNCHANGED answer
    /\ UNCHANGED <<batch, next, channelVars, hand, decrypted, parsed>>

Skip ==
    /\ pc \in {"sequential", "queue"}
    /\ next \in DOMAIN batch /\ batch[next].deleted
    /\ next' = next + 1
    /\ UNCHANGED <<batch, pc, channelVars, alive, hand, decrypted, answer, parsed>>

\* Variant: an item that fails is passed over.
DecryptNextLenient ==
    /\ pc = "sequential"
    /\ next \in DOMAIN batch /\ ~batch[next].deleted
    /\ IF Works(batch[next])
       THEN decrypted' = Append(decrypted, DecryptItem(batch[next])) /\ at' = Append(at, next)
       ELSE UNCHANGED <<decrypted, at>>
    /\ next' = next + 1
    /\ UNCHANGED <<batch, pc, closed, taken, results, finished, alive, hand, answer, parsed>>

\* decryptItemsSequential
DecryptNext ==
    /\ pc = "sequential"
    /\ next \in DOMAIN batch /\ ~batch[next].deleted
    /\ IF Works(batch[next])
       THEN /\ decrypted' = Append(decrypted, DecryptItem(batch[next]))
            /\ at' = Append(at, next)
            /\ next' = next + 1
            /\ UNCHANGED <<pc, answer>>
       ELSE /\ answer' = Failed(batch[next])
            /\ pc' = "parse"
            /\ UNCHANGED <<decrypted, at, next>>
    /\ UNCHANGED <<batch, closed, taken, results, finished, alive, hand, parsed>>

SequentialReturns ==
    /\ pc = "sequential" /\ next \notin DOMAIN batch
    /\ answer' = Ok(decrypted)
    /\ pc' = "parse"
    /\ UNCHANGED <<batch, next, channelVars, alive, hand, decrypted, parsed>>

\* decryptItemsParallel: queue the jobs, whose channel has room for all of them
Queue ==
    /\ pc = "queue"
    /\ next \in DOMAIN batch /\ ~batch[next].deleted
    /\ at' = Append(at, next)
    /\ next' = next + 1
    /\ UNCHANGED <<batch, pc, closed, taken, results, finished, alive, hand,
                   decrypted, answer, parsed>>

CloseJobs ==
    /\ pc = "queue" /\ next \notin DOMAIN batch
    /\ closed' = TRUE
    /\ pc' = "collect"
    /\ UNCHANGED <<batch, next, at, taken, results, finished, alive, hand,
                   decrypted, answer, parsed>>

\* Variant: results are kept in the order in which they arrive.
CollectInArrivalOrder ==
    /\ pc = "collect" /\ results # <<>>
    /\ results' = Tail(results)
    /\ LET e == batch[at[Head(results)]]
           slot == Cardinality(DOMAIN decrypted) + 1 IN
       IF Works(e)
       THEN /\ decrypted' = [k \in DOMAIN decrypted \cup {slot} |->
                               IF k = slot THEN DecryptItem(e) ELSE decrypted[k]]
            /\ UNCHANGED <<pc, answer>>
       ELSE /\ answer' = Failed(e) /\ pc' = "parse"
            /\ UNCHANGED decrypted
    /\ UNCHANGED <<batch, next, at, closed, taken, finished, alive, hand, parsed>>

\* a result: the first failure ends the collection, a plaintext goes to its place
Collect ==
    /\ pc = "collect" /\ results # <<>>
    /\ results' = Tail(results)
    /\ LET k == Head(results)
           e == batch[at[k]] IN
       IF Works(e)
       THEN /\ decrypted' = [j \in DOMAIN decrypted \cup {k} |->
                               IF j = k THEN DecryptItem(e) ELSE decrypted[j]]
            /\ UNCHANGED <<pc, answer>>
       ELSE /\ answer' = Failed(e) /\ pc' = "parse"
            /\ UNCHANGED decrypted
    /\ UNCHANGED <<batch, next, at, closed, taken, finished, alive, hand, parsed>>

ParallelReturns ==
    /\ pc = "collect" /\ results = <<>> /\ finished
    /\ answer' = Ok(decrypted)
    /\ pc' = "parse"
    /\ UNCHANGED <<batch, next, channelVars, alive, hand, decrypted, parsed>>

\* DecryptAndParse goes on to Parse unless there was an error
Parse ==
    /\ pc = "parse"
    /\ \/ /\ answer.status = "failed"
          /\ parsed' = answer
       \/ /\ answer.status = "ok" /\ Unparsed(answer.items) # {}
          /\ parsed' = [status |-> ParseFailure(answer.items)]
       \/ /\ answer.status = "ok" /\ Unparsed(answer.items) = {}
          /\ \E items \in Parsed(answer.items) : parsed' = Ok(items)
    /\ pc' = "done"
    /\ UNCHANGED <<batch, next, channelVars, alive, hand, decrypted, answer>>

---------------------------------------------------------------------------
(* The workers, and the goroutine that waits for them *)

Take(w) ==
    /\ w \in alive /\ hand[w] = 0
    /\ taken < Len(at)
    /\ taken' = taken + 1
    /\ hand' = [hand EXCEPT ![w] = taken + 1]
    /\ UNCHANGED <<batch, callerVars, at, closed, results, finished, alive>>

\* Variant: the results channel has room for one result.
SendUnbuffered(w) ==
    /\ w \in alive /\ hand[w] # 0
    /\ results = <<>>
    /\ results' = Append(results, hand[w])
    /\ hand' = [hand EXCEPT ![w] = 0]
    /\ UNCHANGED <<batch, callerVars, at, closed, taken, finished, alive>>

\* DecryptItem, and its result into a channel that has room for all of them
Send(w) ==
    /\ w \in alive /\ hand[w] # 0
    /\ Len(results) < nonDeletedCount
    /\ results' = Append(results, hand[w])
    /\ hand' = [hand EXCEPT ![w] = 0]
    /\ UNCHANGED <<batch, callerVars, at, closed, taken, finished, alive>>

Stop(w) ==
    /\ w \in alive /\ hand[w] = 0
    /\ closed /\ taken = Len(at)
    /\ alive' = alive \ {w}
    /\ UNCHANGED <<batch, callerVars, channelVars, hand>>

\* Variant: the closer does not wait for jobs that are still in a worker's hands.
CloseResultsEarly ==
    /\ pc \notin {"start", "sequential", "queue"} /\ closed /\ taken = Len(at)
    /\ ~finished
    /\ finished' = TRUE
    /\ UNCHANGED <<batch, callerVars, at, closed, taken, results, alive, hand>>

CloseResults ==
    /\ closed /\ alive = {}      \* started after the jobs are closed
    /\ ~finished
    /\ finished' = TRUE
    /\ UNCHANGED <<batch, callerVars, at, closed, taken, results, alive, hand>>

---------------------------------------------------------------------------
Caller ==
    \/ Start \/ Skip \/ DecryptNext \/ SequentialReturns
    \/ Queue \/ CloseJobs \/ Collect \/ ParallelReturns \/ Parse

Work(w) == Take(w) \/ Send(w) \/ Stop(w)

Next ==
    \/ Caller
    \/ \E w \in Worker : Work(w)
    \/ CloseResults

Spec == Init /\ [][Next]_vars

\* every goroutine is scheduled
FairSpec ==
    /\ Spec
    /\ WF_vars(Caller)
    /\ \A w \in Worker : WF_vars(Work(w))
    /\ WF_vars(CloseResults)

---------------------------------------------------------------------------
(* Properties *)

\* The answer is that of DecryptAll: all plaintexts in order, or a genuine
\* failure, for a batch of any size and any order in which workers finish.
All == INSTANCE DecryptAll WITH Plain <- DecryptItem
DecryptsAll == All!AllSpec

\* When DecryptItems returns without an error, no worker still reads the session,
\* whose keys the caller may replace.  (After an error, workers may.)
QuietAfterSuccess ==
    answer.status = "ok" => alive = {} /\ \A w \in Worker : hand[w] = 0

\* No goroutine is left behind, also when the first failure ends the collection:
\* the workers and the closer of a pool end.
PoolEnds == <>(pc = "done" /\ alive = {} /\ (closed => finished))

\* Whoever gets items gets all of them but the items keys: one item that cannot
\* be decrypted or parsed, and there are none.
NothingLeftOut ==
    parsed.status = "ok" =>
        {i \in DOMAIN batch : ~batch[i].deleted /\ batch[i].kind # "ItemsKey"}
            = {i \in DOMAIN batch : \E j \in DOMAIN parsed.items :
                                       parsed.items[j] = DecryptItem(batch[i])}

---------------------------------------------------------------------------
(* The inductive invariant *)

Sent == 1..Len(at)
InHands == {k \in Sent : \E w \in alive : hand[w] = k}
Arrived == {k \in Sent : \E i \in DOMAIN results : results[i] = k}

TypeOK ==
    /\ batch \in Batches
    /\ pc \in {"start", "sequential", "queue", "collect", "parse", "done"}
    /\ next \in 1..(Len(batch) + 1)
    /\ at \in Seq(DOMAIN batch) /\ closed \in BOOLEAN
    /\ taken \in 0..Len(at)
    /\ alive \subseteq Worker
    /\ hand \in [Worker -> {0} \cup Sent]
    /\ results \in Seq(Sent) /\ finished \in BOOLEAN

\* the jobs are the undeleted items up to the next, in their order
JobsInv ==
    /\ Len(at) < next
    /\ \A i \in 1..(next - 1) : ~batch[i].deleted => \E k \in Sent : at[k] = i
    /\ \A k \in Sent : at[k] < next /\ ~batch[at[k]].deleted
    /\ \A j, k \in Sent : j < k => at[j] < at[k]

\* a job that was taken is in someone's hands, in the channel, or in the slice
TakenInv ==
    pc \in {"queue", "collect"} =>
        \A k \in 1..taken : k \in InHands \/ k \in Arrived \/ k \in DOMAIN decrypted

\* the slice holds at k the plaintext of the k-th undeleted item
FilledInv ==
    /\ \A k \in DOMAIN decrypted : k \in Sent /\ Works(batch[at[k]])
    /\ decrypted = [k \in DOMAIN decrypted |-> DecryptItem(batch[at[k]])]

\* workers end when there is nothing left to take
PhaseInv ==
    /\ pc = "start" => alive = {} /\ next = 1
    /\ pc = "sequential" => alive = {} /\ DOMAIN decrypted = Sent
    /\ pc \in {"start", "sequential", "queue"} => ~closed
    /\ pc = "queue" => alive # {}
    /\ pc = "collect" => closed
    /\ closed => next = Len(batch) + 1 /\ (alive = {} => taken = Len(at))
    /\ finished => closed /\ alive = {}
    /\ \A w \in Worker : w \notin alive => hand[w] = 0

\* an answer of plaintexts is complete and in order, a failure is genuine
Answered ==
    \/ /\ \A i \in DOMAIN batch : ~batch[i].deleted => \E k \in Sent : at[k] = i
       /\ \A k \in Sent : Works(batch[at[k]])
       /\ answer = Ok([k \in Sent |-> DecryptItem(batch[at[k]])])
    \/ \E i \in DOMAIN batch :
          /\ ~batch[i].deleted /\ ~Works(batch[i])
          /\ answer = Failed(batch[i])

AnswerInv == IF pc \in {"parse", "done"} THEN Answered ELSE answer = Unanswered

WorkInv == TypeOK /\ JobsInv /\ TakenInv /\ FilledInv /\ PhaseInv /\ AnswerInv

\* a job is taken once and has one result, and a pool's jobs are closed in the end
ResultsInv ==
    /\ \A w \in Worker : hand[w] <= taken
    /\ \A v, w \in Worker : hand[v] = hand[w] /\ hand[v] # 0 => v = w
    /\ \A i \in DOMAIN results : results[i] <= taken /\ \A w \in Worker : hand[w] # results[i]
    /\ \A i, j \in DOMAIN results : results[i] = results[j] => i = j
    /\ alive # {} => closed \/ pc = "queue"
    /\ \A w \in alive : w <= nonDeletedCount

PoolInv == WorkInv /\ ResultsInv

---------------------------------------------------------------------------
(* Why a pool ends: somebody can always go on, and not for ever.           *)

Ended == pc = "done" /\ alive = {} /\ (closed => finished)

\* A worker with a result never waits for room: somebody may have stopped
\* collecting, but the channel holds a result of every job.
CanGo(w) == IF hand[w] = 0 THEN taken < Len(at) \/ closed
                           ELSE Len(results) < nonDeletedCount

\* While the pool has not ended, someone can go on: the caller, unless it waits
\* for a result; a worker; or the closer (src/items/itemDecryption.go:186-262).
NobodyStuck ==
    \/ Ended
    \/ pc \in {"start", "sequential", "queue", "parse"}
    \/ pc = "collect" /\ (results # <<>> \/ finished)
    \/ \E w \in alive : CanGo(w)
    \/ closed /\ alive = {} /\ ~finished

Busy == {w \in alive : hand[w] # 0}

PhasesLeft ==
    CASE pc = "start" -> 4
      [] pc \in {"sequential", "queue"} -> 3
      [] pc = "collect" -> 2
      [] pc = "parse" -> 1
      [] pc = "done" -> 0

JobsLeft ==
    4 * (Len(batch) + 1 - next) + 3 * (Len(at) - taken)
    + 2 * Cardinality(Busy) + Len(results)

GoroutinesLeft ==
    (IF pc = "start" THEN Len(batch) ELSE Cardinality(alive)) + (IF finished THEN 0 ELSE 1)

StepsLeft == PhasesLeft + JobsLeft + GoroutinesLeft

\* Every step of the caller, a worker or the closer leaves less to do, so that
\* no behaviour goes on for ever.
StepsRunOut == [](StepsLeft \in Nat) /\ [][StepsLeft' < StepsLeft]_vars
=============================================================================
