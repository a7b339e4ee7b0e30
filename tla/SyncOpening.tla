----------------------------- MODULE SyncOpening -----------------------------
(***************************************************************************)
(* Around one sync of the cache: the minimum delay between syncs, the lock *)
(* of the database file, the attempts of Sync and those of SyncWithRetry.  *)
(*                                                                         *)
(* Callers are goroutines of one process that call SyncWithRetry (Sync is  *)
(* the case MaxRetries = 0).  What Sync does with the open database is     *)
(* CacheSync; here it succeeds or fails.  Time is counted in ticks: since  *)
(* the last sync, up to MinDelay, and in what a caller has left to sleep.  *)
(***************************************************************************)
EXTENDS Integers

CONSTANTS
    Caller,
    Closing,      \* the callers whose SyncInput says Close
    None,
    MinDelay,     \* common.SyncDelayMinimum
    MaxRetries,   \* of SyncWithRetry
    Failures,     \* what a sync can fail with, each a set of Marks
    MaxLate       \* bound: opens that are given up and still under way

\* what the error handling looks for in a message
Marks == {"429", "items key", "token", "auth", "invalid", "timeout", "connection",
          "conflict", "giving up", "database is locked", "invalid sync token"}

ASSUME OpeningAssumption ==
    /\ Closing \subseteq Caller
    /\ None \notin Caller
    /\ MinDelay \in Nat /\ MaxRetries \in Nat /\ MaxLate \in Nat
    /\ Failures \subseteq SUBSET Marks

VARIABLES
    pc, attempt,      \* where a caller is, and its attempt in SyncWithRetry
    limited,          \* rateLimitBackoff.attempts
    tries,            \* attempts of items.Sync in this Sync
    sleep,            \* ticks left to sleep
    syncMutex, elapsed,
    file,             \* the lock of the database file
    late              \* abandoned goroutines that still open the database

callVars == <<pc, attempt, limited, tries, sleep>>
vars == <<callVars, syncMutex, elapsed, file, late>>

\* The lock is free, or a handle on the database has it: of a running sync, of a
\* failed attempt that SyncWithRetry repeats, of the program that called, or one
\* that nothing refers to any more (it stays locked, being mapped into memory).
Free == [of |-> None, at |-> "free"]
Lost == [of |-> None, at |-> "lost"]
Running(p) == [of |-> p, at |-> "run"]
Kept(p) == [of |-> p, at |-> "kept"]
Returned(p) == [of |-> p, at |-> "program"]

Init ==
    /\ pc = [p \in Caller |-> "idle"]
    /\ attempt = [p \in Caller |-> 0]
    /\ limited = [p \in Caller |-> 0]
    /\ tries = [p \in Caller |-> 0]
    /\ sleep = [p \in Caller |-> 0]
    /\ syncMutex = None
    /\ elapsed = MinDelay       \* lastSyncTime is the zero time
    /\ file = Free
    /\ late = 0

Least(a, b) == IF a < b THEN a ELSE b
Most(a, b) == IF a > b THEN a ELSE b

\* time passes
Tick ==
    /\ elapsed' = Least(elapsed + 1, MinDelay)
    /\ sleep' = [p \in Caller |-> Most(sleep[p] - 1, 0)]
    /\ UNCHANGED <<pc, attempt, limited, tries, syncMutex, file, late>>

---------------------------------------------------------------------------
(* Errors *)

\* in the order in which the message is searched
Groups == <<
    [class |-> "rateLimit", marks |-> {"429"}],
    [class |-> "itemsKey", marks |-> {"items key"}],
    [class |-> "authentication", marks |-> {"auth", "token"}],
    [class |-> "validation", marks |-> {"invalid"}],
    [class |-> "network", marks |-> {"connection", "timeout"}],
    [class |-> "conflict", marks |-> {"conflict"}]>>

classifySyncError(f) ==
    LET hits == {i \in DOMAIN Groups : f \cap Groups[i].marks # {}} IN
    IF hits = {} THEN "unknown"
    ELSE Groups[CHOOSE i \in hits : \A j \in hits : i <= j].class

Retryable(f) == classifySyncError(f) \in {"rateLimit", "network", "conflict", "unknown"}

\* the delay before the n-th repetition for a rate limit: 1, 2, 4, 5, 5, ... s
enforceRateLimitBackoff(n) == <<1, 2, 4, 5>>[Least(n, 4)]

Pause(f, n) ==
    LET class == classifySyncError(f) IN
    IF class = "rateLimit" THEN enforceRateLimitBackoff(n)
    ELSE IF class = "network" THEN 2 ELSE 1

\* Whether items.Sync is called again.  For an invalid token the token is first
\* dropped from the file, which this sync has locked itself: opening it fails,
\* nothing is dropped and the same token is sent again.
handleSyncError(f) ==
    "giving up" \notin f /\ f \cap {"database is locked", "invalid sync token"} # {}

retries == 3

---------------------------------------------------------------------------
(* Leaving Sync *)

\* Variant: the deferred function closes the database of a successful sync only.
LeftOpenOnError(p, failed, again) ==
    IF file = Running(p)
    THEN IF p \in Closing /\ ~failed THEN Free
         ELSE IF again THEN Kept(p) ELSE Returned(p)
    ELSE IF file = Kept(p) THEN Lost ELSE file

\* Variant: SyncOutput.DB is not set.
LeftUnset(p, failed, again) ==
    IF file \in {Running(p), Kept(p)} THEN Lost ELSE file

\* The lock after Sync has returned to SyncWithRetry: the deferred function
\* closes the database if it was opened and Close is set; the handle in the
\* output of the attempt before is overwritten by this attempt's output.
Left(p, failed, again) ==
    IF file = Running(p)
    THEN IF p \in Closing THEN Free ELSE IF again THEN Kept(p) ELSE Returned(p)
    ELSE IF file = Kept(p) THEN Lost ELSE file

Return(p, failed) ==
    /\ pc' = [pc EXCEPT ![p] = "idle"]
    /\ attempt' = [attempt EXCEPT ![p] = 0]
    /\ limited' = [limited EXCEPT ![p] = 0]
    /\ file' = Left(p, failed, FALSE)
    /\ UNCHANGED sleep

Repeat(p, f) ==
    /\ pc' = [pc EXCEPT ![p] = "pause"]
    /\ attempt' = [attempt EXCEPT ![p] = @ + 1]
    /\ limited' = IF classifySyncError(f) = "rateLimit"
                  THEN [limited EXCEPT ![p] = @ + 1] ELSE limited
    /\ sleep' = [sleep EXCEPT ![p] = Pause(f, limited'[p])]
    /\ file' = Left(p, TRUE, TRUE)

\* Variant: an error that may pass is retried without counting.
FailUncounted(p, f) ==
    /\ tries' = [tries EXCEPT ![p] = 0]
    /\ IF Retryable(f) /\ attempt[p] < MaxRetries
       THEN Repeat(p, f)
       ELSE IF "timeout" \in f
       THEN /\ pc' = [pc EXCEPT ![p] = "pause"]
            /\ sleep' = [sleep EXCEPT ![p] = 2]
            /\ UNCHANGED <<attempt, limited, file>>
       ELSE Return(p, TRUE)

\* Sync returns an error, which SyncWithRetry classifies
Fail(p, f) ==
    /\ tries' = [tries EXCEPT ![p] = 0]
    /\ IF Retryable(f) /\ attempt[p] < MaxRetries THEN Repeat(p, f) ELSE Return(p, TRUE)

---------------------------------------------------------------------------
(* SyncWithRetry and Sync *)

Call(p) ==
    /\ pc[p] = "idle"
    /\ pc' = [pc EXCEPT ![p] = "delay"]
    /\ UNCHANGED <<attempt, limited, tries, sleep, syncMutex, elapsed, file, late>>

\* the program closes the database that a sync left open for it
Release(p) ==
    /\ pc[p] = "idle"
    /\ file = Returned(p)
    /\ file' = Free
    /\ UNCHANGED <<callVars, syncMutex, elapsed, late>>

\* the pause between two attempts is over
Resume(p) ==
    /\ pc[p] = "pause" /\ sleep[p] = 0
    /\ pc' = [pc EXCEPT ![p] = "delay"]
    /\ UNCHANGED <<attempt, limited, tries, sleep, syncMutex, elapsed, file, late>>

\* Variant: the mutex is not held while sleeping.
MeasureUnlocked(p) ==
    /\ pc[p] = "delay" /\ syncMutex = None
    /\ pc' = [pc EXCEPT ![p] = "spacing"]
    /\ sleep' = [sleep EXCEPT ![p] = Most(MinDelay - elapsed, 0)]
    /\ UNCHANGED <<attempt, limited, tries, syncMutex, elapsed, file, late>>

\* enforceMinimumSyncDelay: under the mutex, how long to sleep ...
Measure(p) ==
    /\ pc[p] = "delay" /\ syncMutex = None
    /\ syncMutex' = p
    /\ pc' = [pc EXCEPT ![p] = "spacing"]
    /\ sleep' = [sleep EXCEPT ![p] = Most(MinDelay - elapsed, 0)]
    /\ UNCHANGED <<attempt, limited, tries, elapsed, file, late>>

\* ... and after the sleep, the time of this sync
Space(p) ==
    /\ pc[p] = "spacing" /\ sleep[p] = 0
    /\ elapsed' = 0
    /\ syncMutex' = None
    /\ pc' = [pc EXCEPT ![p] = "open"]
    /\ UNCHANGED <<attempt, limited, tries, sleep, file, late>>

\* the session is invalid, or has no path of a database
Refuse(p) ==
    /\ pc[p] = "open"
    /\ \E f \in {{"invalid"}, {}} : Fail(p, f)
    /\ UNCHANGED <<syncMutex, elapsed, late>>

\* Variant: the file is opened without its lock.
OpenUnlocked(p) ==
    /\ pc[p] = "open"
    /\ file' = Running(p)
    /\ pc' = [pc EXCEPT ![p] = "sync"]
    /\ UNCHANGED <<attempt, limited, tries, sleep, syncMutex, elapsed, late>>

\* the goroutine that opens the database answers in time ...
Open(p) ==
    /\ pc[p] = "open"
    /\ file = Free
    /\ file' = Running(p)
    /\ pc' = [pc EXCEPT ![p] = "sync"]
    /\ UNCHANGED <<attempt, limited, tries, sleep, syncMutex, elapsed, late>>

\* ... with an error when it could not lock the file within a second ...
OpenFails(p) ==
    /\ pc[p] = "open"
    /\ file # Free
    /\ Fail(p, {"timeout"})
    /\ UNCHANGED <<syncMutex, elapsed, late>>

\* ... or not within 30 s: "database open timed out".  The goroutine goes on.
OpenGivenUp(p) ==
    /\ pc[p] = "open"
    /\ late < MaxLate
    /\ late' = late + 1
    /\ Fail(p, {})
    /\ UNCHANGED <<syncMutex, elapsed>>

\* an abandoned open succeeds, and nobody receives the handle, or it fails
OpenLate ==
    /\ late > 0
    /\ late' = late - 1
    /\ file' = IF file = Free THEN Lost ELSE file
    /\ UNCHANGED <<callVars, syncMutex, elapsed>>

\* a call of items.Sync ends, or something before it or after it fails (tries
\* is 0, or the failure is final)
Try(p) ==
    /\ pc[p] = "sync"
    /\ \/ Return(p, FALSE) /\ tries' = [tries EXCEPT ![p] = 0]
       \/ \E f \in Failures :
            IF handleSyncError(f) /\ tries[p] + 1 < retries
            THEN /\ tries' = [tries EXCEPT ![p] = @ + 1]
                 /\ UNCHANGED <<pc, attempt, limited, sleep, file>>
            ELSE Fail(p, f)
    /\ UNCHANGED <<syncMutex, elapsed, late>>

---------------------------------------------------------------------------
Step(p) ==
    \/ Resume(p) \/ Space(p) \/ Refuse(p)
    \/ Open(p) \/ OpenFails(p) \/ OpenGivenUp(p)
    \/ Try(p)

Next ==
    \/ Tick
    \/ OpenLate
    \/ \E p \in Caller : Call(p) \/ Release(p) \/ Measure(p) \/ Step(p)

Spec == Init /\ [][Next]_vars

\* Time passes; a call goes on (every wait in it is bounded); a goroutine that
\* waits for a sync.Mutex which is released again and again gets it.
FairSpec ==
    /\ Spec
    /\ WF_vars(Tick)
    /\ \A p \in Caller : WF_vars(Step(p)) /\ SF_vars(Measure(p))

---------------------------------------------------------------------------
(* Properties *)

Files == {Free, Lost} \cup [of : Caller, at : {"run", "kept", "program"}]

\* The type invariant: no more than MaxRetries repetitions, fewer than three
\* tries in each.
TypeOK ==
    /\ pc \in [Caller -> {"idle", "pause", "delay", "spacing", "open", "sync"}]
    /\ attempt \in [Caller -> 0..MaxRetries]
    /\ limited \in [Caller -> 0..MaxRetries]
    /\ tries \in [Caller -> 0..(retries - 1)]
    /\ sleep \in [Caller -> Nat]
    /\ syncMutex \in Caller \cup {None}
    /\ elapsed \in 0..MinDelay
    /\ file \in Files
    /\ late \in Nat

\* A sync works on the database only while it has the file locked, so no two do;
\* the lock is what keeps the syncs of a process apart, not the mutex.
WorkHoldsFile == \A p \in Caller : pc[p] = "sync" <=> file = Running(p)
NoTwoSyncsWork ==
    \A p, q \in Caller : pc[p] = "sync" /\ pc[q] = "sync" => p = q

\* "Close: true, // This should ensure proper cleanup"
\* (cache/consecutive_sync_isolated_test.go:182): a caller that asked for it has
\* the file locked only while its sync works, however that sync ends.
CleanedUp == \A p \in Closing : file.of = p => pc[p] = "sync"

\* Syncs of a process start MinDelay apart, whichever goroutines start them.
SyncsSpaced == [][elapsed' < elapsed => elapsed = MinDelay]_vars

\* The handle of a locked file is lost in two ways only: an open finishes after
\* it was given up, or SyncWithRetry repeats a sync that leaves the file open.
LostTwoWays ==
    [][file' = Lost /\ file # Lost =>
         \/ late' < late
         \/ \E p \in Caller \ Closing : file = Kept(p) /\ attempt[p] > 0]_vars

\* Every call returns, even when the file stays locked for ever.
CallsReturn == \A p \in Caller : pc[p] # "idle" ~> pc[p] = "idle"

\* Why it does: the stages before a call, seven for an attempt.
Stages(step, n, m) ==
    IF step = "idle" THEN 0
    ELSE 7 * (MaxRetries - n) +
         [pause |-> 7, delay |-> 6, spacing |-> 5, open |-> 4, sync |-> retries - m][step]

CallLeft(p) == Stages(pc[p], attempt[p], tries[p])

\* the longest sleep: for the minimum delay, or the backoff
LongestSleep == Most(MinDelay, 5)

\* Each step of a call leaves less of it, what others do leaves it as it is, and
\* a call that sleeps has less to sleep with every tick
\* (src/cache/cache.go:1020-1075).
CallsRunOut ==
    /\ [](\A p \in Caller : CallLeft(p) \in Nat /\ sleep[p] \in 0..LongestSleep)
    /\ [][\A p \in Caller : pc[p] # "idle" =>
            \/ CallLeft(p)' < CallLeft(p)
            \/ /\ ~Measure(p) /\ ~Step(p) /\ UNCHANGED CallLeft(p)
               /\ sleep'[p] <= sleep[p]
               /\ Tick /\ sleep[p] > 0 => sleep'[p] < sleep[p]]_vars

---------------------------------------------------------------------------
(* The inductive invariant *)

\* only the goroutine that holds the mutex sleeps for the delay, and what it has
\* left to sleep is enough
MutexInv ==
    \A p \in Caller :
        /\ pc[p] = "spacing" <=> syncMutex = p
        /\ syncMutex = p => elapsed + sleep[p] >= MinDelay

\* a handle that is kept is of a failed attempt that is being repeated
KeptInv ==
    \A p \in Caller :
        /\ file = Kept(p) => p \notin Closing /\ pc[p] # "idle" /\ attempt[p] > 0
        /\ file = Returned(p) => p \notin Closing

OpeningInv ==
    /\ TypeOK
    /\ WorkHoldsFile
    /\ MutexInv
    /\ KeptInv
    /\ \A p \in Caller : limited[p] <= attempt[p]
=============================================================================
