------------------------- MODULE SyncOpeningProofs -------------------------
(* Theorems about SyncOpening, for every value of its constants. *)
EXTENDS SyncOpening, TLAPS

---------------------------------------------------------------------------
(* The lock of the file. *)

\* The holders of the lock differ from each other and from nobody.
LEMMA HoldersDiffer ==
    ASSUME OpeningAssumption, NEW p \in Caller, NEW q \in Caller
    PROVE  /\ Free # Lost
           /\ Running(p) \notin {Free, Lost, Kept(q), Returned(q)}
           /\ Kept(p) \notin {Free, Lost, Running(q), Returned(q)}
           /\ Returned(p) \notin {Free, Lost, Running(q), Kept(q)}
           /\ Running(p) = Running(q) => p = q
           /\ Kept(p) = Kept(q) => p = q
           /\ Returned(p) = Returned(q) => p = q
           /\ {Free, Lost, Running(p), Kept(p), Returned(p)} \subseteq Files
  <1>1. Free # Lost
    BY DEF Free, Lost
  <1>2. p # None /\ q # None
    BY DEF OpeningAssumption
  <1>3. /\ Running(p) # Free /\ Running(p) # Lost
        /\ Running(p) # Kept(q) /\ Running(p) # Returned(q)
    BY <1>2 DEF Free, Lost, Running, Kept, Returned
  <1>4. /\ Kept(p) # Free /\ Kept(p) # Lost
        /\ Kept(p) # Running(q) /\ Kept(p) # Returned(q)
    BY <1>2 DEF Free, Lost, Running, Kept, Returned
  <1>5. /\ Returned(p) # Free /\ Returned(p) # Lost
        /\ Returned(p) # Running(q) /\ Returned(p) # Kept(q)
    BY <1>2 DEF Free, Lost, Running, Kept, Returned
  <1>6. /\ Running(p) = Running(q) => p = q
        /\ Kept(p) = Kept(q) => p = q
        /\ Returned(p) = Returned(q) => p = q
    BY DEF Running, Kept, Returned
  <1>7. {Free, Lost, Running(p), Kept(p), Returned(p)} \subseteq Files
    BY DEF Files, Running, Kept, Returned
  <1>8. QED
    BY <1>1, <1>3, <1>4, <1>5, <1>6, <1>7

\* A file whose lock is a caller's is held by its sync, by its failed attempt or
\* by the program.
LEMMA HolderOf ==
    ASSUME OpeningAssumption, NEW p \in Caller, file \in Files, file.of = p
    PROVE  file \in {Running(p), Kept(p), Returned(p)}
  <1>1. p # None
    BY DEF OpeningAssumption
  <1>2. file # Free /\ file # Lost
    BY <1>1 DEF Free, Lost
  <1>3. file \in [of : Caller, at : {"run", "kept", "program"}]
    BY <1>2 DEF Files
  <1>4. QED
    BY <1>3 DEF Running, Kept, Returned

---------------------------------------------------------------------------
(* Leaving Sync. *)

\* A pause takes one to five ticks, if the count of rate limits is at least 1 when
\* it is looked at.
LEMMA PauseTicks ==
    ASSUME NEW f, NEW n \in Nat, classifySyncError(f) = "rateLimit" => n >= 1
    PROVE  Pause(f, n) \in 1..5
  <1>1. CASE classifySyncError(f) = "rateLimit"
    <2>1. Least(n, 4) \in 1..4
      BY <1>1 DEF Least
    <2>2. enforceRateLimitBackoff(n) \in {1, 2, 4, 5}
      BY <2>1 DEF enforceRateLimitBackoff
    <2>3. QED
      BY <1>1, <2>2 DEF Pause
  <1>2. CASE classifySyncError(f) # "rateLimit"
    BY <1>2 DEF Pause
  <1>3. QED
    BY <1>1, <1>2

\* The end of a sync or of an attempt, of a caller that opens the database or
\* works on it: what becomes of its counters and of the lock.
LEMMA Leaves ==
    ASSUME OpeningAssumption, OpeningInv, NEW p \in Caller, pc[p] \in {"open", "sync"},
           \/ Return(p, FALSE) /\ tries' = [tries EXCEPT ![p] = 0]
           \/ \E f : Fail(p, f)
    PROVE  \E again \in BOOLEAN, failed \in BOOLEAN :
             /\ pc' = [pc EXCEPT ![p] = IF again THEN "pause" ELSE "idle"]
             /\ tries' = [tries EXCEPT ![p] = 0]
             /\ attempt' = [attempt EXCEPT ![p] = IF again THEN @ + 1 ELSE 0]
             /\ again => attempt[p] < MaxRetries
             /\ limited' \in [Caller -> 0..MaxRetries]
             /\ \A q \in Caller : limited'[q] <= attempt'[q]
             /\ sleep' \in [Caller -> Nat]
             /\ sleep'[p] \in {sleep[p]} \cup 1..5
             /\ \A q \in Caller \ {p} : sleep'[q] = sleep[q]
             /\ file' = Left(p, failed, again)
  <1> USE DEF OpeningInv, TypeOK, OpeningAssumption
  <1>1. ASSUME NEW failed \in BOOLEAN, Return(p, failed), tries' = [tries EXCEPT ![p] = 0]
        PROVE  /\ pc' = [pc EXCEPT ![p] = "idle"]
               /\ tries' = [tries EXCEPT ![p] = 0]
               /\ attempt' = [attempt EXCEPT ![p] = 0]
               /\ limited' \in [Caller -> 0..MaxRetries]
               /\ \A q \in Caller : limited'[q] <= attempt'[q]
               /\ sleep' \in [Caller -> Nat]
               /\ sleep'[p] \in {sleep[p]} \cup 1..5
               /\ \A q \in Caller \ {p} : sleep'[q] = sleep[q]
               /\ file' = Left(p, failed, FALSE)
    BY <1>1 DEF Return
  <1>2. ASSUME NEW f, Repeat(p, f), attempt[p] < MaxRetries, tries' = [tries EXCEPT ![p] = 0]
        PROVE  /\ pc' = [pc EXCEPT ![p] = "pause"]
               /\ tries' = [tries EXCEPT ![p] = 0]
               /\ attempt' = [attempt EXCEPT ![p] = @ + 1]
               /\ limited' \in [Caller -> 0..MaxRetries]
               /\ \A q \in Caller : limited'[q] <= attempt'[q]
               /\ sleep' \in [Caller -> Nat]
               /\ sleep'[p] \in {sleep[p]} \cup 1..5
               /\ \A q \in Caller \ {p} : sleep'[q] = sleep[q]
               /\ file' = Left(p, TRUE, TRUE)
    <2>1. limited[p] < MaxRetries /\ limited[p] \in Nat
      BY <1>2
    <2>2. /\ limited' \in [Caller -> 0..MaxRetries]
          /\ \A q \in Caller : limited'[q] <= attempt'[q]
          /\ limited'[p] \in Nat
          /\ classifySyncError(f) = "rateLimit" => limited'[p] >= 1
      <3>1. CASE classifySyncError(f) = "rateLimit"
        BY <1>2, <2>1, <3>1 DEF Repeat
      <3>2. CASE classifySyncError(f) # "rateLimit"
        BY <1>2, <2>1, <3>2 DEF Repeat
      <3>3. QED
        BY <3>1, <3>2
    <2>3. Pause(f, limited'[p]) \in 1..5
      BY <2>2, PauseTicks
    <2>4. /\ sleep' \in [Caller -> Nat] /\ sleep'[p] \in 1..5
          /\ \A q \in Caller \ {p} : sleep'[q] = sleep[q]
      BY <1>2, <2>3 DEF Repeat
    <2>5. QED
      BY <1>2, <2>2, <2>4 DEF Repeat
  <1>3. CASE Return(p, FALSE) /\ tries' = [tries EXCEPT ![p] = 0]
    <2>1. WITNESS FALSE \in BOOLEAN, FALSE \in BOOLEAN
    <2>2. QED
      BY <1>1, <1>3
  <1>4. CASE \E f : Fail(p, f)
    <2>1. PICK f : Fail(p, f)
      BY <1>4
    <2>2. CASE Return(p, TRUE)
      <3>1. WITNESS FALSE \in BOOLEAN, TRUE \in BOOLEAN
      <3>2. QED
        BY <1>1, <2>1, <2>2 DEF Fail
    <2>3. CASE Repeat(p, f) /\ attempt[p] < MaxRetries
      <3>1. WITNESS TRUE \in BOOLEAN, TRUE \in BOOLEAN
      <3>2. QED
        BY <1>2, <2>1, <2>3 DEF Fail
    <2>4. QED
      BY <2>1, <2>2, <2>3 DEF Fail
  <1>5. QED
    BY <1>3, <1>4

\* The actions in which a caller leaves Sync.
Leaving(p) ==
    /\ pc[p] \in {"open", "sync"}
    /\ \/ Return(p, FALSE) /\ tries' = [tries EXCEPT ![p] = 0]
       \/ \E f : Fail(p, f)
    /\ UNCHANGED <<syncMutex, elapsed>>
    /\ late' \in Nat

\* Of the file, whose lock was the sync's if it worked, nothing but what the
\* invariant says is left.
LEMMA LeftFile ==
    ASSUME OpeningAssumption, OpeningInv, NEW p \in Caller, pc[p] \in {"open", "sync"},
           NEW failed, NEW again \in BOOLEAN, file' = Left(p, failed, again)
    PROVE  /\ file' \in Files
           /\ file' # Running(p)
           /\ \A q \in Caller \ {p} : file' = Running(q) <=> file = Running(q)
           /\ \A q \in Caller \ {p} : file' = Kept(q) => file = Kept(q)
           /\ \A q \in Caller \ {p} : file' = Returned(q) => file = Returned(q)
           /\ file' = Kept(p) => again /\ p \notin Closing
           /\ file' = Returned(p) => p \notin Closing
           /\ file' = Lost /\ file # Lost => file = Kept(p)
  <1> USE HoldersDiffer
  <1>1. file \in Files /\ (file = Returned(p) => p \notin Closing)
    BY DEF OpeningInv, TypeOK, KeptInv
  <1>2. CASE file = Running(p)
    <2>1. file' \in {Free, Kept(p), Returned(p)}
      BY <1>2 DEF Left
    <2>2. /\ file' = Kept(p) => again /\ p \notin Closing
          /\ file' = Returned(p) => p \notin Closing
      BY <1>2 DEF Left
    <2>3. file' \in Files /\ file' # Running(p) /\ file' # Lost
      BY <2>1
    <2>4. \A q \in Caller \ {p} :
             file' # Running(q) /\ file' # Kept(q) /\ file' # Returned(q) /\ file # Running(q)
      BY <1>2, <2>1
    <2>5. QED
      BY <2>2, <2>3, <2>4
  <1>3. CASE file = Kept(p)
    <2>1. file' = Lost /\ file # Running(p)
      BY <1>3 DEF Left
    <2>2. QED
      BY <1>3, <2>1
  <1>4. CASE file # Running(p) /\ file # Kept(p)
    <2>1. file' = file
      BY <1>4 DEF Left
    <2>2. QED
      BY <1>1, <1>4, <2>1
  <1>5. QED
    BY <1>2, <1>3, <1>4

\* Leaving Sync keeps the invariant.
LEMMA LeavingKeeps ==
    ASSUME OpeningAssumption, OpeningInv, NEW p \in Caller, Leaving(p)
    PROVE  OpeningInv'
  <1>1. PICK again \in BOOLEAN, failed \in BOOLEAN :
           /\ pc' = [pc EXCEPT ![p] = IF again THEN "pause" ELSE "idle"]
           /\ tries' = [tries EXCEPT ![p] = 0]
           /\ attempt' = [attempt EXCEPT ![p] = IF again THEN @ + 1 ELSE 0]
           /\ again => attempt[p] < MaxRetries
           /\ limited' \in [Caller -> 0..MaxRetries]
           /\ \A q \in Caller : limited'[q] <= attempt'[q]
           /\ sleep' \in [Caller -> Nat]
           /\ \A q \in Caller \ {p} : sleep'[q] = sleep[q]
           /\ file' = Left(p, failed, again)
    <2> HIDE DEF Left
    <2>1. QED
      BY Leaves DEF Leaving
  <1>2. pc[p] \in {"open", "sync"} /\ UNCHANGED <<syncMutex, elapsed>> /\ late' \in Nat
    BY DEF Leaving
  <1>3. /\ file' \in Files
        /\ file' # Running(p)
        /\ \A q \in Caller \ {p} : file' = Running(q) <=> file = Running(q)
        /\ \A q \in Caller \ {p} : file' = Kept(q) => file = Kept(q)
        /\ \A q \in Caller \ {p} : file' = Returned(q) => file = Returned(q)
        /\ file' = Kept(p) => again /\ p \notin Closing
        /\ file' = Returned(p) => p \notin Closing
    BY <1>1, <1>2, LeftFile
  <1>4. TypeOK'
    <2>1. attempt' \in [Caller -> 0..MaxRetries]
      BY <1>1 DEF OpeningInv, TypeOK, OpeningAssumption
    <2>2. tries' \in [Caller -> 0..(retries - 1)]
      BY <1>1 DEF OpeningInv, TypeOK, retries
    <2>3. pc' \in [Caller -> {"idle", "pause", "delay", "spacing", "open", "sync"}]
      BY <1>1 DEF OpeningInv, TypeOK
    <2>4. QED
      BY <1>1, <1>2, <1>3, <2>1, <2>2, <2>3 DEF OpeningInv, TypeOK
  <1>5. /\ pc'[p] \in {"idle", "pause"} /\ (again => pc'[p] = "pause" /\ attempt'[p] > 0)
        /\ \A q \in Caller \ {p} : pc'[q] = pc[q] /\ attempt'[q] = attempt[q]
    BY <1>1 DEF OpeningInv, TypeOK
  <1>6. WorkHoldsFile'
    BY <1>3, <1>5 DEF OpeningInv, WorkHoldsFile
  <1>7. MutexInv'
    <2>1. syncMutex # p
      BY <1>2 DEF OpeningInv, MutexInv
    <2>2. QED
      BY <1>1, <1>2, <1>5, <2>1 DEF OpeningInv, MutexInv
  <1>8. KeptInv'
    BY <1>3, <1>5 DEF OpeningInv, KeptInv
  <1>9. QED
    BY <1>1, <1>4, <1>6, <1>7, <1>8 DEF OpeningInv

\* What a caller does in the open and the sync that does not leave Sync.
LEMMA TriesAgain ==
    ASSUME OpeningInv, NEW p \in Caller, Try(p), ~Leaving(p)
    PROVE  /\ pc[p] = "sync"
           /\ tries' = [tries EXCEPT ![p] = @ + 1]
           /\ UNCHANGED <<pc, attempt, limited, sleep>>
  BY DEF Try, Leaving, OpeningInv, TypeOK

\* The failures of the open leave Sync.
LEMMA OpenLeaves ==
    ASSUME OpeningInv, NEW p \in Caller, Refuse(p) \/ OpenFails(p) \/ OpenGivenUp(p)
    PROVE  Leaving(p)
  <1>1. pc[p] = "open" /\ (\E f : Fail(p, f)) /\ UNCHANGED <<syncMutex, elapsed>>
    BY DEF Refuse, OpenFails, OpenGivenUp
  <1>2. late' \in Nat
    BY DEF Refuse, OpenFails, OpenGivenUp, OpeningInv, TypeOK
  <1>3. QED
    BY <1>1, <1>2 DEF Leaving

---------------------------------------------------------------------------
(* The invariant. *)

\* A step keeps the invariant.
LEMMA OpeningKept ==
    ASSUME OpeningAssumption, OpeningInv, [Next]_vars
    PROVE  OpeningInv'
  <1> USE DEF OpeningInv, OpeningAssumption
  <1>1. CASE Tick
    <2>1. TypeOK'
      BY <1>1 DEF Tick, TypeOK, Least, Most
    <2>2. MutexInv'
      BY <1>1 DEF Tick, TypeOK, MutexInv, Least, Most
    <2>3. QED
      BY <1>1, <2>1, <2>2 DEF Tick, WorkHoldsFile, KeptInv
  <1>2. CASE OpenLate
    <2>1. file' = file \/ (file = Free /\ file' = Lost)
      BY <1>2 DEF OpenLate
    <2>2. TypeOK'
      BY <1>2, <2>1 DEF OpenLate, TypeOK, callVars, Files
    <2>3. \A p \in Caller : /\ file' = Running(p) <=> file = Running(p)
                            /\ file' = Kept(p) <=> file = Kept(p)
                            /\ file' = Returned(p) <=> file = Returned(p)
      BY <2>1, HoldersDiffer
    <2>4. QED
      BY <1>2, <2>2, <2>3 DEF OpenLate, callVars, WorkHoldsFile, MutexInv, KeptInv
  <1>3. ASSUME NEW p \in Caller, Call(p) PROVE OpeningInv'
    BY <1>3 DEF Call, TypeOK, WorkHoldsFile, MutexInv, KeptInv
  <1>4. ASSUME NEW p \in Caller, Release(p) PROVE OpeningInv'
    <2>1. TypeOK'
      BY <1>4, HoldersDiffer DEF Release, TypeOK, callVars
    <2>2. WorkHoldsFile'
      BY <1>4, HoldersDiffer DEF Release, WorkHoldsFile, callVars
    <2>3. KeptInv'
      BY <1>4, HoldersDiffer DEF Release, KeptInv, callVars
    <2>4. QED
      BY <1>4, <2>1, <2>2, <2>3 DEF Release, MutexInv, callVars
  <1>5. ASSUME NEW p \in Caller, Measure(p) PROVE OpeningInv'
    <2>1. TypeOK'
      BY <1>5 DEF Measure, TypeOK, Most
    <2>2. MutexInv'
      BY <1>5 DEF Measure, TypeOK, MutexInv, Most
    <2>3. QED
      BY <1>5, <2>1, <2>2 DEF Measure, TypeOK, WorkHoldsFile, KeptInv
  <1>6. ASSUME NEW p \in Caller, Resume(p) PROVE OpeningInv'
    BY <1>6 DEF Resume, TypeOK, WorkHoldsFile, MutexInv, KeptInv
  <1>7. ASSUME NEW p \in Caller, Space(p) PROVE OpeningInv'
    BY <1>7 DEF Space, TypeOK, WorkHoldsFile, MutexInv, KeptInv
  <1>8. ASSUME NEW p \in Caller, Refuse(p) \/ OpenFails(p) \/ OpenGivenUp(p) PROVE OpeningInv'
    BY <1>8, OpenLeaves, LeavingKeeps
  <1>9. ASSUME NEW p \in Caller, Open(p) PROVE OpeningInv'
    <2>1. TypeOK'
      BY <1>9, HoldersDiffer DEF Open, TypeOK
    <2>2. WorkHoldsFile'
      BY <1>9, HoldersDiffer DEF Open, TypeOK, WorkHoldsFile
    <2>3. KeptInv'
      BY <1>9, HoldersDiffer DEF Open, KeptInv
    <2>4. QED
      BY <1>9, <2>1, <2>2, <2>3 DEF Open, TypeOK, MutexInv
  <1>10. ASSUME NEW p \in Caller, Try(p) PROVE OpeningInv'
    <2>1. CASE Leaving(p)
      BY <2>1, LeavingKeeps
    <2>2. CASE ~Leaving(p)
      <3>1. /\ tries[p] + 1 < retries
            /\ tries' = [tries EXCEPT ![p] = @ + 1]
            /\ UNCHANGED <<pc, attempt, limited, sleep, syncMutex, elapsed, file, late>>
        BY <1>10, <2>2 DEF Try, Leaving, TypeOK
      <3>2. TypeOK'
        BY <3>1 DEF TypeOK, retries
      <3>3. QED
        BY <3>1, <3>2 DEF WorkHoldsFile, MutexInv, KeptInv
    <2>3. QED
      BY <2>1, <2>2
  <1>11. CASE UNCHANGED vars
    BY <1>11 DEF vars, callVars, TypeOK, WorkHoldsFile, MutexInv, KeptInv
  <1>12. QED
    BY <1>1, <1>2, <1>3, <1>4, <1>5, <1>6, <1>7, <1>8, <1>9, <1>10, <1>11 DEF Next, Step

\* Whatever the callers, the delay and the number of repetitions: the types, the
\* lock and the mutex are as OpeningInv says in every reachable state.
THEOREM OpeningInductive == Spec => []OpeningInv
  <1>1. Init => OpeningInv
    <2> SUFFICES ASSUME Init PROVE OpeningInv
      OBVIOUS
    <2> USE OpeningAssumption DEF OpeningAssumption
    <2>1. \A p \in Caller : file # Running(p) /\ file # Kept(p) /\ file # Returned(p)
      BY HoldersDiffer DEF Init
    <2>2. TypeOK
      BY DEF Init, TypeOK, Files, retries
    <2>3. QED
      BY <2>1, <2>2 DEF Init, OpeningInv, WorkHoldsFile, MutexInv, KeptInv
  <1>2. OpeningInv /\ [Next]_vars => OpeningInv'
    BY OpeningKept, OpeningAssumption
  <1>3. QED
    BY <1>1, <1>2, PTL DEF Spec

\* No two syncs of a process work on the database: each needs the lock of the
\* file, of which there is one.
THEOREM NeverTwoSyncs == Spec => []NoTwoSyncsWork
  <1>1. OpeningInv => NoTwoSyncsWork
    BY HoldersDiffer, OpeningAssumption DEF OpeningInv, WorkHoldsFile, NoTwoSyncsWork
  <1>2. QED
    BY <1>1, OpeningInductive, PTL

\* A caller that says Close has the file locked while its sync works, and at no
\* other time, however the sync ends.
THEOREM ClosingCleansUp == Spec => []CleanedUp
  <1>1. OpeningInv => CleanedUp
    <2> SUFFICES ASSUME OpeningInv, NEW p \in Closing, file.of = p PROVE pc[p] = "sync"
      BY DEF CleanedUp
    <2>1. p \in Caller
      BY OpeningAssumption DEF OpeningAssumption
    <2>2. file \in {Running(p), Kept(p), Returned(p)}
      BY <2>1, HolderOf, OpeningAssumption DEF OpeningInv, TypeOK
    <2>3. QED
      BY <2>1, <2>2 DEF OpeningInv, KeptInv, WorkHoldsFile
  <1>2. QED
    BY <1>1, OpeningInductive, PTL

---------------------------------------------------------------------------
(* What steps may not do. *)

\* Two syncs of a process start at least MinDelay apart: only the goroutine with
\* the mutex starts the time anew, and it has slept what was left of it.
THEOREM SyncsAreSpaced == Spec => SyncsSpaced
  <1> DEFINE A == elapsed' < elapsed => elapsed = MinDelay
  <1>1. OpeningInv /\ [Next]_vars => [A]_vars
    <2> SUFFICES ASSUME OpeningInv, Next, elapsed' < elapsed PROVE elapsed = MinDelay
      BY DEF vars, callVars
    <2> USE OpeningAssumption DEF OpeningAssumption, OpeningInv, TypeOK
    <2>1. ~Tick
      BY DEF Tick, Least
    <2>2. PICK p \in Caller : Space(p)
      <3>1. ASSUME NEW p \in Caller, Call(p) \/ Release(p) \/ Measure(p) \/ Step(p), ~Space(p)
            PROVE  elapsed' = elapsed
        BY <3>1 DEF Call, Release, Measure, Step, Resume, Refuse, Open, OpenFails,
                    OpenGivenUp, Try
      <3>2. ~OpenLate
        BY DEF OpenLate
      <3>3. QED
        BY <2>1, <3>1, <3>2 DEF Next
    <2>3. sleep[p] = 0 /\ elapsed + sleep[p] >= MinDelay
      BY <2>2 DEF Space, MutexInv
    <2>4. QED
      BY <2>3
  <1>2. QED
    BY <1>1, OpeningInductive, PTL DEF Spec, SyncsSpaced

\* The handle of a locked file is lost only to an open that ends too late, or to
\* the repetition of a sync that leaves the file open.
THEOREM HandleLostTwoWays == Spec => LostTwoWays
  <1> DEFINE A == file' = Lost /\ file # Lost =>
                    \/ late' < late
                    \/ \E p \in Caller \ Closing : file = Kept(p) /\ attempt[p] > 0
  <1>1. OpeningInv /\ [Next]_vars => [A]_vars
    <2> SUFFICES ASSUME OpeningInv, Next, file' = Lost, file # Lost, ~OpenLate
                 PROVE  \E p \in Caller \ Closing : file = Kept(p) /\ attempt[p] > 0
      <3>1. OpenLate /\ OpeningInv => late' < late
        BY DEF OpenLate, OpeningInv, TypeOK
      <3>2. QED
        BY <3>1 DEF vars, callVars
    <2>1. PICK p \in Caller : Refuse(p) \/ OpenFails(p) \/ OpenGivenUp(p) \/ Try(p)
      <3>1. ASSUME NEW p \in Caller, Call(p) \/ Resume(p) \/ Measure(p) \/ Space(p) \/ Tick
            PROVE  file' = file
        BY <3>1 DEF Call, Measure, Resume, Space, Tick
      <3>2. ASSUME NEW p \in Caller, Release(p) \/ Open(p)
            PROVE  file' # Lost
        BY <3>2, HoldersDiffer, OpeningAssumption DEF Release, Open
      <3>3. ~Tick
        BY DEF Tick
      <3>4. QED
        BY <3>1, <3>2, <3>3 DEF Next, Step
    <2>2. /\ pc[p] \in {"open", "sync"}
          /\ \/ Return(p, FALSE) /\ tries' = [tries EXCEPT ![p] = 0]
             \/ \E f : Fail(p, f)
      BY <2>1 DEF Refuse, OpenFails, OpenGivenUp, Try
    <2>3. PICK again \in BOOLEAN, failed \in BOOLEAN : file' = Left(p, failed, again)
      <3> HIDE DEF Left
      <3>1. QED
        BY <2>2, Leaves, OpeningAssumption
    <2>4. file = Kept(p)
      BY <2>2, <2>3, LeftFile, OpeningAssumption
    <2>5. QED
      BY <2>4 DEF OpeningInv, KeptInv
  <1>2. QED
    BY <1>1, OpeningInductive, PTL DEF Spec, LostTwoWays
---------------------------------------------------------------------------
(* Why a call returns. *)

\* What the stages come to: a number, and more than those of the attempts to come.
LEMMA StagesAre ==
    ASSUME OpeningAssumption, NEW n \in 0..MaxRetries, NEW m \in 0..(retries - 1),
           NEW M, M = 7 * (MaxRetries - n)
    PROVE  /\ M \in Nat
           /\ Stages("idle", n, m) = 0 /\ Stages("pause", n, m) = M + 7
           /\ Stages("delay", n, m) = M + 6 /\ Stages("spacing", n, m) = M + 5
           /\ Stages("open", n, m) = M + 4
           /\ Stages("sync", n, m) = M + (3 - m) /\ 3 - m \in 1..3
  <1>1. M \in Nat /\ 3 - m \in 1..3
    BY DEF OpeningAssumption, retries
  <1>2. \A step : Stages(step, n, m) =
           IF step = "idle" THEN 0
           ELSE M + [pause |-> 7, delay |-> 6, spacing |-> 5, open |-> 4, sync |-> 3 - m][step]
    BY DEF Stages, retries
  <1>3. QED
    BY <1>1, <1>2

\* They are a number wherever the call is.
LEMMA StagesNat ==
    ASSUME OpeningAssumption, NEW n \in 0..MaxRetries, NEW m \in 0..(retries - 1),
           NEW step \in {"idle", "pause", "delay", "spacing", "open", "sync"}
    PROVE  Stages(step, n, m) \in Nat
  <1>1. PICK M : M = 7 * (MaxRetries - n)
    OBVIOUS
  <1>2. /\ M \in Nat /\ M + 7 \in Nat /\ M + 6 \in Nat /\ M + 5 \in Nat /\ M + 4 \in Nat
        /\ 3 - m \in 1..3 /\ M + (3 - m) \in Nat
    BY <1>1, StagesAre
  <1>3. QED
    BY <1>1, <1>2, StagesAre

\* The stages of one more attempt are fewer than those of this attempt when it
\* has come to the open; and a call that is over has none.
LEMMA AttemptLess ==
    ASSUME OpeningAssumption, NEW n \in 0..MaxRetries, NEW m \in 0..(retries - 1),
           NEW step \in {"open", "sync"}
    PROVE  /\ Stages("idle", 0, 0) < Stages(step, n, m)
           /\ n < MaxRetries => Stages("pause", n + 1, 0) < Stages(step, n, m)
  <1>1. PICK M : M = 7 * (MaxRetries - n)
    OBVIOUS
  <1>2. 0 \in 0..(retries - 1) /\ 0 \in 0..MaxRetries /\ n \in Nat /\ MaxRetries \in Nat
    BY DEF OpeningAssumption, retries
  <1>3. M \in Nat /\ Stages("open", n, m) = M + 4
        /\ Stages("sync", n, m) = M + (3 - m) /\ 3 - m \in 1..3
    BY <1>1, StagesAre
  <1>4. Stages("idle", 0, 0) = 0
    BY DEF Stages
  <1>5. CASE n < MaxRetries
    <2>1. PICK L : L = 7 * (MaxRetries - (n + 1))
      OBVIOUS
    <2>2. n + 1 \in 0..MaxRetries
      BY <1>2, <1>5
    <2>3. L \in Nat /\ Stages("pause", n + 1, 0) = L + 7
      BY <1>2, <2>1, <2>2, StagesAre
    <2>4. M = L + 7
      BY <1>1, <1>2, <2>1
    <2>5. QED
      BY <1>3, <1>4, <2>3, <2>4
  <1>6. QED
    BY <1>3, <1>4, <1>5

\* Each step of a call leaves it less.
LEMMA CallStepsOn ==
    ASSUME OpeningAssumption, OpeningInv, OpeningInv', NEW p \in Caller, Measure(p) \/ Step(p)
    PROVE  CallLeft(p)' < CallLeft(p)
  <1> DEFINE n == attempt[p]
             m == tries[p]
             M == 7 * (MaxRetries - n)
  <1>1. /\ n \in 0..MaxRetries /\ m \in 0..(retries - 1)
        /\ pc \in [Caller -> {"idle", "pause", "delay", "spacing", "open", "sync"}]
        /\ attempt \in [Caller -> 0..MaxRetries] /\ tries \in [Caller -> 0..(retries - 1)]
        /\ attempt'[p] \in 0..MaxRetries /\ tries'[p] \in 0..(retries - 1)
    BY DEF OpeningInv, TypeOK
  <1>2. /\ M \in Nat
        /\ Stages("pause", n, m) = M + 7 /\ Stages("delay", n, m) = M + 6
        /\ Stages("spacing", n, m) = M + 5 /\ Stages("open", n, m) = M + 4
        /\ Stages("sync", n, m) = M + (3 - m) /\ 3 - m \in 1..3
    BY <1>1, StagesAre
  <1>3. /\ CallLeft(p) = Stages(pc[p], n, m)
        /\ CallLeft(p)' = Stages(pc'[p], attempt'[p], tries'[p])
    BY DEF CallLeft, Stages
  <1>4. CASE Leaving(p)
    <2>1. PICK again \in BOOLEAN :
             /\ pc' = [pc EXCEPT ![p] = IF again THEN "pause" ELSE "idle"]
             /\ tries' = [tries EXCEPT ![p] = 0]
             /\ attempt' = [attempt EXCEPT ![p] = IF again THEN @ + 1 ELSE 0]
             /\ again => attempt[p] < MaxRetries
      BY <1>4, Leaves DEF Leaving
    <2>2. pc[p] \in {"open", "sync"}
      BY <1>4 DEF Leaving
    <2>3. tries'[p] = 0
      BY <1>1, <2>1
    <2>4. \/ pc'[p] = "pause" /\ attempt'[p] = n + 1 /\ n < MaxRetries
          \/ pc'[p] = "idle" /\ attempt'[p] = 0
      BY <1>1, <2>1
    <2>5. QED
      BY <1>1, <1>3, <2>2, <2>3, <2>4, AttemptLess
  <1>5. CASE Resume(p) \/ Measure(p) \/ Space(p) \/ Open(p)
    <2>1. /\ attempt'[p] = n /\ tries'[p] = m
          /\ \/ pc[p] = "pause" /\ pc'[p] = "delay"
             \/ pc[p] = "delay" /\ pc'[p] = "spacing"
             \/ pc[p] = "spacing" /\ pc'[p] = "open"
             \/ pc[p] = "open" /\ pc'[p] = "sync"
      BY <1>1, <1>5 DEF Resume, Measure, Space, Open
    <2>2. QED
      <3> HIDE DEF n, m, M
      <3>1. QED
        BY <1>2, <1>3, <2>1
  <1>6. CASE Try(p) /\ ~Leaving(p)
    <2>1. pc[p] = "sync" /\ pc'[p] = "sync" /\ attempt'[p] = n /\ tries'[p] = m + 1
      BY <1>1, <1>6, TriesAgain
    <2>2. CallLeft(p)' = M + (3 - (m + 1))
      BY <1>1, <1>3, <2>1, StagesAre
    <2>3. CallLeft(p) = M + (3 - m) /\ m \in Nat
      BY <1>1, <1>2, <1>3, <2>1
    <2>4. QED
      <3> HIDE DEF n, m, M
      <3>1. QED
        BY <1>2, <2>2, <2>3
  <1>7. QED
    BY <1>4, <1>5, <1>6, OpenLeaves DEF Step
\* What others do leaves a call as it is, and a tick leaves it less to sleep.
LEMMA OthersLeaveCall ==
    ASSUME OpeningAssumption, OpeningInv, [Next]_vars,
           NEW p \in Caller, ~Measure(p), ~Step(p)
    PROVE  /\ pc[p] # "idle" => UNCHANGED CallLeft(p)
           /\ sleep'[p] <= sleep[p]
           /\ Tick /\ sleep[p] > 0 => sleep'[p] < sleep[p]
  <1> DEFINE Same == pc[p] # "idle" =>
                        pc'[p] = pc[p] /\ attempt'[p] = attempt[p] /\ tries'[p] = tries[p]
  <1> USE DEF OpeningInv, TypeOK
  <1>1. Same /\ pc[p] # "idle" => UNCHANGED CallLeft(p)
    BY DEF CallLeft, Stages
  <1>2. sleep[p] \in Nat
    OBVIOUS
  <1>3. CASE Tick
    <2>1. Same /\ sleep'[p] = Most(sleep[p] - 1, 0)
      BY <1>3 DEF Tick
    <2>2. QED
      BY <1>1, <1>2, <2>1 DEF Most
  <1>4. ASSUME ~Tick, Same, sleep'[p] = sleep[p]
        PROVE  /\ pc[p] # "idle" => UNCHANGED CallLeft(p)
               /\ sleep'[p] <= sleep[p]
               /\ Tick /\ sleep[p] > 0 => sleep'[p] < sleep[p]
    BY <1>1, <1>2, <1>4
  <1>5. ASSUME NEW q \in Caller, Call(q) \/ Release(q) \/ Measure(q) \/ Step(q)
        PROVE  Same /\ sleep'[p] = sleep[p]
    <2>1. CASE Call(q) \/ Release(q)
      BY <2>1 DEF Call, Release, callVars
    <2>2. CASE Measure(q) \/ Step(q)
      <3>1. p # q
        BY <2>2
      <3>2. CASE Measure(q) \/ Resume(q) \/ Space(q) \/ Open(q)
        BY <3>1, <3>2 DEF Measure, Resume, Space, Open
      <3>3. CASE Leaving(q)
        <4>1. PICK again \in BOOLEAN :
                 /\ pc' = [pc EXCEPT ![q] = IF again THEN "pause" ELSE "idle"]
                 /\ tries' = [tries EXCEPT ![q] = 0]
                 /\ attempt' = [attempt EXCEPT ![q] = IF again THEN @ + 1 ELSE 0]
                 /\ \A r \in Caller \ {q} : sleep'[r] = sleep[r]
          BY <3>3, Leaves DEF Leaving
        <4>2. QED
          BY <3>1, <4>1
      <3>4. CASE Try(q) /\ ~Leaving(q)
        BY <3>1, <3>4, TriesAgain
      <3>5. QED
        BY <2>2, <3>2, <3>3, <3>4, OpenLeaves DEF Step
    <2>3. QED
      BY <1>5, <2>1, <2>2
  <1>6. CASE ~Tick
    <2>1. CASE OpenLate \/ UNCHANGED vars
      BY <1>4, <1>6, <2>1 DEF OpenLate, vars, callVars
    <2>2. QED
      BY <1>4, <1>5, <1>6, <2>1 DEF Next
  <1>7. QED
    BY <1>3, <1>6

\* No sleep is longer than the delay and the longest backoff.
SleepBounded == \A p \in Caller : sleep[p] \in 0..LongestSleep

\* A step keeps the sleeps within their bound.
LEMMA SleepKept ==
    ASSUME OpeningAssumption, OpeningInv, SleepBounded, [Next]_vars
    PROVE  SleepBounded'
  <1> SUFFICES ASSUME NEW p \in Caller PROVE sleep'[p] \in 0..LongestSleep
    BY DEF SleepBounded
  <1>1. /\ MinDelay \in Nat /\ elapsed \in 0..MinDelay
        /\ sleep \in [Caller -> Nat] /\ sleep[p] \in 0..LongestSleep
    BY DEF OpeningAssumption, OpeningInv, TypeOK, SleepBounded
  <1>2. LongestSleep \in Nat /\ LongestSleep >= MinDelay /\ LongestSleep >= 5
    BY <1>1 DEF LongestSleep, Most
  <1>3. LongestSleep' = LongestSleep
    BY DEF LongestSleep, Most
  <1>4. CASE sleep'[p] = sleep[p]
    BY <1>1, <1>4
  <1>5. CASE Tick
    <2>1. sleep'[p] = Most(sleep[p] - 1, 0)
      BY <1>5 DEF Tick
    <2>2. QED
      BY <1>1, <1>2, <2>1 DEF Most
  <1>6. CASE Measure(p)
    <2>1. sleep'[p] = Most(MinDelay - elapsed, 0)
      BY <1>1, <1>6 DEF Measure
    <2>2. QED
      BY <1>1, <1>2, <2>1 DEF Most
  <1>7. CASE Leaving(p)
    <2>1. sleep'[p] \in {sleep[p]} \cup 1..5
      BY <1>7, Leaves DEF Leaving
    <2>2. QED
      BY <1>1, <1>2, <2>1
  <1>8. CASE Step(p) /\ ~Leaving(p)
    <2>1. sleep'[p] = sleep[p]
      BY <1>8, TriesAgain, OpenLeaves DEF Step, Resume, Space, Open
    <2>2. QED
      BY <1>4, <2>1
  <1>9. CASE ~Measure(p) /\ ~Step(p)
    <2>1. sleep'[p] <= sleep[p] /\ sleep'[p] \in Nat
      BY <1>9, OthersLeaveCall, OpeningKept DEF OpeningInv, TypeOK
    <2>2. QED
      BY <1>1, <1>2, <2>1
  <1>10. QED
    BY <1>6, <1>7, <1>8, <1>9

\* However long the file stays locked and whatever the syncs fail with: a call
\* goes through at most seven stages in each of its MaxRetries + 1 attempts, with
\* bounded sleeps, and nothing that other callers do takes it back.
THEOREM CallsAreBounded == Spec => CallsRunOut
  <1> DEFINE Bounded == \A p \in Caller : CallLeft(p) \in Nat /\ sleep[p] \in 0..LongestSleep
             Nearer == \A p \in Caller : pc[p] # "idle" =>
                          \/ CallLeft(p)' < CallLeft(p)
                          \/ /\ ~Measure(p) /\ ~Step(p) /\ UNCHANGED CallLeft(p)
                             /\ sleep'[p] <= sleep[p]
                             /\ Tick /\ sleep[p] > 0 => sleep'[p] < sleep[p]
  <1>1. Init => SleepBounded
    <2>1. LongestSleep \in Nat /\ 0 \in 0..LongestSleep
      BY OpeningAssumption DEF LongestSleep, Most, OpeningAssumption
    <2>2. QED
      BY <2>1 DEF Init, SleepBounded
  <1>2. OpeningInv /\ SleepBounded /\ [Next]_vars => SleepBounded'
    BY SleepKept, OpeningAssumption
  <1>3. OpeningInv /\ SleepBounded => Bounded
    BY StagesNat, OpeningAssumption DEF OpeningInv, TypeOK, SleepBounded, CallLeft
  <1>4. OpeningInv /\ OpeningInv' /\ [Next]_vars => [Nearer]_vars
    BY CallStepsOn, OthersLeaveCall, OpeningAssumption
  <1>5. QED
    BY <1>1, <1>2, <1>3, <1>4, OpeningInductive, PTL DEF Spec, CallsRunOut
=============================================================================
