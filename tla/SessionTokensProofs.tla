------------------------- MODULE SessionTokensProofs -------------------------
(* Theorems about SessionTokens, for every value of its constants. *)
EXTENDS SessionTokens, TLAPS

\* What the proofs of all steps use.
LEMMA OfType == ASSUME TokensAssumption, NEW t \in Thread PROVE Of[t] \in Process
  BY DEF TokensAssumption

\* What issuing a token leaves of the server's types.
LEMMA IssuesTypes ==
    ASSUME TypeOK, NEW old, Issues(old)
    PROVE  /\ issued' \in Nat /\ issued + 1 \in 0..issued' /\ 0..issued \subseteq 0..issued'
           /\ 1..issued \subseteq 1..issued'
           /\ live' \subseteq 1..issued' /\ expired' \subseteq 1..issued'
  <1>1. issued \in Nat /\ live \subseteq 1..issued /\ expired \subseteq 1..issued
    BY DEF TypeOK
  <1>2. issued' = issued + 1 /\ live' \subseteq live \cup {issued + 1} /\ expired' = expired
    BY DEF Issues
  <1>3. /\ issued' \in Nat /\ issued + 1 \in 0..issued' /\ issued + 1 \in 1..issued'
        /\ 0..issued \subseteq 0..issued' /\ 1..issued \subseteq 1..issued'
    BY <1>1, <1>2
  <1>4. QED
    BY <1>1, <1>2, <1>3

\* What an answered renewal leaves of the types, for any token that was issued.
LEMMA RenewedTypes ==
    ASSUME TypeOK, NEW p \in Process, NEW x \in Nat, Renewed(p, x)
    PROVE  /\ issued' \in Nat /\ 0..issued \subseteq 0..issued'
           /\ live' \subseteq 1..issued' /\ expired' \subseteq 1..issued'
           /\ mem' \in [Process -> 0..issued'] /\ mem'[p] \in Nat
           /\ exchanged' \in [Process -> SUBSET (1..issued')]
  <1>1. CASE x \in live /\ Issues({x}) /\ mem' = [mem EXCEPT ![p] = issued + 1]
             /\ exchanged' = [exchanged EXCEPT ![p] = @ \cup {x}]
    <2>1. /\ issued' \in Nat /\ issued + 1 \in 0..issued' /\ 0..issued \subseteq 0..issued'
          /\ 1..issued \subseteq 1..issued'
          /\ live' \subseteq 1..issued' /\ expired' \subseteq 1..issued'
      BY <1>1, IssuesTypes
    <2>2. mem \in [Process -> 0..issued'] /\ exchanged \in [Process -> SUBSET (1..issued')]
      BY <2>1 DEF TypeOK
    <2>3. x \in 1..issued'
      BY <1>1, <2>1 DEF TypeOK
    <2>4. mem' \in [Process -> 0..issued'] /\ mem'[p] = issued + 1 /\ issued + 1 \in Nat
      BY <1>1, <2>1, <2>2 DEF TypeOK
    <2>5. exchanged' \in [Process -> SUBSET (1..issued')]
      BY <1>1, <2>2, <2>3
    <2>6. QED
      BY <2>1, <2>4, <2>5
  <1>2. CASE UNCHANGED <<serverVars, exchanged>> /\ mem' = [mem EXCEPT ![p] = 0]
    BY <1>2 DEF TypeOK, serverVars
  <1>3. QED
    BY <1>1, <1>2 DEF Renewed

---------------------------------------------------------------------------
(* The types. *)

\* A step keeps the types.
LEMMA TypesKept == ASSUME TokensAssumption, TypeOK, [Next]_vars PROVE TypeOK'
  <1> USE DEF TypeOK, InRequest
  <1>1. ASSUME NEW x \in live, Expire(x) PROVE TypeOK'
    BY <1>1 DEF Expire, processVars, threadVars
  <1>2. ASSUME NEW p \in Process, AddSession(p) PROVE TypeOK'
    BY <1>2 DEF AddSession, Issues, processVars, threadVars
  <1>3. ASSUME NEW p \in Process, SignIn(p) PROVE TypeOK'
    BY <1>3 DEF SignIn, Issues, threadVars
  <1>4. ASSUME NEW p \in Process, NEW next \in {"refresh", "ready"}, Load(p, next) PROVE TypeOK'
    BY <1>4 DEF Load, serverVars, threadVars
  <1>5. ASSUME NEW p \in Process, Refresh(p) PROVE TypeOK'
    <2>1. mem[p] \in Nat
      OBVIOUS
    <2>2. QED
      BY <1>5, <2>1, RenewedTypes DEF Refresh, threadVars
  <1>6. ASSUME NEW p \in Process, RefreshLost(p) PROVE TypeOK'
    <2>1. PICK old : Issues(old)
      BY <1>6 DEF RefreshLost, AnswerLost
    <2>2. QED
      BY <1>6, <2>1, IssuesTypes DEF RefreshLost, AnswerLost, processVars, threadVars
  <1>7. ASSUME NEW p \in Process, UpdateSession(p) PROVE TypeOK'
    BY <1>7 DEF UpdateSession, serverVars, threadVars
  <1>8. ASSUME NEW p \in Process, Exit(p) PROVE TypeOK'
    BY <1>8 DEF Exit, serverVars
  <1>9. ASSUME NEW t \in Thread, Begin(t) PROVE TypeOK'
    BY <1>9, OfType DEF Begin, Goes, serverVars, processVars
  <1>10. ASSUME NEW t \in Thread, Acquire(t) PROVE TypeOK'
    BY <1>10, OfType DEF Acquire, Goes, serverVars
  <1>11. ASSUME NEW t \in Thread, Answered(t) \/ RefreshFails(t) \/ Retried(t) PROVE TypeOK'
    <2>1. /\ pc' \in [Thread -> {"idle", "wait", "request", "refresh", "retry"}]
          /\ syncMutex' \in [Process -> Thread \cup {None}]
          /\ used' \in [Thread -> Nat] /\ attempt' \in [Thread -> Nat]
          /\ UNCHANGED <<serverVars, keyring, main, mem, exchanged>>
      BY SMTT(30), <1>11, OfType DEF Answered, RefreshFails, Retried, Return, Goes
    <2>2. QED
      BY <2>1 DEF serverVars
  <1>12. ASSUME NEW t \in Thread, TooMany(t) PROVE TypeOK'
    BY <1>12, OfType DEF TooMany, serverVars, processVars
  <1>13. ASSUME NEW t \in Thread, Unauthorized(t) PROVE TypeOK'
    BY <1>13, OfType DEF Unauthorized, Goes, serverVars, processVars
  <1>14. ASSUME NEW t \in Thread, Refreshed(t) PROVE TypeOK'
    <2>1. used[t] \in Nat /\ Of[t] \in Process
      BY OfType
    <2>2. QED
      BY <1>14, <2>1, RenewedTypes DEF Refreshed, Goes
  <1>15. ASSUME NEW t \in Thread, RefreshedLost(t) PROVE TypeOK'
    <2>1. PICK old : Issues(old)
      BY <1>15 DEF RefreshedLost, AnswerLost
    <2>2. QED
      BY <1>15, <2>1, IssuesTypes DEF RefreshedLost, AnswerLost, processVars, threadVars
  <1>16. ASSUME RemoveSession PROVE TypeOK'
    BY <1>16 DEF RemoveSession, serverVars, processVars, threadVars
  <1>17. CASE UNCHANGED vars
    BY <1>17 DEF vars, serverVars, processVars, threadVars
  <1>18. QED
    BY <1>1, <1>2, <1>3, <1>4, <1>5, <1>6, <1>7, <1>8, <1>9, <1>10,
       <1>11, <1>12, <1>13, <1>14, <1>15, <1>16, <1>17
       DEF Next, MakeSyncRequest

---------------------------------------------------------------------------
(* The parts of the invariant. *)

\* A step keeps the mutex with the thread in the request.
LEMMA MutexKept == ASSUME TokensAssumption, TokensInv, [Next]_vars PROVE MutexHeld'
  <1> USE DEF TokensInv, TypeOK, MutexHeld, InRequest, TokensAssumption
  <1>1. ASSUME NEW x \in live, Expire(x) PROVE MutexHeld'
    BY <1>1 DEF Expire, processVars, threadVars
  <1>2. ASSUME NEW p \in Process, AddSession(p) PROVE MutexHeld'
    BY <1>2 DEF AddSession, Issues, processVars, threadVars
  <1>3. ASSUME NEW p \in Process, SignIn(p) PROVE MutexHeld'
    BY <1>3 DEF SignIn, Issues, threadVars
  <1>4. ASSUME NEW p \in Process, NEW next \in {"refresh", "ready"}, Load(p, next) PROVE MutexHeld'
    BY <1>4 DEF Load, serverVars, threadVars
  <1>5. ASSUME NEW p \in Process, Refresh(p) PROVE MutexHeld'
    BY <1>5 DEF Refresh, Renewed, Issues, serverVars, threadVars
  <1>6. ASSUME NEW p \in Process, RefreshLost(p) PROVE MutexHeld'
    BY <1>6 DEF RefreshLost, AnswerLost, Issues, processVars, threadVars
  <1>7. ASSUME NEW p \in Process, UpdateSession(p) PROVE MutexHeld'
    BY <1>7 DEF UpdateSession, serverVars, threadVars
  <1>8. ASSUME NEW p \in Process, Exit(p) PROVE MutexHeld'
    BY <1>8 DEF Exit, serverVars
  <1>9. ASSUME NEW t \in Thread, Begin(t) PROVE MutexHeld'
    BY <1>9, OfType DEF Begin, Goes, serverVars, processVars
  <1>10. ASSUME NEW t \in Thread, Acquire(t) PROVE MutexHeld'
    BY <1>10, OfType DEF Acquire, Goes, serverVars
  <1>11. ASSUME NEW t \in Thread, Answered(t) \/ RefreshFails(t) \/ Retried(t) PROVE MutexHeld'
    BY <1>11, OfType DEF Answered, RefreshFails, Retried, Return, Goes, serverVars
  <1>12. ASSUME NEW t \in Thread, TooMany(t) PROVE MutexHeld'
    BY <1>12, OfType DEF TooMany, serverVars, processVars
  <1>13. ASSUME NEW t \in Thread, Unauthorized(t) PROVE MutexHeld'
    BY <1>13, OfType DEF Unauthorized, Goes, serverVars, processVars
  <1>14. ASSUME NEW t \in Thread, Refreshed(t) PROVE MutexHeld'
    BY <1>14, OfType DEF Refreshed, Renewed, Issues, Goes, serverVars
  <1>15. ASSUME NEW t \in Thread, RefreshedLost(t) PROVE MutexHeld'
    BY <1>15, OfType DEF RefreshedLost, AnswerLost, Issues, processVars, threadVars
  <1>16. ASSUME RemoveSession PROVE MutexHeld'
    BY <1>16 DEF RemoveSession, serverVars, processVars, threadVars
  <1>17. CASE UNCHANGED vars
    BY <1>17 DEF vars, serverVars, processVars, threadVars
  <1>18. QED
    BY <1>1, <1>2, <1>3, <1>4, <1>5, <1>6, <1>7, <1>8, <1>9, <1>10,
       <1>11, <1>12, <1>13, <1>14, <1>15, <1>16, <1>17
       DEF Next, MakeSyncRequest

\* A step leaves the thread in the request with the tokens of its session.
LEMMA UsesKept == ASSUME TokensAssumption, TokensInv, [Next]_vars PROVE UsesSession'
  <1> USE DEF TokensInv, TypeOK, MutexHeld, UsesSession, InRequest, TokensAssumption
  <1>1. ASSUME NEW x \in live, Expire(x) PROVE UsesSession'
    BY <1>1 DEF Expire, processVars, threadVars
  <1>2. ASSUME NEW p \in Process, AddSession(p) PROVE UsesSession'
    BY <1>2 DEF AddSession, Issues, processVars, threadVars
  <1>3. ASSUME NEW p \in Process, SignIn(p) PROVE UsesSession'
    BY <1>3 DEF SignIn, Issues, threadVars
  <1>4. ASSUME NEW p \in Process, NEW next \in {"refresh", "ready"}, Load(p, next) PROVE UsesSession'
    BY <1>4 DEF Load, serverVars, threadVars
  <1>5. ASSUME NEW p \in Process, Refresh(p) PROVE UsesSession'
    BY <1>5 DEF Refresh, Renewed, Issues, serverVars, threadVars
  <1>6. ASSUME NEW p \in Process, RefreshLost(p) PROVE UsesSession'
    BY <1>6 DEF RefreshLost, AnswerLost, Issues, processVars, threadVars
  <1>7. ASSUME NEW p \in Process, UpdateSession(p) PROVE UsesSession'
    BY <1>7 DEF UpdateSession, serverVars, threadVars
  <1>8. ASSUME NEW p \in Process, Exit(p) PROVE UsesSession'
    BY <1>8 DEF Exit, serverVars
  <1>9. ASSUME NEW t \in Thread, Begin(t) PROVE UsesSession'
    BY <1>9, OfType DEF Begin, Goes, serverVars, processVars
  <1>10. ASSUME NEW t \in Thread, Acquire(t) PROVE UsesSession'
    BY <1>10, OfType DEF Acquire, Goes, serverVars
  <1>11. ASSUME NEW t \in Thread, Answered(t) \/ RefreshFails(t) \/ Retried(t) PROVE UsesSession'
    BY <1>11, OfType DEF Answered, RefreshFails, Retried, Return, Goes, serverVars
  <1>12. ASSUME NEW t \in Thread, TooMany(t) PROVE UsesSession'
    BY <1>12, OfType DEF TooMany, serverVars, processVars
  <1>13. ASSUME NEW t \in Thread, Unauthorized(t) PROVE UsesSession'
    BY <1>13, OfType DEF Unauthorized, Goes, serverVars, processVars
  <1>14. ASSUME NEW t \in Thread, Refreshed(t) PROVE UsesSession'
    BY <1>14, OfType DEF Refreshed, Renewed, Issues, Goes, serverVars
  <1>15. ASSUME NEW t \in Thread, RefreshedLost(t) PROVE UsesSession'
    BY <1>15, OfType DEF RefreshedLost, AnswerLost, Issues, processVars, threadVars
  <1>16. ASSUME RemoveSession PROVE UsesSession'
    BY <1>16 DEF RemoveSession, serverVars, processVars, threadVars
  <1>17. CASE UNCHANGED vars
    BY <1>17 DEF vars, serverVars, processVars, threadVars
  <1>18. QED
    BY <1>1, <1>2, <1>3, <1>4, <1>5, <1>6, <1>7, <1>8, <1>9, <1>10,
       <1>11, <1>12, <1>13, <1>14, <1>15, <1>16, <1>17
       DEF Next, MakeSyncRequest

\* A step keeps renewed tokens out of the sessions.
LEMMA UnspentKept == ASSUME TokensAssumption, TokensInv, [Next]_vars PROVE SessionUnspent'
  <1> USE DEF TokensInv, TypeOK, MutexHeld, UsesSession, SessionUnspent, InRequest
  <1>1. ASSUME NEW x \in live, Expire(x) PROVE SessionUnspent'
    BY <1>1 DEF Expire, processVars, threadVars
  <1>2. ASSUME NEW p \in Process, AddSession(p) PROVE SessionUnspent'
    BY <1>2 DEF AddSession, Issues, processVars, threadVars
  <1>3. ASSUME NEW p \in Process, SignIn(p) PROVE SessionUnspent'
    BY <1>3 DEF SignIn, Issues, threadVars
  <1>4. ASSUME NEW p \in Process, NEW next \in {"refresh", "ready"}, Load(p, next) PROVE SessionUnspent'
    BY <1>4 DEF Load, serverVars, threadVars
  <1>5. ASSUME NEW p \in Process, Refresh(p) PROVE SessionUnspent'
    BY <1>5 DEF Refresh, Renewed, Issues, serverVars, threadVars
  <1>6. ASSUME NEW p \in Process, RefreshLost(p) PROVE SessionUnspent'
    BY <1>6 DEF RefreshLost, AnswerLost, Issues, processVars, threadVars
  <1>7. ASSUME NEW p \in Process, UpdateSession(p) PROVE SessionUnspent'
    BY <1>7 DEF UpdateSession, serverVars, threadVars
  <1>8. ASSUME NEW p \in Process, Exit(p) PROVE SessionUnspent'
    BY <1>8 DEF Exit, serverVars
  <1>9. ASSUME NEW t \in Thread, Begin(t) PROVE SessionUnspent'
    BY <1>9, OfType DEF Begin, Goes, serverVars, processVars
  <1>10. ASSUME NEW t \in Thread, Acquire(t) PROVE SessionUnspent'
    BY <1>10, OfType DEF Acquire, Goes, serverVars
  <1>11. ASSUME NEW t \in Thread, Answered(t) \/ RefreshFails(t) \/ Retried(t) PROVE SessionUnspent'
    BY <1>11, OfType DEF Answered, RefreshFails, Retried, Return, Goes, serverVars
  <1>12. ASSUME NEW t \in Thread, TooMany(t) PROVE SessionUnspent'
    BY <1>12, OfType DEF TooMany, serverVars, processVars
  <1>13. ASSUME NEW t \in Thread, Unauthorized(t) PROVE SessionUnspent'
    BY <1>13, OfType DEF Unauthorized, Goes, serverVars, processVars
  <1>14. ASSUME NEW t \in Thread, Refreshed(t) PROVE SessionUnspent'
    BY <1>14, OfType DEF Refreshed, Renewed, Issues, Goes, serverVars
  <1>15. ASSUME NEW t \in Thread, RefreshedLost(t) PROVE SessionUnspent'
    BY <1>15, OfType DEF RefreshedLost, AnswerLost, Issues, processVars, threadVars
  <1>16. ASSUME RemoveSession PROVE SessionUnspent'
    BY <1>16 DEF RemoveSession, serverVars, processVars, threadVars
  <1>17. CASE UNCHANGED vars
    BY <1>17 DEF vars, serverVars, processVars, threadVars
  <1>18. QED
    BY <1>1, <1>2, <1>3, <1>4, <1>5, <1>6, <1>7, <1>8, <1>9, <1>10,
       <1>11, <1>12, <1>13, <1>14, <1>15, <1>16, <1>17
       DEF Next, MakeSyncRequest

---------------------------------------------------------------------------
(* The theorems. *)

\* Every reachable state has the types, and the tokens a thread works with are
\* those of its session, which it alone may be about to renew.
THEOREM TokensInductive == ASSUME TokensAssumption PROVE Spec => []TokensInv
  <1>1. Init => TokensInv
    BY DEF Init, TokensInv, TypeOK, MutexHeld, UsesSession, SessionUnspent, InRequest,
           TokensAssumption
  <1>2. TokensInv /\ [Next]_vars => TokensInv'
    <2> SUFFICES ASSUME TokensInv, [Next]_vars PROVE TokensInv'
      OBVIOUS
    <2>1. TypeOK'
      BY TypesKept DEF TokensInv
    <2>2. QED
      BY <2>1, MutexKept, UsesKept, UnspentKept DEF TokensInv
  <1>3. QED
    BY <1>1, <1>2, PTL DEF Spec

\* No goroutine works with tokens its process has renewed, whatever the number
\* of processes and goroutines, and however many answers are lost.
THEOREM NeverTwice == ASSUME TokensAssumption PROVE Spec => []NoTokenTwice
  <1>1. TokensInv => NoTokenTwice
    BY OfType DEF TokensInv, UsesSession, SessionUnspent, NoTokenTwice
  <1>2. QED
    BY <1>1, TokensInductive, PTL
---------------------------------------------------------------------------
(* Why the mutex is given back. *)

\* 429 is answered by another request MaxRetries times at most.
AttemptsBounded == \A t \in Thread : attempt[t] \in 0..MaxRetries

\* A step keeps the attempts within their bound.
LEMMA AttemptsKept ==
    ASSUME TokensAssumption, TokensInv, AttemptsBounded, [Next]_vars
    PROVE  AttemptsBounded'
  <1> SUFFICES ASSUME NEW t \in Thread
               PROVE  \/ attempt'[t] \in {0, attempt[t]}
                      \/ attempt'[t] = attempt[t] + 1 /\ attempt[t] < MaxRetries
    BY DEF AttemptsBounded, TokensAssumption
  <1> USE DEF TokensInv, TypeOK
  <1>1. ASSUME NEW p \in Process, Exit(p) PROVE attempt'[t] \in {0, attempt[t]}
    BY <1>1 DEF Exit
  <1>2. ASSUME NEW u \in Thread,
               Acquire(u) \/ Answered(u) \/ RefreshFails(u) \/ Retried(u)
        PROVE  attempt'[t] \in {0, attempt[t]}
    BY <1>2 DEF Acquire, Answered, RefreshFails, Retried, Return
  <1>3. ASSUME NEW u \in Thread, TooMany(u)
        PROVE  \/ attempt'[t] = attempt[t]
               \/ attempt'[t] = attempt[t] + 1 /\ attempt[t] < MaxRetries
    BY <1>3 DEF TooMany
  <1>4. CASE UNCHANGED attempt
    BY <1>4
  <1>5. QED
    BY <1>1, <1>2, <1>3, <1>4
       DEF Next, MakeSyncRequest, Expire, RemoveSession, AddSession, SignIn, Load, Refresh,
           RefreshLost, UpdateSession, Begin, Unauthorized, Refreshed, RefreshedLost,
           processVars, threadVars, vars

\* What is left of a request is a number, by where the thread is.
LEMMA LeftFrom ==
    ASSUME TokensAssumption, TypeOK, AttemptsBounded, NEW t \in Thread
    PROVE  /\ RequestLeft(t) \in Nat
           /\ pc[t] = "retry" => RequestLeft(t) = 1
           /\ pc[t] = "refresh" => RequestLeft(t) = 2
           /\ pc[t] = "request" => /\ RequestLeft(t) = 3 + MaxRetries - attempt[t]
                                   /\ RequestLeft(t) > 2
  <1>1. 3 + MaxRetries - attempt[t] \in Nat /\ 3 + MaxRetries - attempt[t] > 2
    BY DEF TokensAssumption, AttemptsBounded
  <1>2. PICK n : n = 3 + MaxRetries - attempt[t]
    OBVIOUS
  <1>3. RequestLeft(t) = [idle |-> 0, wait |-> 0, retry |-> 1, refresh |-> 2, request |-> n][pc[t]]
    BY <1>2 DEF RequestLeft
  <1>4. pc[t] \in {"idle", "wait", "request", "refresh", "retry"}
    BY DEF TypeOK, InRequest
  <1>5. QED
    BY <1>1, <1>2, <1>3, <1>4

\* A step of a request ends it and frees the mutex, leaves less of it, or is a
\* renewal whose answer is lost.
LEMMA RequestGoesOn ==
    ASSUME TokensAssumption, TokensInv, AttemptsBounded, TokensInv', AttemptsBounded',
           NEW t \in Thread, syncMutex[Of[t]] = t, MakeSyncRequest(t)
    PROVE  \/ syncMutex'[Of[t]] = None
           \/ syncMutex'[Of[t]] = t /\ RequestLeft(t)' < RequestLeft(t)
           \/ syncMutex'[Of[t]] = t /\ UNCHANGED RequestLeft(t) /\ issued' > issued
  <1> USE OfType DEF TokensInv, TypeOK
  <1>1. CASE Answered(t) \/ RefreshFails(t) \/ Retried(t)
    BY <1>1 DEF Answered, RefreshFails, Retried, Return
  <1>2. CASE TooMany(t)
    <2>1. pc[t] = "request" /\ pc'[t] = "request" /\ attempt'[t] = attempt[t] + 1
          /\ syncMutex' = syncMutex
      BY <1>2 DEF TooMany, processVars
    <2>2. RequestLeft(t) = 3 + MaxRetries - attempt[t]
      BY <2>1, LeftFrom
    <2>3. RequestLeft(t)' = 3 + MaxRetries - (attempt[t] + 1)
      BY <2>1 DEF RequestLeft
    <2>4. QED
      BY <2>1, <2>2, <2>3 DEF TokensAssumption
  <1>3. CASE Unauthorized(t)
    <2>1. pc[t] = "request" /\ pc'[t] = "refresh" /\ syncMutex' = syncMutex
      BY <1>3 DEF Unauthorized, Goes, processVars, InRequest
    <2>2. RequestLeft(t) > 2 /\ RequestLeft(t) \in Nat
      BY <2>1, LeftFrom
    <2>3. RequestLeft(t)' = 2
      BY <2>1 DEF RequestLeft
    <2>4. QED
      BY <2>1, <2>2, <2>3
  <1>4. CASE Refreshed(t)
    <2>1. pc[t] = "refresh" /\ pc'[t] = "retry" /\ syncMutex' = syncMutex
      BY <1>4 DEF Refreshed, Goes, InRequest
    <2>2. RequestLeft(t) = 2
      BY <2>1, LeftFrom
    <2>3. RequestLeft(t)' = 1
      BY <2>1 DEF RequestLeft
    <2>4. QED
      BY <2>1, <2>2, <2>3
  <1>5. CASE RefreshedLost(t)
    <2>1. /\ UNCHANGED <<pc, attempt, syncMutex>>
          /\ issued' > issued
      BY <1>5 DEF RefreshedLost, AnswerLost, Issues, processVars, threadVars
    <2>2. UNCHANGED RequestLeft(t)
      BY <2>1 DEF RequestLeft
    <2>3. QED
      BY <2>1, <2>2
  <1>6. QED
    BY <1>1, <1>2, <1>3, <1>4, <1>5 DEF MakeSyncRequest

\* What others do leaves the mutex with the thread and its request as it is,
\* unless the process ends.
LEMMA OthersLeaveRequest ==
    ASSUME TokensAssumption, TokensInv, [Next]_vars,
           NEW t \in Thread, syncMutex[Of[t]] = t, ~MakeSyncRequest(t)
    PROVE  \/ syncMutex'[Of[t]] = None
           \/ syncMutex'[Of[t]] = t /\ UNCHANGED RequestLeft(t)
  <1> DEFINE Same == syncMutex'[Of[t]] = t /\ pc'[t] = pc[t] /\ attempt'[t] = attempt[t]
  <1> USE OfType DEF TokensInv, TypeOK
  <1>1. Same => UNCHANGED RequestLeft(t)
    BY DEF RequestLeft
  <1>2. t # None /\ pc[t] \in InRequest
    BY DEF TokensAssumption, MutexHeld
  <1>3. ASSUME NEW p \in Process, Exit(p) PROVE syncMutex'[Of[t]] = None \/ Same
    BY <1>3 DEF Exit
  <1>4. ASSUME NEW u \in Thread, Begin(u) PROVE Same
    BY <1>2, <1>4 DEF Begin, Goes, processVars, InRequest
  <1>5. ASSUME NEW u \in Thread, Acquire(u) PROVE Same
    <2>1. Of[u] # Of[t] /\ u # t
      BY <1>2, <1>5 DEF Acquire
    <2>2. QED
      BY <1>5, <2>1 DEF Acquire, Goes
  <1>6. ASSUME NEW u \in Thread, MakeSyncRequest(u) PROVE syncMutex'[Of[t]] = None \/ Same
    <2>1. u # t
      BY <1>6
    <2>2. CASE Answered(u) \/ RefreshFails(u) \/ Retried(u)
      <3>1. Return(u)
        BY <2>2 DEF Answered, RefreshFails, Retried
      <3>2. QED
        BY <2>1, <3>1 DEF Return, Goes
    <2>3. CASE TooMany(u) \/ Unauthorized(u) \/ Refreshed(u) \/ RefreshedLost(u)
      BY <2>1, <2>3 DEF TooMany, Unauthorized, Refreshed, RefreshedLost, Goes, processVars,
                        threadVars
    <2>4. QED
      BY <1>6, <2>2, <2>3 DEF MakeSyncRequest
  <1>7. CASE UNCHANGED <<syncMutex, pc, attempt>>
    BY <1>1, <1>7
  <1>8. QED
    BY <1>1, <1>3, <1>4, <1>5, <1>6, <1>7
       DEF Next, Expire, RemoveSession, AddSession, SignIn, Load, Refresh, RefreshLost,
           UpdateSession, processVars, threadVars, vars

\* The thread that holds the mutex has a bounded number of steps to take before
\* it gives the mutex back, not counting renewals whose answers are lost, and
\* nobody takes it from it but the end of the process.
THEOREM RequestsAreBounded == ASSUME TokensAssumption PROVE Spec => RequestsRunOut
  <1> DEFINE Numbers == \A t \in Thread : RequestLeft(t) \in Nat
             Nearer == \A t \in Thread : syncMutex[Of[t]] = t =>
                          \/ syncMutex'[Of[t]] = None
                          \/ syncMutex'[Of[t]] = t /\ RequestLeft(t)' < RequestLeft(t)
                          \/ /\ syncMutex'[Of[t]] = t /\ UNCHANGED RequestLeft(t)
                             /\ MakeSyncRequest(t) => issued' > issued
  <1>1. Init => AttemptsBounded
    BY DEF Init, AttemptsBounded, TokensAssumption
  <1>2. TokensInv /\ AttemptsBounded /\ [Next]_vars => AttemptsBounded'
    BY AttemptsKept
  <1>3. TokensInv /\ AttemptsBounded => Numbers
    BY LeftFrom DEF TokensInv
  <1>4. /\ TokensInv /\ TokensInv' /\ AttemptsBounded /\ AttemptsBounded' /\ [Next]_vars
        => [Nearer]_vars
    BY RequestGoesOn, OthersLeaveRequest
  <1>5. QED
    BY <1>1, <1>2, <1>3, <1>4, TokensInductive, PTL DEF Spec, RequestsRunOut
=============================================================================
