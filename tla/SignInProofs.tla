---------------------------- MODULE SignInProofs ----------------------------
(* Theorems about SignIn, for every value of its constants. *)
EXTENDS SignIn, TLAPS

---------------------------------------------------------------------------
(* Steps that many actions share. *)

\* A request that is sent again is still the same, or its call has failed.
LEMMA SentAgain ==
    ASSUME SignInAssumption, TypeOK, NEW p \in Process, SendAgain(p)
    PROVE  /\ sends' \in [Process -> 0..MaxRequestRetries]
           /\ result' \in [Process -> {"none", "added", "registered", "declined", "error"}]
           /\ pc' = pc \/ pc' = [pc EXCEPT ![p] = "idle"]
  BY DEF SignInAssumption, TypeOK, SendAgain, Set, Return

\* A session is issued for a challenge that is not spent yet.
LEMMA IssuedTypes ==
    ASSUME TypeOK, NEW p \in Process, Issue(p)
    PROVE  /\ issued' = issued + 1 /\ issued' \in Nat
           /\ challenges' = challenges \ {p} /\ challenges' \subseteq Process
           /\ granted' = [granted EXCEPT ![p] = @ + 1] /\ granted' \in [Process -> Nat]
           /\ UNCHANGED <<registered, mfa>>
  BY DEF TypeOK, Issue, Set

---------------------------------------------------------------------------
(* The types. *)

\* A step keeps the types.
LEMMA TypesKept == ASSUME SignInAssumption, TypeOK, [Next]_vars PROVE TypeOK'
  <1> USE DEF TypeOK, Set, Goto, Return, SignInAssumption
  <1>1. CASE ToggleMfa
    BY <1>1 DEF ToggleMfa, callVars, historyVars
  <1>2. ASSUME NEW p \in Process, Register(p) PROVE TypeOK'
    BY <1>2 DEF Register, Call, serverVars
  <1>3. ASSUME NEW p \in Process, AddSession(p) PROVE TypeOK'
    <2>1. /\ calls' \in Nat /\ granted' \in [Process -> Nat] /\ repeated' \in [Process -> BOOLEAN]
          /\ UNCHANGED <<registered, mfa, issued, keyring>>
      BY <1>3 DEF AddSession, Call
    <2>2. CASE UNCHANGED <<challenges, callVars>>
      BY <1>3, <2>1, <2>2 DEF AddSession, callVars
    <2>3. ASSUME Goto(p, "params"), \E right \in BOOLEAN : Set(password, p, right),
                 Set(derived, p, FALSE), Set(round, p, 1), Set(code, p, "none"),
                 Set(session, p, 0), challenges' = challenges \ {p}, UNCHANGED result
          PROVE  TypeOK'
      <3>1. password' \in [Process -> BOOLEAN]
        BY <2>3
      <3>2. QED
        BY <2>1, <2>3, <3>1
    <2>4. QED
      BY <1>3, <2>2, <2>3 DEF AddSession
  <1>4. ASSUME NEW p \in Process, CodeExpires(p) PROVE TypeOK'
    BY <1>4 DEF CodeExpires, serverVars, historyVars
  <1>5. ASSUME NEW p \in Process, Registered(p) PROVE TypeOK'
    BY <1>5 DEF Registered, callVars, historyVars
  <1>6. ASSUME NEW p \in Process, RegisterLost(p) PROVE TypeOK'
    BY <1>6, SentAgain DEF RegisterLost, historyVars
  <1>7. ASSUME NEW p \in Process, Params(p) \/ ParamsMissing(p) PROVE TypeOK'
    <2>1. /\ challenges' \subseteq Process
          /\ UNCHANGED <<registered, mfa, issued, keyring, password, round, code, session, result,
                         calls, granted, repeated>>
      BY <1>7 DEF Params, ParamsMissing, WithParams, historyVars
    <2>2. \E step \in {"token", "code", "write"} : Goto(p, step)
      BY <1>7 DEF Params, ParamsMissing, WithParams
    <2>3. /\ sends' \in [Process -> 0..MaxRequestRetries]
          /\ pc' \in [Process -> {"idle", "register", "params", "token", "code", "write"}]
      BY <2>2
    <2>4. derived' \in [Process -> BOOLEAN]
      BY <1>7 DEF Params, ParamsMissing, WithParams
    <2>5. QED
      BY <2>1, <2>3, <2>4
  <1>8. ASSUME NEW p \in Process, ParamsLost(p) PROVE TypeOK'
    BY <1>8, SentAgain DEF ParamsLost, historyVars
  <1>9. ASSUME NEW p \in Process, EnterCode(p) PROVE TypeOK'
    BY <1>9 DEF EnterCode, historyVars
  <1>10. ASSUME NEW p \in Process, ParamsRefused(p) \/ CodeNotEntered(p) \/ TokenRefused(p)
         PROVE  TypeOK'
    BY <1>10 DEF ParamsRefused, CodeNotEntered, TokenRefused, serverVars, callVars, historyVars
  <1>11. ASSUME NEW p \in Process, Token(p) PROVE TypeOK'
    BY <1>11, IssuedTypes DEF Token
  <1>12. ASSUME NEW p \in Process, TokenLost(p) PROVE TypeOK'
    <2>1. /\ challenges' \subseteq Process /\ issued' \in Nat
          /\ granted' \in [Process -> Nat] /\ repeated' \in [Process -> BOOLEAN]
          /\ UNCHANGED <<registered, mfa>>
      BY <1>12, IssuedTypes DEF TokenLost, serverVars, historyVars
    <2>2. QED
      BY <1>12, <2>1, SentAgain DEF TokenLost
  <1>13. ASSUME NEW p \in Process, Write(p) PROVE TypeOK'
    <2>1. [stored |-> TRUE, session |-> session[p]] \in [stored : BOOLEAN, session : Nat]
      OBVIOUS
    <2>2. keyring' \in [stored : BOOLEAN, session : Nat]
      BY <1>13, <2>1 DEF Write
    <2>3. QED
      BY <1>13, <2>2 DEF Write, serverVars, callVars, historyVars
  <1>14. CASE UNCHANGED vars
    BY <1>14 DEF vars, serverVars, callVars, historyVars
  <1>15. QED
    BY <1>1, <1>2, <1>3, <1>4, <1>5, <1>6, <1>7, <1>8, <1>9, <1>10, <1>11, <1>12, <1>13, <1>14
       DEF Next, Step

---------------------------------------------------------------------------
(* The challenge and the session of a call. *)

\* A step keeps what is known of the challenges.
LEMMA ChallengesKept ==
    ASSUME SignInAssumption, SignInInv, [Next]_vars
    PROVE  ChallengeSpent'
  <1> USE DEF SignInInv, TypeOK, ChallengeSpent, Set, Goto, Return
  <1>1. CASE ToggleMfa
    BY <1>1 DEF ToggleMfa, callVars, historyVars
  <1>2. ASSUME NEW p \in Process, Register(p) PROVE ChallengeSpent'
    BY <1>2 DEF Register, Call, serverVars
  <1>3. ASSUME NEW p \in Process, AddSession(p) PROVE ChallengeSpent'
    BY <1>3 DEF AddSession, Call, serverVars, callVars
  <1>4. ASSUME NEW p \in Process, CodeExpires(p) PROVE ChallengeSpent'
    BY <1>4 DEF CodeExpires, serverVars, historyVars
  <1>5. ASSUME NEW p \in Process, Registered(p) PROVE ChallengeSpent'
    BY <1>5 DEF Registered, callVars, historyVars
  <1>6. ASSUME NEW p \in Process, RegisterLost(p) PROVE ChallengeSpent'
    BY <1>6, SentAgain DEF RegisterLost, historyVars
  <1>7. ASSUME NEW p \in Process, Params(p) \/ ParamsMissing(p) PROVE ChallengeSpent'
    BY <1>7 DEF Params, ParamsMissing, WithParams, historyVars
  <1>8. ASSUME NEW p \in Process, ParamsLost(p) PROVE ChallengeSpent'
    BY <1>8, SentAgain DEF ParamsLost, historyVars
  <1>9. ASSUME NEW p \in Process, EnterCode(p) PROVE ChallengeSpent'
    BY <1>9 DEF EnterCode, historyVars
  <1>10. ASSUME NEW p \in Process, ParamsRefused(p) \/ CodeNotEntered(p) \/ TokenRefused(p)
         PROVE  ChallengeSpent'
    BY <1>10 DEF ParamsRefused, CodeNotEntered, TokenRefused, serverVars, callVars, historyVars
  <1>11. ASSUME NEW p \in Process, Token(p) PROVE ChallengeSpent'
    <2>1. p \in challenges /\ granted[p] = 0 /\ pc' = [pc EXCEPT ![p] = "write"]
      BY <1>11 DEF Token, Accepts
    <2>2. /\ challenges' = challenges \ {p} /\ repeated' = repeated
          /\ granted' = [granted EXCEPT ![p] = @ + 1]
      BY <1>11, IssuedTypes DEF Token
    <2>3. /\ derived' = derived
          /\ \A q \in Process \ {p} : session'[q] = session[q]
      BY <1>11 DEF Token
    <2>4. QED
      BY <2>1, <2>2, <2>3
  <1>12. ASSUME NEW p \in Process, TokenLost(p) PROVE ChallengeSpent'
    <2>1. /\ pc[p] = "token" /\ (pc' = pc \/ pc' = [pc EXCEPT ![p] = "idle"])
          /\ derived' = derived /\ session' = session
      BY <1>12, SentAgain DEF TokenLost
    <2>2. CASE Accepts(p) /\ Issue(p) /\ Set(repeated, p, TRUE)
      <3>1. p \in challenges /\ granted[p] = 0 /\ repeated' = [repeated EXCEPT ![p] = TRUE]
        BY <2>1, <2>2 DEF Accepts
      <3>2. challenges' = challenges \ {p} /\ granted' = [granted EXCEPT ![p] = @ + 1]
        BY <2>2, IssuedTypes
      <3>3. /\ granted'[p] = 1 /\ p \notin challenges' /\ repeated'[p]
            /\ \A q \in Process \ {p} : /\ granted'[q] = granted[q] /\ repeated'[q] = repeated[q]
                                        /\ q \in challenges' <=> q \in challenges
        BY <3>1, <3>2
      <3>4. QED
        BY <2>1, <3>3
    <2>3. CASE UNCHANGED <<serverVars, historyVars>>
      BY <2>1, <2>3 DEF serverVars, historyVars
    <2>4. QED
      BY <1>12, <2>2, <2>3 DEF TokenLost
  <1>13. ASSUME NEW p \in Process, Write(p) PROVE ChallengeSpent'
    BY <1>13 DEF Write, serverVars, callVars, historyVars
  <1>14. CASE UNCHANGED vars
    BY <1>14 DEF vars, serverVars, callVars, historyVars
  <1>15. QED
    BY <1>1, <1>2, <1>3, <1>4, <1>5, <1>6, <1>7, <1>8, <1>9, <1>10, <1>11, <1>12, <1>13, <1>14
       DEF Next, Step

\* A process that comes to write its session comes from Token, with the session
\* that is issued, or from Params or TokenRefused, with the one it had; another
\* that was there stays as it was.
LEMMA ComesToWrite ==
    ASSUME SignInAssumption, TypeOK, [Next]_vars, NEW q \in Process, pc'[q] = "write"
    PROVE  /\ issued' \in {issued, issued + 1}
           /\ \/ Token(q) /\ session'[q] = issued + 1 /\ issued' = issued + 1
              \/ (Params(q) \/ TokenRefused(q)) /\ session'[q] = session[q]
              \/ /\ pc[q] = "write"
                 /\ session'[q] = session[q] /\ password'[q] = password[q]
                 /\ derived'[q] = derived[q] /\ granted'[q] = granted[q]
  <1> USE DEF TypeOK, Set, Goto, Return
  <1>1. CASE ToggleMfa
    BY <1>1 DEF ToggleMfa, callVars, historyVars
  <1>2. ASSUME NEW p \in Process, Register(p) \/ AddSession(p)
        PROVE  /\ issued' = issued /\ pc[q] = "write"
               /\ session'[q] = session[q] /\ password'[q] = password[q]
               /\ derived'[q] = derived[q] /\ granted'[q] = granted[q]
    BY <1>2 DEF Register, AddSession, Call, serverVars, callVars
  <1>3. ASSUME NEW p \in Process, CodeExpires(p) \/ Registered(p) \/ Write(p)
        PROVE  /\ issued' = issued /\ pc[q] = "write"
               /\ session'[q] = session[q] /\ password'[q] = password[q]
               /\ derived'[q] = derived[q] /\ granted'[q] = granted[q]
    BY <1>3 DEF CodeExpires, Registered, Write, serverVars, callVars, historyVars
  <1>4. ASSUME NEW p \in Process, RegisterLost(p) \/ ParamsLost(p)
        PROVE  /\ issued' = issued /\ pc[q] = "write"
               /\ session'[q] = session[q] /\ password'[q] = password[q]
               /\ derived'[q] = derived[q] /\ granted'[q] = granted[q]
    BY <1>4, SentAgain DEF RegisterLost, ParamsLost, historyVars
  <1>5. ASSUME NEW p \in Process, Params(p)
        PROVE  /\ issued' = issued
               /\ \/ p = q /\ session'[q] = session[q]
                  \/ /\ pc[q] = "write"
                     /\ session'[q] = session[q] /\ password'[q] = password[q]
                     /\ derived'[q] = derived[q] /\ granted'[q] = granted[q]
    BY <1>5 DEF Params, WithParams, historyVars
  <1>6. ASSUME NEW p \in Process, EnterCode(p) \/ ParamsMissing(p)
        PROVE  /\ issued' = issued /\ pc[q] = "write"
               /\ session'[q] = session[q] /\ password'[q] = password[q]
               /\ derived'[q] = derived[q] /\ granted'[q] = granted[q]
    BY <1>6 DEF EnterCode, ParamsMissing, historyVars
  <1>7. ASSUME NEW p \in Process, ParamsRefused(p) \/ CodeNotEntered(p)
        PROVE  /\ issued' = issued /\ pc[q] = "write"
               /\ session'[q] = session[q] /\ password'[q] = password[q]
               /\ derived'[q] = derived[q] /\ granted'[q] = granted[q]
    BY <1>7 DEF ParamsRefused, CodeNotEntered, serverVars, callVars, historyVars
  <1>8. ASSUME NEW p \in Process, TokenRefused(p)
        PROVE  /\ issued' = issued
               /\ \/ p = q /\ session'[q] = session[q]
                  \/ /\ pc[q] = "write"
                     /\ session'[q] = session[q] /\ password'[q] = password[q]
                     /\ derived'[q] = derived[q] /\ granted'[q] = granted[q]
    BY <1>8 DEF TokenRefused, serverVars, historyVars
  <1>9. ASSUME NEW p \in Process, Token(p)
        PROVE  /\ issued' = issued + 1
               /\ \/ p = q /\ session'[q] = issued + 1
                  \/ /\ pc[q] = "write"
                     /\ session'[q] = session[q] /\ password'[q] = password[q]
                     /\ derived'[q] = derived[q] /\ granted'[q] = granted[q]
    BY <1>9, IssuedTypes DEF Token
  <1>10. ASSUME NEW p \in Process, TokenLost(p)
        PROVE  /\ issued' \in {issued, issued + 1} /\ pc[q] = "write"
               /\ session'[q] = session[q] /\ password'[q] = password[q]
               /\ derived'[q] = derived[q] /\ granted'[q] = granted[q]
    <2>1. p # q /\ pc[q] = "write" /\ issued' \in {issued, issued + 1}
      BY <1>10, SentAgain, IssuedTypes DEF TokenLost, serverVars
    <2>2. granted'[q] = granted[q]
      BY <1>10, <2>1, IssuedTypes DEF TokenLost, historyVars
    <2>3. QED
      BY <1>10, <2>1, <2>2 DEF TokenLost
  <1>11. CASE UNCHANGED vars
    BY <1>11 DEF vars, serverVars, callVars, historyVars
  <1>12. QED
    BY <1>1, <1>2, <1>3, <1>4, <1>5, <1>6, <1>7, <1>8, <1>9, <1>10, <1>11 DEF Next, Step

\* A step keeps what is known of a session that is about to be written.
LEMMA WrittenKept ==
    ASSUME SignInAssumption, SignInInv, [Next]_vars
    PROVE  WrittenSession'
  <1> SUFFICES ASSUME NEW q \in Process, pc'[q] = "write"
               PROVE  \/ /\ session'[q] \in 1..issued' /\ granted'[q] = 1
                         /\ password'[q] /\ derived'[q]
                      \/ session'[q] = 0
    BY DEF WrittenSession
  <1>1. issued \in Nat /\ issued' \in {issued, issued + 1}
    BY ComesToWrite DEF SignInInv, TypeOK
  <1>2. CASE Token(q) /\ session'[q] = issued + 1 /\ issued' = issued + 1
    <2>1. granted[q] = 0 /\ password[q] /\ derived[q]
      BY <1>2 DEF Token, Accepts, SignInInv, ChallengeSpent
    <2>2. granted'[q] = 1 /\ password'[q] /\ derived'[q]
      BY <1>2, <2>1, IssuedTypes DEF Token, SignInInv, TypeOK
    <2>3. QED
      BY <1>1, <1>2, <2>2
  <1>3. CASE (Params(q) \/ TokenRefused(q)) /\ session'[q] = session[q]
    <2>1. pc[q] \in {"params", "token"}
      BY <1>3 DEF Params, TokenRefused
    <2>2. session[q] = 0
      BY <2>1 DEF SignInInv, ChallengeSpent
    <2>3. QED
      BY <1>3, <2>2
  <1>4. CASE /\ pc[q] = "write"
             /\ session'[q] = session[q] /\ password'[q] = password[q]
             /\ derived'[q] = derived[q] /\ granted'[q] = granted[q]
    <2>1. \/ /\ session[q] \in 1..issued /\ granted[q] = 1
             /\ password[q] /\ derived[q]
          \/ session[q] = 0
      BY <1>4 DEF SignInInv, WrittenSession
    <2>2. QED
      BY <1>1, <1>4, <2>1
  <1>5. QED
    BY <1>2, <1>3, <1>4, ComesToWrite DEF SignInInv

---------------------------------------------------------------------------
(* The theorems. *)

\* Whatever is sent, sent again or lost: the types, the challenges and the
\* sessions are as SignInInv says in every reachable state.
THEOREM SignInInductive == Spec => []SignInInv
  <1>1. Init => SignInInv
    BY SignInAssumption
       DEF SignInAssumption, Init, SignInInv, TypeOK, WrittenSession, ChallengeSpent
  <1>2. SignInInv /\ [Next]_vars => SignInInv'
    BY SignInAssumption, TypesKept, ChallengesKept, WrittenKept DEF SignInInv
  <1>3. QED
    BY <1>1, <1>2, PTL DEF Spec

\* The server issues at most one session to a call, and no two calls that are
\* about to write have the same.
THEOREM OneSessionForEach == Spec => []OneSessionEach
  <1>1. Init => OneSessionEach
    BY DEF Init, OneSessionEach
  <1>2. SignInInv /\ SignInInv' /\ OneSessionEach /\ [Next]_vars => OneSessionEach'
    <2> SUFFICES ASSUME SignInInv, SignInInv', OneSessionEach, [Next]_vars
                 PROVE  OneSessionEach'
      OBVIOUS
    <2>1. \A p \in Process : granted'[p] <= 1
      BY DEF SignInInv, ChallengeSpent
    <2>2. ASSUME NEW p \in Process, NEW q \in Process, pc'[p] = "write", pc'[q] = "write",
                 session'[p] = session'[q], session'[p] # 0
          PROVE  p = q
      <3>1. ASSUME NEW r \in Process, pc'[r] = "write", session'[r] # 0
            PROVE  \/ Token(r) /\ session'[r] = issued + 1
                   \/ pc[r] = "write" /\ session'[r] = session[r]
        <4>1. ASSUME Params(r) \/ TokenRefused(r) PROVE session[r] = 0
          <5>1. pc[r] \in {"params", "token"}
            BY <4>1 DEF Params, TokenRefused
          <5>2. QED
            BY <5>1 DEF SignInInv, ChallengeSpent
        <4>2. QED
          BY <3>1, <4>1, ComesToWrite, SignInAssumption DEF SignInInv
      <3>2. ASSUME NEW r \in Process, pc[r] = "write" PROVE session[r] # issued + 1
        BY <3>2 DEF SignInInv, TypeOK, WrittenSession
      <3>3. CASE Token(p) /\ Token(q)
        <4>1. pc[p] = "token" /\ pc' = [pc EXCEPT ![q] = "write"]
          BY <3>3 DEF Token, Goto, Set
        <4>2. QED
          BY <2>2, <4>1 DEF SignInInv, TypeOK
      <3>4. CASE pc[p] = "write" /\ session'[p] = session[p]
                 /\ pc[q] = "write" /\ session'[q] = session[q]
        BY <2>2, <3>4 DEF OneSessionEach
      <3>5. QED
        BY <2>2, <3>1, <3>2, <3>3, <3>4
    <2>3. QED
      BY <2>1, <2>2 DEF OneSessionEach
  <1>3. QED
    BY <1>1, <1>2, SignInInductive, PTL DEF Spec

\* A token request with a password derived from the account's parameters comes
\* with a challenge the server knows, or has been carried out before.
THEOREM ChallengeIsKnown == Spec => []ChallengeKnown
  <1>1. SignInInv => ChallengeKnown
    BY DEF SignInInv, ChallengeSpent, ChallengeKnown
  <1>2. QED
    BY <1>1, SignInInductive, PTL
---------------------------------------------------------------------------
(* Why a call ends. *)

\* The stages before a call, by where it is.
LEMMA StagesFrom ==
    ASSUME TypeOK, NEW p \in Process
    PROVE  /\ StagesLeft(p) \in 0..5
           /\ pc[p] = "idle" => StagesLeft(p) = 0
           /\ pc[p] \in {"write", "register"} => StagesLeft(p) = 1
           /\ pc[p] = "token" => StagesLeft(p) = 2
           /\ pc[p] = "code" => StagesLeft(p) = 4
           /\ pc[p] = "params" => StagesLeft(p) = IF round[p] = 2 THEN 3 ELSE 5
  BY DEF TypeOK, StagesLeft

\* They are the same after a step.
LEMMA StagesThen ==
    ASSUME TypeOK', NEW p \in Process
    PROVE  /\ StagesLeft(p)' \in 0..5
           /\ pc'[p] = "idle" => StagesLeft(p)' = 0
           /\ pc'[p] \in {"write", "register"} => StagesLeft(p)' = 1
           /\ pc'[p] = "token" => StagesLeft(p)' = 2
           /\ pc'[p] = "code" => StagesLeft(p)' = 4
           /\ pc'[p] = "params" => StagesLeft(p)' = IF round'[p] = 2 THEN 3 ELSE 5
           /\ pc'[p] = pc[p] /\ round'[p] = round[p] => StagesLeft(p)' = StagesLeft(p)
  BY DEF TypeOK, StagesLeft

\* A step of a call leaves fewer stages, or sends the request again.
LEMMA StepRunsOut ==
    ASSUME SignInAssumption, TypeOK, TypeOK', NEW p \in Process, Step(p)
    PROVE  \/ StagesLeft(p)' < StagesLeft(p)
           \/ StagesLeft(p)' = StagesLeft(p) /\ sends'[p] > sends[p]
  <1> USE DEF Set, Goto, Return
  <1>1. pc \in [Process -> {"idle", "register", "params", "token", "code", "write"}]
        /\ sends \in [Process -> 0..MaxRequestRetries] /\ round \in [Process -> {1, 2}]
    BY DEF TypeOK
  <1>2. ASSUME pc[p] # "idle", pc'[p] = "idle" PROVE StagesLeft(p)' < StagesLeft(p)
    BY <1>1, <1>2, StagesFrom, StagesThen
  <1>3. CASE Registered(p) \/ ParamsRefused(p) \/ CodeNotEntered(p) \/ Write(p)
    <2>1. pc[p] # "idle" /\ pc'[p] = "idle"
      BY <1>1, <1>3 DEF Registered, ParamsRefused, CodeNotEntered, Write
    <2>2. QED
      BY <1>2, <2>1
  <1>4. CASE RegisterLost(p) \/ ParamsLost(p) \/ TokenLost(p)
    <2>1. pc[p] # "idle" /\ SendAgain(p) /\ round' = round
      BY <1>4 DEF RegisterLost, ParamsLost, TokenLost
    <2>2. CASE sends' = [sends EXCEPT ![p] = sends[p] + 1] /\ pc' = pc
      <3>1. sends'[p] = sends[p] + 1 /\ sends[p] \in Nat
        BY <1>1, <2>2 DEF SignInAssumption
      <3>2. StagesLeft(p)' = StagesLeft(p)
        BY <2>1, <2>2, StagesThen
      <3>3. QED
        BY <3>1, <3>2
    <2>3. CASE pc' = [pc EXCEPT ![p] = "idle"]
      BY <1>1, <1>2, <2>1, <2>3
    <2>4. QED
      BY <2>1, <2>2, <2>3 DEF SendAgain
  <1>5. CASE Params(p) \/ ParamsMissing(p)
    <2>1. pc[p] = "params" /\ round' = round
      BY <1>5 DEF Params, ParamsMissing, WithParams
    <2>2. StagesLeft(p) = IF round[p] = 2 THEN 3 ELSE 5
      BY <2>1, StagesFrom
    <2>3. pc'[p] \in {"token", "write"} \/ (pc'[p] = "code" /\ round[p] = 1)
      BY <1>1, <1>5 DEF Params, ParamsMissing, WithParams
    <2>4. QED
      BY <2>2, <2>3, StagesThen
  <1>6. CASE EnterCode(p)
    <2>1. pc[p] = "code" /\ pc'[p] = "params" /\ round'[p] = 2
      BY <1>1, <1>6 DEF EnterCode
    <2>2. QED
      BY <2>1, StagesFrom, StagesThen
  <1>7. CASE Token(p) \/ TokenRefused(p)
    <2>1. pc[p] = "token" /\ pc'[p] \in {"write", "idle"}
      BY <1>1, <1>7 DEF Token, TokenRefused
    <2>2. QED
      BY <2>1, StagesFrom, StagesThen
  <1>8. QED
    BY <1>3, <1>4, <1>5, <1>6, <1>7 DEF Step

\* What others do leaves a call where it is.
LEMMA OthersLeaveCall ==
    ASSUME SignInAssumption, TypeOK, TypeOK', [Next]_vars,
           NEW p \in Process, pc[p] # "idle", ~Step(p)
    PROVE  UNCHANGED <<StagesLeft(p), sends[p]>>
  <1> USE DEF TypeOK, Set, Goto, Return
  <1>1. SUFFICES pc'[p] = pc[p] /\ round'[p] = round[p] /\ sends'[p] = sends[p]
    BY StagesThen
  <1>2. CASE ToggleMfa
    BY <1>2 DEF ToggleMfa, callVars
  <1>3. ASSUME NEW q \in Process, Register(q) \/ AddSession(q)
        PROVE  pc'[p] = pc[p] /\ round'[p] = round[p] /\ sends'[p] = sends[p]
    BY <1>3 DEF Register, AddSession, Call, callVars
  <1>4. ASSUME NEW q \in Process, CodeExpires(q)
        PROVE  pc'[p] = pc[p] /\ round'[p] = round[p] /\ sends'[p] = sends[p]
    BY <1>4 DEF CodeExpires
  <1>5. ASSUME NEW q \in Process \ {p}, Step(q)
        PROVE  pc'[p] = pc[p] /\ round'[p] = round[p] /\ sends'[p] = sends[p]
    <2>1. CASE Registered(q) \/ ParamsRefused(q) \/ CodeNotEntered(q) \/ TokenRefused(q) \/ Write(q)
      BY <2>1 DEF Registered, ParamsRefused, CodeNotEntered, TokenRefused, Write, callVars
    <2>2. CASE RegisterLost(q) \/ ParamsLost(q) \/ TokenLost(q)
      <3>1. SendAgain(q) /\ round' = round
        BY <2>2 DEF RegisterLost, ParamsLost, TokenLost
      <3>2. QED
        BY <3>1 DEF SendAgain
    <2>3. CASE Params(q) \/ ParamsMissing(q) \/ EnterCode(q) \/ Token(q)
      BY <2>3 DEF Params, ParamsMissing, WithParams, EnterCode, Token
    <2>4. QED
      BY <1>5, <2>1, <2>2, <2>3 DEF Step
  <1>6. CASE UNCHANGED vars
    BY <1>6 DEF vars, callVars
  <1>7. QED
    BY <1>2, <1>3, <1>4, <1>5, <1>6 DEF Next

\* A call has at most five stages before it and sends each request at most
\* MaxRequestRetries + 1 times: every step of its own brings it nearer to its
\* end, and nothing that others do takes it back.
THEOREM CallsAreBounded == Spec => CallsRunOut
  <1> DEFINE Bounded == \A p \in Process : StagesLeft(p) \in 0..5 /\ sends[p] \in 0..MaxRequestRetries
             Nearer == \A p \in Process : pc[p] # "idle" =>
                          \/ StagesLeft(p)' < StagesLeft(p)
                          \/ StagesLeft(p)' = StagesLeft(p) /\ sends'[p] > sends[p]
                          \/ ~Step(p) /\ UNCHANGED <<StagesLeft(p), sends[p]>>
  <1>1. SignInInv => Bounded
    BY StagesFrom DEF SignInInv, TypeOK
  <1>2. SignInInv /\ SignInInv' /\ [Next]_vars => [Nearer]_vars
    BY StepRunsOut, OthersLeaveCall, SignInAssumption DEF SignInInv
  <1>3. QED
    BY <1>1, <1>2, SignInInductive, PTL DEF Spec, CallsRunOut
=============================================================================
