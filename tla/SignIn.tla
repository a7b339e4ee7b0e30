------------------------------- MODULE SignIn -------------------------------
(***************************************************************************)
(* Registering an account and adding a session of it to the keyring:       *)
(* Register, SignIn and CliSignIn (src/auth/authentication.go) under       *)
(* AddSession (src/session/session.go), in processes that share a keyring. *)
(*                                                                         *)
(* A sign-in is two requests.  The first asks for the parameters of the    *)
(* account's key and leaves a challenge with the server; the second proves *)
(* the password and the challenge and is answered with the tokens of a new *)
(* session.  An account with a second factor wants a code with both, and   *)
(* answers the first request without one with the name of the code.  The   *)
(* HTTP client sends a request again when its answer is lost.              *)
(*                                                                         *)
(* Sessions are numbered as the server issues them; 0 is a session without *)
(* tokens.                                                                 *)
(***************************************************************************)
EXTENDS Naturals, FiniteSets

CONSTANTS
    Process,
    MaxRequestRetries,   \* common.MaxRequestRetries
    MaxCalls             \* bound of the model: calls of AddSession and Register

ASSUME SignInAssumption == MaxRequestRetries \in Nat /\ MaxCalls \in Nat

VARIABLES
    \* the server
    registered,   \* the account exists
    mfa,          \* it has a second factor
    challenges,   \* processes whose latest challenge was left and is not spent
    issued,       \* the sessions issued so far
    \* the machine
    keyring,      \* [stored, session]
    \* each process
    pc,           \* "idle", "register", "params", "token", "code" (the prompt) or "write"
    password,     \* the password that was typed in is the account's
    derived,      \* its key was derived from the account's parameters
    round,        \* the call of SignIn: 2 after the code was asked for
    code,         \* "none", "good" or "bad"
    sends,        \* how often the present request was sent again
    session,      \* the session CliSignIn returns
    result,       \* of the last call: "none", "added", "registered", "declined", "error"
    calls,
    \* history, of the present call
    granted,      \* sessions the server issued to it
    repeated      \* its token request was carried out although its answer was lost

serverVars == <<registered, mfa, challenges, issued>>
historyVars == <<granted, repeated>>
callVars == <<password, derived, round, code, sends, session>>
vars == <<serverVars, keyring, pc, callVars, result, calls, historyVars>>

Init == /\ registered \in BOOLEAN
        /\ mfa \in BOOLEAN /\ (mfa => registered)
        /\ challenges = {}
        /\ issued = 0
        /\ keyring = [stored |-> FALSE, session |-> 0]
        /\ pc = [p \in Process |-> "idle"]
        /\ password = [p \in Process |-> FALSE]
        /\ derived = [p \in Process |-> FALSE]
        /\ round = [p \in Process |-> 1]
        /\ code = [p \in Process |-> "none"]
        /\ sends = [p \in Process |-> 0]
        /\ session = [p \in Process |-> 0]
        /\ result = [p \in Process |-> "none"]
        /\ calls = 0
        /\ granted = [p \in Process |-> 0]
        /\ repeated = [p \in Process |-> FALSE]

Set(f, p, x) == f' = [f EXCEPT ![p] = x]

Return(p, res) == Set(pc, p, "idle") /\ Set(result, p, res)

\* The next request of a call is sent for the first time.
Goto(p, step) == Set(pc, p, step) /\ Set(sends, p, 0)

\* Variant: the count starts over when the attempts are used up.
SendForever(p) == /\ Set(sends, p, IF sends[p] < MaxRequestRetries THEN sends[p] + 1 ELSE 0)
                  /\ UNCHANGED <<pc, result>>

\* retryablehttp: the request is sent again until the retries are used up.
SendAgain(p) ==
    \/ /\ sends[p] < MaxRequestRetries
       /\ Set(sends, p, sends[p] + 1)
       /\ UNCHANGED <<pc, result>>
    \/ /\ sends[p] >= MaxRequestRetries
       /\ Return(p, "error")
       /\ UNCHANGED sends

-----------------------------------------------------------------------------
(* The account (external).                                                 *)

\* The user sets up or removes the second factor in another client.
ToggleMfa == /\ registered
             /\ calls < MaxCalls
             /\ mfa' = ~mfa
             /\ UNCHANGED <<registered, challenges, issued, keyring, pc, callVars, result, calls,
                            historyVars>>

\* A code is good for half a minute.
CodeExpires(p) == /\ code[p] = "good"
                  /\ Set(code, p, "bad")
                  /\ UNCHANGED <<serverVars, keyring, pc, password, derived, round, sends, session,
                                 result, calls, historyVars>>

WantsCode(p) == registered /\ mfa /\ code[p] # "good"

Accepts(p) == /\ registered /\ password[p] /\ derived[p]
              /\ p \in challenges
              /\ ~WantsCode(p)

\* The server issues a session, which spends the challenge.
Issue(p) == /\ issued' = issued + 1
            /\ challenges' = challenges \ {p}
            /\ Set(granted, p, granted[p] + 1)
            /\ UNCHANGED <<registered, mfa>>

-----------------------------------------------------------------------------
(* Register                                                                *)

Call(p) == /\ pc[p] = "idle"
           /\ calls < MaxCalls
           /\ calls' = calls + 1
           /\ Set(granted, p, 0)
           /\ Set(repeated, p, FALSE)

\* A password that is too short is refused before any request.
Register(p) == /\ Call(p)
               /\ \/ Return(p, "error") /\ UNCHANGED sends
                  \/ Goto(p, "register") /\ UNCHANGED result
               /\ UNCHANGED <<serverVars, keyring, password, derived, round, code, session>>

\* processDoRegisterRequestResponse: an answer 400 or 401 with a message is
\* taken for a known address, whatever the message, and one without a message
\* for success.
Registered(p) ==
    /\ pc[p] = "register"
    /\ \/ ~registered /\ registered' = TRUE /\ Return(p, "registered")
       \/ UNCHANGED registered /\ (Return(p, "error") \/ Return(p, "registered"))
    /\ UNCHANGED <<mfa, challenges, issued, keyring, callVars, calls, historyVars>>

\* The answer is lost, after or before the account was made.
RegisterLost(p) ==
    /\ pc[p] = "register"
    /\ registered' \in {registered, TRUE}
    /\ SendAgain(p)
    /\ UNCHANGED <<mfa, challenges, issued, keyring, password, derived, round, code, session,
                   calls, historyVars>>

-----------------------------------------------------------------------------
(* AddSession                                                              *)

\* Variant: the session is a variable of the package, and has what an earlier
\* call left in it.
AddSessionToLast(p) ==
    /\ Call(p)
    /\ \/ /\ Goto(p, "params")
          /\ \E right \in BOOLEAN : Set(password, p, right)
          /\ Set(derived, p, FALSE)
          /\ Set(round, p, 1)
          /\ Set(code, p, "none")
          /\ challenges' = challenges \ {p}
          /\ UNCHANGED <<session, result>>
       \/ /\ \/ keyring.stored /\ Return(p, "declined")
             \/ Return(p, "error")
          /\ UNCHANGED <<challenges, callVars>>
    /\ UNCHANGED <<registered, mfa, issued, keyring>>

\* A stored session is replaced only after a question, which reads the keyring
\* once; the keyring or the prompt for the credentials may fail.  The challenge
\* of an earlier call is not used any more.
AddSession(p) ==
    /\ Call(p)
    /\ \/ /\ Goto(p, "params")
          /\ \E right \in BOOLEAN : Set(password, p, right)
          /\ Set(derived, p, FALSE)
          /\ Set(round, p, 1)
          /\ Set(code, p, "none")
          /\ Set(session, p, 0)
          /\ challenges' = challenges \ {p}
          /\ UNCHANGED result
       \/ /\ \/ keyring.stored /\ Return(p, "declined")
             \/ Return(p, "error")
          /\ UNCHANGED <<challenges, callVars>>
    /\ UNCHANGED <<registered, mfa, issued, keyring>>

\* What SignIn does with the account's parameters, or with the name of the code
\* instead: the second time the name is not looked at, and the session, which has
\* no tokens, is returned without an error.
WithParams(p) ==
    /\ \/ /\ ~WantsCode(p)
          /\ Set(derived, p, TRUE)
          /\ Goto(p, "token")
       \/ /\ WantsCode(p)
          /\ Goto(p, IF round[p] = 1 THEN "code" ELSE "write")
          /\ UNCHANGED derived
    /\ UNCHANGED <<registered, mfa, issued, keyring, password, round, code, session, result,
                   calls, historyVars>>

\* Variant: each time the request is sent it has a new challenge, and the verifier
\* of the first is kept.
ParamsAnew(p) ==
    /\ pc[p] = "params"
    /\ challenges' = IF sends[p] = 0 THEN challenges \cup {p} ELSE challenges \ {p}
    /\ WithParams(p)

\* SignIn asks for the parameters with a new challenge each time it is called.
Params(p) ==
    /\ pc[p] = "params"
    /\ challenges' = challenges \cup {p}
    /\ WithParams(p)

\* An answer 400, 401 or 404 without the name of a code is no error: the password
\* is derived from parameters that are empty, and the token asked for.
ParamsMissing(p) ==
    /\ pc[p] = "params"
    /\ challenges' \in {challenges, challenges \cup {p}}
    /\ Goto(p, "token")
    /\ UNCHANGED <<registered, mfa, issued, keyring, password, derived, round, code, session,
                   result, calls, historyVars>>

\* Any other answer, version 003 among them, is an error.
ParamsRefused(p) == /\ pc[p] = "params"
                    /\ Return(p, "error")
                    /\ UNCHANGED <<serverVars, keyring, callVars, calls, historyVars>>

ParamsLost(p) ==
    /\ pc[p] = "params"
    /\ challenges' \in {challenges, challenges \cup {p}}
    /\ SendAgain(p)
    /\ UNCHANGED <<registered, mfa, issued, keyring, password, derived, round, code, session,
                   calls, historyVars>>

\* CliSignIn calls SignIn again with the code, and the first challenge is not
\* used any more.
EnterCode(p) ==
    /\ pc[p] = "code"
    /\ \E c \in {"good", "bad"} : Set(code, p, c)
    /\ Set(round, p, 2)
    /\ Goto(p, "params")
    /\ challenges' = challenges \ {p}
    /\ UNCHANGED <<registered, mfa, issued, keyring, password, derived, session, result, calls,
                   historyVars>>

CodeNotEntered(p) == /\ pc[p] = "code"
                     /\ Return(p, "error")
                     /\ UNCHANGED <<serverVars, keyring, callVars, calls, historyVars>>

\* requestToken
Token(p) ==
    /\ pc[p] = "token"
    /\ Accepts(p)
    /\ Issue(p)
    /\ Set(session, p, issued + 1)
    /\ Goto(p, "write")
    /\ UNCHANGED <<keyring, password, derived, round, code, result, calls, repeated>>

\* Only a message makes a refusal an error: without one it is taken for a session,
\* which has no tokens.
TokenRefused(p) ==
    /\ pc[p] = "token"
    /\ ~Accepts(p)
    /\ \/ Return(p, "error") /\ UNCHANGED sends
       \/ Goto(p, "write") /\ UNCHANGED result
    /\ UNCHANGED <<serverVars, keyring, password, derived, round, code, session, calls, historyVars>>

\* Variant: the sign-in is begun anew.
TokenLostAnew(p) ==
    /\ pc[p] = "token"
    /\ \/ Accepts(p) /\ Issue(p) /\ Set(repeated, p, TRUE)
       \/ UNCHANGED <<serverVars, historyVars>>
    /\ Goto(p, "params")
    /\ UNCHANGED <<keyring, password, derived, round, code, session, result, calls>>

TokenLost(p) ==
    /\ pc[p] = "token"
    /\ \/ Accepts(p) /\ Issue(p) /\ Set(repeated, p, TRUE)
       \/ UNCHANGED <<serverVars, historyVars>>
    /\ SendAgain(p)
    /\ UNCHANGED <<keyring, password, derived, round, code, session, calls>>

\* "session added successfully", or the keyring refuses
Write(p) ==
    /\ pc[p] = "write"
    /\ \/ keyring' = [stored |-> TRUE, session |-> session[p]] /\ Return(p, "added")
       \/ UNCHANGED keyring /\ Return(p, "error")
    /\ UNCHANGED <<serverVars, callVars, calls, historyVars>>

Step(p) == \/ Registered(p) \/ RegisterLost(p)
           \/ Params(p) \/ ParamsMissing(p) \/ ParamsRefused(p) \/ ParamsLost(p)
           \/ EnterCode(p) \/ CodeNotEntered(p)
           \/ Token(p) \/ TokenRefused(p) \/ TokenLost(p)
           \/ Write(p)

Next == \/ ToggleMfa
        \/ \E p \in Process : Register(p) \/ AddSession(p) \/ CodeExpires(p) \/ Step(p)

Spec == Init /\ [][Next]_vars

\* A process that has sent a request is answered or loses the answer, and the
\* user answers a prompt or breaks it off.
FairSpec == Spec /\ \A p \in Process : WF_vars(Step(p))

-----------------------------------------------------------------------------
TypeOK == /\ registered \in BOOLEAN /\ mfa \in BOOLEAN
          /\ challenges \subseteq Process
          /\ issued \in Nat /\ calls \in Nat
          /\ keyring \in [stored : BOOLEAN, session : Nat]
          /\ pc \in [Process -> {"idle", "register", "params", "token", "code", "write"}]
          /\ password \in [Process -> BOOLEAN] /\ derived \in [Process -> BOOLEAN]
          /\ round \in [Process -> {1, 2}]
          /\ code \in [Process -> {"none", "good", "bad"}]
          /\ sends \in [Process -> 0..MaxRequestRetries]
          /\ session \in [Process -> Nat]
          /\ result \in [Process -> {"none", "added", "registered", "declined", "error"}]
          /\ granted \in [Process -> Nat] /\ repeated \in [Process -> BOOLEAN]

\* A call of AddSession makes the server issue at most one session, however
\* often its requests are sent, and no other call or process has the same one
\* (src/auth/authentication.go:1065, the challenge of each sign-in).
OneSessionEach ==
    /\ \A p \in Process : granted[p] <= 1
    /\ \A p, q \in Process : (pc[p] = "write" /\ pc[q] = "write" /\ session[p] = session[q])
                                => p = q \/ session[p] = 0

\* When the token is asked for with a password derived from the account's
\* parameters, the server knows the challenge the request answers, unless it has
\* carried this request out before: what is right in such a sign-in is refused
\* for a lost answer only (src/auth/authentication.go:543, the verifier of one
\* SignIn is not used in another).
ChallengeKnown ==
    \A p \in Process : pc[p] = "token" /\ derived[p] => p \in challenges \/ repeated[p]

\* The session that ends up in the keyring is one the server issued to this very
\* call, which knew the password and the parameters; or it has no tokens, and no
\* session that an earlier call was issued.
WrittenSession ==
    \A p \in Process : pc[p] = "write" =>
        \/ /\ session[p] \in 1..issued /\ granted[p] = 1
           /\ password[p] /\ derived[p]
        \/ session[p] = 0

\* The server issues nothing to a call before its token request, and then one
\* session, for the challenge that this spends; a call that has no challenge at
\* the server and was issued nothing has not got the parameters.  Until it is
\* issued one a call has no session.
ChallengeSpent ==
    \A p \in Process :
        /\ granted[p] <= 1
        /\ pc[p] \in {"params", "code"} => granted[p] = 0 /\ ~derived[p]
        /\ pc[p] = "token" => \/ granted[p] = 0 /\ (p \in challenges \/ ~derived[p])
                              \/ granted[p] = 1 /\ repeated[p] /\ p \notin challenges
        /\ pc[p] \in {"params", "code", "token"} => session[p] = 0

SignInInv == TypeOK /\ WrittenSession /\ ChallengeSpent

\* Every call returns, whatever is lost: no request is sent more than
\* MaxRequestRetries + 1 times (src/common/common.go:150).
CallsEnd == \A p \in Process : pc[p] # "idle" ~> pc[p] = "idle"

\* Why they do: the stages a call still has before it, this one included.
StagesLeft(p) ==
    [idle |-> 0, write |-> 1, register |-> 1, token |-> 2, code |-> 4,
     params |-> IF round[p] = 2 THEN 3 ELSE 5][pc[p]]

\* Each step of a call leaves fewer stages, or sends the request of this one
\* again, MaxRequestRetries times at most; what others do changes neither
\* (src/common/common.go:150).
CallsRunOut ==
    /\ [](\A p \in Process : StagesLeft(p) \in 0..5 /\ sends[p] \in 0..MaxRequestRetries)
    /\ [][\A p \in Process : pc[p] # "idle" =>
            \/ StagesLeft(p)' < StagesLeft(p)
            \/ StagesLeft(p)' = StagesLeft(p) /\ sends'[p] > sends[p]
            \/ ~Step(p) /\ UNCHANGED <<StagesLeft(p), sends[p]>>]_vars

=============================================================================
