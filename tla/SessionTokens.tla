---------------------------- MODULE SessionTokens ----------------------------
(***************************************************************************)
(* The tokens of a session: on the server, in the keyring of the machine   *)
(* and in the processes that use it.  A process loads the session from the *)
(* keyring, renewing it when it is about to expire, and syncs from several *)
(* goroutines, whose requests one mutex serialises.  A request that is     *)
(* answered 401 renews the session once more, in memory only.              *)
(*                                                                         *)
(* A token stands for a pair of access and refresh token, numbered as the  *)
(* server issues them; 0 is the empty string.                              *)
(***************************************************************************)
EXTENDS Naturals

CONSTANTS
    Process, Thread,
    Of,              \* the process of each thread
    None,
    MaxRetries,      \* common.MaxRequestRetries
    MaxToken         \* bound of the model

ASSUME TokensAssumption ==
    /\ Of \in [Thread -> Process]
    /\ None \notin Thread
    /\ MaxRetries \in Nat /\ MaxToken \in Nat

VARIABLES
    \* the server
    issued,          \* the last token it issued
    live,            \* the latest token of each session
    expired,         \* tokens whose access part has expired
    keyring,         \* the session on the machine, 0 when there is none
    \* each process
    main,            \* where it is in GetSession
    mem,             \* the tokens in Session
    syncMutex,       \* the thread that holds it
    exchanged,       \* history: tokens this run of the process has renewed
    \* each thread, in makeSyncRequest
    pc, used, attempt

serverVars == <<issued, live, expired>>
processVars == <<main, mem, syncMutex, exchanged>>
threadVars == <<pc, used, attempt>>
vars == <<serverVars, keyring, processVars, threadVars>>

Init ==
    /\ issued = 0 /\ live = {} /\ expired = {}
    /\ keyring = 0
    /\ main = [p \in Process |-> "start"]
    /\ mem = [p \in Process |-> 0]
    /\ syncMutex = [p \in Process |-> None]
    /\ exchanged = [p \in Process |-> {}]
    /\ pc = [t \in Thread |-> "idle"]
    /\ used = [t \in Thread |-> 0]
    /\ attempt = [t \in Thread |-> 0]

---------------------------------------------------------------------------
(* The server (external): it knows the latest token of every session, and  *)
(* renewing it makes it worthless.                                         *)

Authorized(x) == x \in live \ expired

Expire(x) ==
    /\ x \in live \ expired
    /\ expired' = expired \cup {x}
    /\ UNCHANGED <<issued, live, keyring, processVars, threadVars>>

Issues(old) ==
    /\ issued < MaxToken
    /\ issued' = issued + 1
    /\ live' = (live \ old) \cup {issued + 1}
    /\ UNCHANGED expired

---------------------------------------------------------------------------
(* The session of a process: AddSession, GetSession, Refresh, UpdateSession *)

\* sign in, replacing the stored session if there is one
AddSession(p) ==
    /\ main[p] = "start"
    /\ Issues({})
    /\ keyring' = issued + 1
    /\ UNCHANGED <<processVars, threadVars>>

\* sign out of the machine
RemoveSession ==
    /\ keyring # 0
    /\ keyring' = 0
    /\ UNCHANGED <<serverVars, processVars, threadVars>>

\* a session of its own, that is in no keyring
SignIn(p) ==
    /\ main[p] = "start"
    /\ Issues({})
    /\ mem' = [mem EXCEPT ![p] = issued + 1]
    /\ main' = [main EXCEPT ![p] = "ready"]
    /\ UNCHANGED <<keyring, syncMutex, exchanged, threadVars>>

\* a session without an access token is refused; one about to expire, by the
\* clock of the machine, is renewed first
Load(p, next) ==
    /\ main[p] = "start"
    /\ keyring # 0
    /\ mem' = [mem EXCEPT ![p] = keyring]
    /\ main' = [main EXCEPT ![p] = next]
    /\ UNCHANGED <<serverVars, keyring, syncMutex, exchanged, threadVars>>

\* Variant: the new tokens are not stored in the session.
RenewedUnsaved(p, x) ==
    /\ x \in live
    /\ Issues({x})
    /\ exchanged' = [exchanged EXCEPT ![p] = @ \cup {x}]
    /\ UNCHANGED mem

\* what RequestRefreshTokenWithSession leaves in the session that presented x,
\* when the server accepts it; when it does not, its answer is parsed all the
\* same, and has no tokens in it
Renewed(p, x) ==
    \/ /\ x \in live
       /\ Issues({x})
       /\ mem' = [mem EXCEPT ![p] = issued + 1]
       /\ exchanged' = [exchanged EXCEPT ![p] = @ \cup {x}]
    \/ /\ x \notin live
       /\ mem' = [mem EXCEPT ![p] = 0]
       /\ UNCHANGED <<serverVars, exchanged>>

\* the answer is lost, and the retrying HTTP client sends the request again
AnswerLost(x) ==
    /\ x \in live
    /\ Issues({x})

Refresh(p) ==
    /\ main[p] = "refresh"
    /\ Renewed(p, mem[p])
    /\ main' = [main EXCEPT ![p] = "update"]
    /\ UNCHANGED <<keyring, syncMutex, threadVars>>

RefreshLost(p) ==
    /\ main[p] = "refresh"
    /\ AnswerLost(mem[p])
    /\ UNCHANGED <<keyring, processVars, threadVars>>

UpdateSession(p) ==
    /\ main[p] = "update"
    /\ keyring' = mem[p]
    /\ main' = [main EXCEPT ![p] = "ready"]
    /\ UNCHANGED <<serverVars, mem, syncMutex, exchanged, threadVars>>

\* The process ends: by a crash, by an error of Refresh or UpdateSession, which
\* makes GetSession return an empty session, or by os.Exit in syncItems after
\* the answer 498, an expired access token.
Exit(p) ==
    /\ main' = [main EXCEPT ![p] = "start"]
    /\ mem' = [mem EXCEPT ![p] = 0]
    /\ syncMutex' = [syncMutex EXCEPT ![p] = None]
    /\ exchanged' = [exchanged EXCEPT ![p] = {}]
    /\ pc' = [t \in Thread |-> IF Of[t] = p THEN "idle" ELSE pc[t]]
    /\ used' = [t \in Thread |-> IF Of[t] = p THEN 0 ELSE used[t]]
    /\ attempt' = [t \in Thread |-> IF Of[t] = p THEN 0 ELSE attempt[t]]
    /\ UNCHANGED <<serverVars, keyring>>

---------------------------------------------------------------------------
(* A sync request of a thread: makeSyncRequest *)

Goes(t, next) == pc' = [pc EXCEPT ![t] = next]

\* Variant: any thread may enter.
AcquireAlways(t) ==
    /\ pc[t] = "wait"
    /\ syncMutex' = [syncMutex EXCEPT ![Of[t]] = t]
    /\ used' = [used EXCEPT ![t] = mem[Of[t]]]
    /\ attempt' = [attempt EXCEPT ![t] = 0]
    /\ Goes(t, "request")
    /\ UNCHANGED <<serverVars, keyring, main, mem, exchanged>>

\* syncItems of a valid session
Begin(t) ==
    /\ pc[t] = "idle"
    /\ main[Of[t]] = "ready" /\ mem[Of[t]] # 0
    /\ Goes(t, "wait")
    /\ UNCHANGED <<serverVars, keyring, processVars, used, attempt>>

\* the request is built under the mutex, with the tokens of that moment
Acquire(t) ==
    /\ pc[t] = "wait"
    /\ syncMutex[Of[t]] = None
    /\ syncMutex' = [syncMutex EXCEPT ![Of[t]] = t]
    /\ used' = [used EXCEPT ![t] = mem[Of[t]]]
    /\ attempt' = [attempt EXCEPT ![t] = 0]
    /\ Goes(t, "request")
    /\ UNCHANGED <<serverVars, keyring, main, mem, exchanged>>

\* makeSyncRequest returns, the last time or before the request of the next page
\* or attempt, for which the session is not validated again
Return(t) ==
    /\ \E next \in {"idle", "wait"} : Goes(t, next)
    /\ syncMutex' = [syncMutex EXCEPT ![Of[t]] = None]
    /\ used' = [used EXCEPT ![t] = 0]
    /\ attempt' = [attempt EXCEPT ![t] = 0]
    /\ UNCHANGED keyring

\* an answer, or none: 200, 413, 498, another status, an error of the network
Answered(t) ==
    /\ pc[t] = "request"
    /\ Return(t)
    /\ UNCHANGED <<serverVars, main, mem, exchanged>>

\* Variant: the attempts are not counted.
TooManyUncounted(t) ==
    /\ pc[t] = "request"
    /\ attempt[t] < MaxRetries
    /\ used' = [used EXCEPT ![t] = mem[Of[t]]]
    /\ attempt' = [attempt EXCEPT ![t] = 1 - @]
    /\ UNCHANGED <<serverVars, keyring, processVars, pc>>

\* 429: wait and build the request again
TooMany(t) ==
    /\ pc[t] = "request"
    /\ attempt[t] < MaxRetries
    /\ used' = [used EXCEPT ![t] = mem[Of[t]]]
    /\ attempt' = [attempt EXCEPT ![t] = @ + 1]
    /\ UNCHANGED <<serverVars, keyring, processVars, pc>>

\* 401: the session is copied for the refresh
Unauthorized(t) ==
    /\ pc[t] = "request"
    /\ ~Authorized(used[t])
    /\ used' = [used EXCEPT ![t] = mem[Of[t]]]
    /\ Goes(t, "refresh")
    /\ UNCHANGED <<serverVars, keyring, processVars, attempt>>

\* the tokens of the answer go into the session, and the request is sent again
Refreshed(t) ==
    /\ pc[t] = "refresh"
    /\ Renewed(Of[t], used[t])
    /\ used' = [used EXCEPT ![t] = mem'[Of[t]]]
    /\ Goes(t, "retry")
    /\ UNCHANGED <<keyring, main, syncMutex, attempt>>

RefreshedLost(t) ==
    /\ pc[t] = "refresh"
    /\ AnswerLost(used[t])
    /\ UNCHANGED <<keyring, processVars, threadVars>>

RefreshFails(t) ==
    /\ pc[t] = "refresh"
    /\ Return(t)
    /\ UNCHANGED <<serverVars, main, mem, exchanged>>

\* whatever its answer, it is returned
Retried(t) ==
    /\ pc[t] = "retry"
    /\ Return(t)
    /\ UNCHANGED <<serverVars, main, mem, exchanged>>

MakeSyncRequest(t) ==
    \/ Answered(t) \/ TooMany(t) \/ Unauthorized(t)
    \/ Refreshed(t) \/ RefreshedLost(t) \/ RefreshFails(t) \/ Retried(t)

Next ==
    \/ \E x \in live : Expire(x)
    \/ RemoveSession
    \/ \E p \in Process :
          \/ AddSession(p) \/ SignIn(p)
          \/ \E next \in {"refresh", "ready"} : Load(p, next)
          \/ Refresh(p) \/ RefreshLost(p) \/ UpdateSession(p)
          \/ Exit(p)
    \/ \E t \in Thread : Begin(t) \/ Acquire(t) \/ MakeSyncRequest(t)

Spec == Init /\ [][Next]_vars

\* A request that is under way ends: client and context have a time-out.
FairSpec == Spec /\ \A t \in Thread : WF_vars(MakeSyncRequest(t))

---------------------------------------------------------------------------
(* Properties. *)

InRequest == {"request", "refresh", "retry"}

\* Every variable has its type.
TypeOK ==
    /\ issued \in Nat /\ live \subseteq 1..issued /\ expired \subseteq 1..issued
    /\ keyring \in 0..issued
    /\ main \in [Process -> {"start", "refresh", "update", "ready"}]
    /\ mem \in [Process -> 0..issued]
    /\ syncMutex \in [Process -> Thread \cup {None}]
    /\ exchanged \in [Process -> SUBSET (1..issued)]
    /\ pc \in [Thread -> {"idle", "wait"} \cup InRequest]
    /\ used \in [Thread -> Nat] /\ attempt \in [Thread -> Nat]

\* "The items.Sync() function protects its Refresh() calls with syncMutex"
\* (session/session.go): no goroutine presents a token for renewal, or sends a
\* request with it, that this process has already renewed, in GetSession or in
\* another goroutine, which would cost the process its session.
NoTokenTwice ==
    \A t \in Thread : pc[t] \in InRequest => used[t] \notin exchanged[Of[t]]

\* makeSyncRequest gives the mutex back, however often it is answered 429 and
\* whatever becomes of the refresh.
MutexReleased == \A t \in Thread : syncMutex[Of[t]] = t ~> syncMutex[Of[t]] # t

\* Why it does: what the holder of the mutex may still have to send.
RequestLeft(t) ==
    [idle |-> 0, wait |-> 0, retry |-> 1, refresh |-> 2, request |-> 3 + MaxRetries - attempt[t]][pc[t]]

\* Each step of a request leaves less of it, or is a renewal that the server has
\* carried out and whose answer is lost; until it ends the mutex is the thread's,
\* and then free.
RequestsRunOut ==
    /\ [](\A t \in Thread : RequestLeft(t) \in Nat)
    /\ [][\A t \in Thread : syncMutex[Of[t]] = t =>
            \/ syncMutex'[Of[t]] = None
            \/ syncMutex'[Of[t]] = t /\ RequestLeft(t)' < RequestLeft(t)
            \/ /\ syncMutex'[Of[t]] = t /\ UNCHANGED RequestLeft(t)
               /\ MakeSyncRequest(t) => issued' > issued]_vars

---------------------------------------------------------------------------
(* The inductive invariant behind NoTokenTwice. *)

\* only the holder of the mutex is in a request, and only when GetSession is done
MutexHeld ==
    /\ \A t \in Thread : pc[t] \in InRequest <=> syncMutex[Of[t]] = t
    /\ \A t \in Thread : pc[t] # "idle" => main[Of[t]] = "ready"

\* it works with the tokens of the session
UsesSession == \A t \in Thread : pc[t] \in InRequest => used[t] = mem[Of[t]]

\* which are not among those that were renewed
SessionUnspent == \A p \in Process :
    /\ mem[p] \notin exchanged[p]
    /\ main[p] = "start" => exchanged[p] = {}

TokensInv == TypeOK /\ MutexHeld /\ UsesSession /\ SessionUnspent
=============================================================================
