-------------------------------- MODULE Login ---------------------------------
(***************************************************************************)
(* What the server keeps in memory for its logins (internal/api/auth and   *)
(* AuthenticationMW of internal/api/middleware.go): the tokens that wait   *)
(* to be fetched, by code challenge, and the public key of the Keycloak    *)
(* realm, cached by the first request that needs it.                       *)
(*                                                                         *)
(* The n-th login with a challenge gets token n of that challenge.  Keys   *)
(* of the realm are numbered in the order Keycloak uses them.  Login page, *)
(* logout and refresh only pass on what Keycloak says and keep no state.   *)
(***************************************************************************)
EXTENDS Process

CONSTANTS
    Challenge,    \* code challenges
    MaxLogins,    \* bound on the logins with one challenge
    MaxKey        \* bound on the keys of the realm

ASSUME LoginAssumption == MaxLogins \in Nat /\ MaxKey \in Nat \ {0}

VARIABLES
    stored,       \* internalStorage.m: the token of each challenge; 0 is none
    realmKey,     \* Provider.realmPublicKey; 0 is nil
    work,         \* what the handler of each request is doing
    key,          \* the key Keycloak signs with now
    issued,       \* tokens Keycloak has issued for each challenge
    handed        \* history: the tokens answered to clients

login == <<stored, realmKey, work, key, issued, handed>>

Idle == [at |-> "idle"]
Token == Challenge \X (1..MaxLogins)

\* [history: known, the tokens that had been answered when the request came;
\* early, no key was cached then]
Working ==
    {Idle}
    \cup [at : {"exchange", "get"}, challenge : Challenge, known : SUBSET Token]
    \cup [at : {"put", "delete"}, token : Token, known : SUBSET Token]
    \cup [at : {"key", "fetch"}, signer : 1..MaxKey, early : BOOLEAN]
    \cup [at : {"cache"}, signer : 1..MaxKey, early : BOOLEAN, got : 1..MaxKey]
    \cup [at : {"handler"}, signer : 1..MaxKey]

LoginTypeOK ==
    /\ stored \in [Challenge -> 0..MaxLogins]
    /\ realmKey \in 0..MaxKey
    /\ work \in [Request -> Working]
    /\ key \in 1..MaxKey
    /\ issued \in [Challenge -> 0..MaxLogins]
    /\ handed \in SUBSET Token

\* The memory of a new process.
Forget ==
    /\ stored' = [c \in Challenge |-> 0]
    /\ realmKey' = 0
    /\ work' = [r \in Request |-> Idle]
    /\ UNCHANGED <<key, issued, handed>>

LoginInit ==
    /\ stored = [c \in Challenge |-> 0] /\ issued = [c \in Challenge |-> 0]
    /\ realmKey = 0 /\ key = 1
    /\ work = [r \in Request |-> Idle]
    /\ handed = {}

Goes(r, w) == work' = [work EXCEPT ![r] = w]

\* A request comes in: a callback, a token request, or a request of the API
\* with a token Keycloak has signed, now or before.
Arrive(r) ==
    /\ work[r] = Idle
    /\ \/ \E at \in {"exchange", "get"}, c \in Challenge :
             Goes(r, [at |-> at, challenge |-> c, known |-> handed])
       \/ \E k \in 1..key : Goes(r, [at |-> "key", signer |-> k, early |-> realmKey = 0])
    /\ UNCHANGED <<stored, realmKey, key, issued, handed>>

\* GetCallbackHandler: the code is exchanged at Keycloak ...
Exchange(r) ==
    /\ work[r].at = "exchange"
    /\ LET c == work[r].challenge
       IN  \/ /\ Goes(r, Idle)
              /\ UNCHANGED issued
           \/ /\ issued[c] < MaxLogins
              /\ issued' = [issued EXCEPT ![c] = @ + 1]
              /\ Goes(r, [at |-> "put", token |-> <<c, issued[c] + 1>>, known |-> {}])
    /\ UNCHANGED <<stored, realmKey, key, handed>>

\* ... and PutToken stores the token, over any other of that challenge.
PutToken(r) ==
    /\ work[r].at = "put"
    /\ stored' = [stored EXCEPT ![work[r].token[1]] = work[r].token[2]]
    /\ Goes(r, Idle)
    /\ UNCHANGED <<realmKey, key, issued, handed>>

\* Mutant: GetToken deletes the entry whether or not it has found one.
GetAndDeleteAnyway(r) ==
    /\ work[r].at = "get"
    /\ LET c == work[r].challenge
       IN  Goes(r, IF stored[c] = 0
                   THEN [at |-> "delete", token |-> <<c, MaxLogins>>, known |-> {}]
                   ELSE [at |-> "delete", token |-> <<c, stored[c]>>, known |-> work[r].known])
    /\ UNCHANGED <<stored, realmKey, key, issued, handed>>

\* PostTokenHandler, GetToken: Get under the read lock ...
GetToken(r) ==
    /\ work[r].at = "get"
    /\ LET c == work[r].challenge
       IN  Goes(r, IF stored[c] = 0 THEN Idle
                   ELSE [at |-> "delete", token |-> <<c, stored[c]>>,
                         known |-> work[r].known])
    /\ UNCHANGED <<stored, realmKey, key, issued, handed>>

\* Mutant: the token stays in the storage.
AnswerAndKeep(r) ==
    /\ work[r].at = "delete"
    /\ handed' = handed \cup {work[r].token}
    /\ Goes(r, Idle)
    /\ UNCHANGED <<stored, realmKey, key, issued>>

\* ... Delete under the write lock, of whatever is there by now; then the
\* token is answered.
DeleteToken(r) ==
    /\ work[r].at = "delete"
    /\ stored' = [stored EXCEPT ![work[r].token[1]] = 0]
    /\ handed' = handed \cup {work[r].token}
    /\ Goes(r, Idle)
    /\ UNCHANGED <<realmKey, key, issued>>

\* parseToken checks the signature, AuthenticationMW the groups: the handler
\* of the route runs, or the answer is 401.
Judge(r, k) ==
    \/ Goes(r, Idle)
    \/ /\ work[r].signer = k
       /\ Goes(r, [at |-> "handler", signer |-> k])

\* Mutant: the cached key is not looked at.
ReadNothing(r) ==
    /\ work[r].at = "key"
    /\ Goes(r, [at |-> "fetch", signer |-> work[r].signer, early |-> work[r].early])
    /\ UNCHANGED <<stored, realmKey, key, issued, handed>>

\* GetPublicKey reads the cached key ...
ReadKey(r) ==
    /\ work[r].at = "key"
    /\ IF realmKey = 0
       THEN Goes(r, [at |-> "fetch", signer |-> work[r].signer, early |-> work[r].early])
       ELSE Judge(r, realmKey)
    /\ UNCHANGED <<stored, realmKey, key, issued, handed>>

\* The request has got key k.
Holding(r, k) ==
    [at |-> "cache", signer |-> work[r].signer, early |-> work[r].early, got |-> k]

\* Mutant: an answer without an RSA key is taken for a key.
FetchAnything(r) ==
    /\ work[r].at = "fetch"
    /\ \E k \in {0, key} : Goes(r, Holding(r, k))
    /\ UNCHANGED <<stored, realmKey, key, issued, handed>>

\* ... or asks Keycloak, which may not answer ...
FetchKey(r) ==
    /\ work[r].at = "fetch"
    /\ Goes(r, Idle) \/ Goes(r, Holding(r, key))
    /\ UNCHANGED <<stored, realmKey, key, issued, handed>>

\* ... and keeps the answer, over the one another request may have kept.
CacheKey(r) ==
    /\ work[r].at = "cache"
    /\ realmKey' = work[r].got
    /\ Judge(r, work[r].got)
    /\ UNCHANGED <<stored, key, issued, handed>>

\* The handler behind AuthenticationMW answers.
Finish(r) ==
    /\ work[r].at = "handler"
    /\ Goes(r, Idle)
    /\ UNCHANGED <<stored, realmKey, key, issued, handed>>

HandlerStep(r) ==
    \/ Exchange(r) \/ PutToken(r) \/ GetToken(r) \/ DeleteToken(r)
    \/ ReadKey(r) \/ FetchKey(r) \/ CacheKey(r) \/ Finish(r)

\* Keycloak goes over to another key.
Rotate ==
    /\ key < MaxKey /\ key' = key + 1
    /\ UNCHANGED <<stored, realmKey, work, issued, handed>>

-----------------------------------------------------------------------------
(* Properties *)

\* A token is answered to one client, or to several whose requests overlap:
\* GetToken reads and deletes under two locks, so two requests may both find
\* it, and no request that began after the first answer does.
NotHandedOutAgain ==
    \A r \in Request : work[r].at = "delete" => work[r].token \notin work[r].known

\* A login is not lost: a token leaves the storage in the hand of a request,
\* or with the process, or because its challenge was used for another login.
LostOnlyByReuse ==
    [][\A c \in Challenge :
          /\ stored[c] # 0 /\ stored'[c] # stored[c]
          /\ issued[c] < 2
          => \/ \E r \in Request : work[r].at = "delete" /\ work[r].token = <<c, stored[c]>>
             \/ boots' # boots]_login

\* A key that is trusted is replaced only by a request that came when none
\* was: once those are done, neither another request nor a rotation at
\* Keycloak moves it, as long as the process lives (GetPublicKey).
TrustedKeyStays ==
    [][realmKey # 0 /\ realmKey' # realmKey
          => \/ \E r \in Request : work[r].at = "cache" /\ work[r].early
             \/ boots' # boots]_login
===============================================================================
