------------------------------ MODULE ServerProofs -----------------------------
(***************************************************************************)
(* What TLAPS proves of Server, for any number of requests, logins and     *)
(* starts of the process: the types, what a clean exit means, who gets a   *)
(* token, and that the trusted key stays.                                  *)
(***************************************************************************)
EXTENDS Server, TLAPS

\* How far main() has come says what is over: the listener is closed before
\* main looks at the requests, the requests are answered before it meets the
\* checker, and the checker has returned before its database is closed.
PInv ==
    /\ main \in {"drain", "handshake", "closeDB", "done"} => server = "closed"
    /\ main \in {"handshake", "closeDB", "done"} => inflight = {}
    /\ main \in {"closeDB", "done"} => checker = "returned"
    /\ checkerDB = "closed" => main = "done"
    /\ exit = "clean" => main = "done"

LEMMA InitPInv == Init => PInv
  BY DEF Init, ProcessInit, PInv

\* A step of the process that concerns no request.
LEMMA LivePInv ==
  ASSUME PInv, Live
  PROVE  PInv'
<1>1. ASSUME NEW how \in {"fatal", "panic"}, Die(how) PROVE PInv'
  BY <1>1 DEF Die, PInv
<1>2. CASE Start
  BY <1>1, <1>2 DEF Start, PInv
<1>3. CASE Listen
  BY <1>1, <1>3 DEF Listen, PInv
<1>4. CASE RunChecker
  BY <1>1, <1>4 DEF RunChecker, PInv
<1>5. CASE Tick
  BY <1>5 DEF Tick, PInv
<1>6. CASE EndCheck
  BY <1>1, <1>6 DEF EndCheck, PInv
<1>7. CASE Signal
  BY <1>7 DEF Signal, Alive, PInv
<1>8. CASE StopServer
  BY <1>8 DEF StopServer, Alive, PInv
<1>9. CASE Drain
  BY <1>1, <1>9 DEF Drain, Alive, PInv
<1>10. CASE Handshake
  BY <1>1, <1>10 DEF Handshake, Alive, PInv
<1>11. CASE CloseDB
  BY <1>1, <1>11 DEF CloseDB, PInv
<1>12. QED
  BY <1>2, <1>3, <1>4, <1>5, <1>6, <1>7, <1>8, <1>9, <1>10, <1>11 DEF Live

LEMMA NextPInv == PInv /\ [Next]_vars => PInv'
<1> SUFFICES ASSUME PInv, [Next]_vars PROVE PInv'
  OBVIOUS
<1>1. ASSUME NEW r \in Request, Accept(r) PROVE PInv'
  BY <1>1 DEF Accept, PInv
<1>2. ASSUME NEW r \in Request, Reply(r) PROVE PInv'
  BY <1>2 DEF Reply, PInv
<1>3. CASE Boot
  BY <1>3 DEF Boot, PInv
<1>4. CASE UNCHANGED process
  BY <1>4 DEF process, PInv
<1>5. QED
  BY <1>1, <1>2, <1>3, <1>4, LivePInv DEF Next, Take, Serve, Restart, vars

\* When main returns without an error no request and no check is cut off
\* (cmd/main.go, internal/app/app.go), although the context Shutdown waits on
\* is cancelled and the listener's goroutine shares main's error variable.
THEOREM CleanExitCutsNothing == Spec => []CleanExit
<1>1. PInv => CleanExit
  BY DEF PInv, CleanExit
<1>2. QED
  BY InitPInv, NextPInv, <1>1, PTL DEF Spec

\* The database handle of the checker is closed after Run has returned
\* (Checker.Shutdown).
THEOREM CheckerKeepsItsDatabase == Spec => []DatabaseOutlivesChecker
<1>1. PInv => DatabaseOutlivesChecker
  BY DEF PInv, DatabaseOutlivesChecker
<1>2. QED
  BY InitPInv, NextPInv, <1>1, PTL DEF Spec

-----------------------------------------------------------------------------
(* The types *)

LEMMA ProcessTyping ==
  ASSUME ProcessTypeOK,
         Live \/ Boot \/ (\E r \in Request : Accept(r) \/ Reply(r)) \/ UNCHANGED process
  PROVE  ProcessTypeOK'
<1>1. ASSUME NEW how \in {"fatal", "panic"}, Die(how) PROVE ProcessTypeOK'
  BY <1>1 DEF Die, ProcessTypeOK
<1>2. CASE Start
  BY <1>1, <1>2 DEF Start, ProcessTypeOK
<1>3. CASE Listen
  BY <1>1, <1>3 DEF Listen, ProcessTypeOK
<1>4. CASE RunChecker
  BY <1>1, <1>4 DEF RunChecker, ProcessTypeOK
<1>5. CASE Tick
  BY <1>5 DEF Tick, ProcessTypeOK
<1>6. CASE EndCheck
  BY <1>1, <1>6 DEF EndCheck, ProcessTypeOK
<1>7. CASE Signal
  BY <1>7 DEF Signal, ProcessTypeOK
<1>8. CASE StopServer
  BY <1>8 DEF StopServer, ProcessTypeOK
<1>9. CASE Drain
  BY <1>1, <1>9 DEF Drain, ProcessTypeOK
<1>10. CASE Handshake
  BY <1>1, <1>10 DEF Handshake, ProcessTypeOK
<1>11. CASE CloseDB
  BY <1>1, <1>11 DEF CloseDB, ProcessTypeOK
<1>12. CASE Boot
  <2>1. boots' \in 1..MaxBoots
    BY <1>12, MaxBootsAssumption DEF Boot, ProcessTypeOK
  <2>2. QED
    BY <1>12, <2>1, Zenon DEF Boot, ProcessTypeOK
<1>13. CASE (\E r \in Request : Accept(r) \/ Reply(r)) \/ UNCHANGED process
  BY <1>13 DEF Accept, Reply, process, ProcessTypeOK
<1>14. QED
  BY <1>2, <1>3, <1>4, <1>5, <1>6, <1>7, <1>8, <1>9, <1>10, <1>11, <1>12, <1>13 DEF Live

\* The fields a handler has, by where it is.
LEMMA WorkFields ==
  ASSUME NEW w \in Working
  PROVE  /\ w.at \in {"exchange", "get"} => w.challenge \in Challenge /\ w.known \subseteq Token
         /\ w.at \in {"put", "delete"} => w.token \in Token
         /\ w.at \in {"key", "fetch", "cache", "handler"} => w.signer \in 1..MaxKey
         /\ w.at \in {"key", "fetch", "cache"} => w.early \in BOOLEAN
         /\ w.at = "cache" => w.got \in 1..MaxKey
  BY DEF Working, Idle

\* A handler goes on.
LEMMA WorkStep ==
  ASSUME LoginTypeOK, NEW r \in Request, NEW w \in Working, Goes(r, w)
  PROVE  work' \in [Request -> Working]
  BY DEF LoginTypeOK, Goes

LEMMA JudgeTyping ==
  ASSUME LoginTypeOK, NEW r \in Request, NEW k \in 1..MaxKey, Judge(r, k)
  PROVE  work' \in [Request -> Working]
<1>1. Idle \in Working /\ [at |-> "handler", signer |-> k] \in Working
  BY DEF Working
<1>2. QED
  BY <1>1, WorkStep DEF Judge

LEMMA HandlerTyping ==
  ASSUME LoginTypeOK, NEW r \in Request, HandlerStep(r)
  PROVE  LoginTypeOK'
<1> DEFINE m == work[r]
<1>0. /\ m \in Working
      /\ m.at \in {"exchange", "get"} => m.challenge \in Challenge /\ m.known \subseteq Token
      /\ m.at \in {"put", "delete"} => m.token \in Token
      /\ m.at \in {"key", "fetch", "cache", "handler"} => m.signer \in 1..MaxKey
      /\ m.at \in {"key", "fetch", "cache"} => m.early \in BOOLEAN
      /\ m.at = "cache" => m.got \in 1..MaxKey
      /\ Idle \in Working /\ {} \subseteq Token
  <2>1. m \in Working /\ Idle \in Working
    BY DEF LoginTypeOK, Working
  <2>2. QED
    BY <2>1, WorkFields
<1>1. ASSUME work' \in [Request -> Working], UNCHANGED <<stored, realmKey, key, issued, handed>>
      PROVE  LoginTypeOK'
  BY <1>1 DEF LoginTypeOK
<1>2. CASE Exchange(r)
  <2> DEFINE c == m.challenge
             w == [at |-> "put", token |-> <<c, issued[c] + 1>>, known |-> {}]
  <2>1. /\ c \in Challenge /\ issued \in [Challenge -> 0..MaxLogins]
        /\ UNCHANGED <<stored, realmKey, key, handed>>
    BY <1>0, <1>2 DEF Exchange, LoginTypeOK
  <2>2. CASE Goes(r, Idle) /\ UNCHANGED issued
    BY <1>0, <1>1, <2>1, <2>2, WorkStep
  <2>3. CASE issued[c] < MaxLogins /\ issued' = [issued EXCEPT ![c] = @ + 1] /\ Goes(r, w)
    <3>1. issued[c] + 1 \in 1..MaxLogins
      BY <2>1, <2>3, LoginAssumption
    <3>2. issued' \in [Challenge -> 0..MaxLogins]
      BY <2>1, <2>3, <3>1
    <3>3. w \in Working
      BY <1>0, <2>1, <3>1 DEF Working, Token
    <3> HIDE DEF w
    <3>4. work' \in [Request -> Working]
      BY <2>3, <3>3, WorkStep
    <3>5. QED
      BY <2>1, <3>2, <3>4 DEF LoginTypeOK
  <2>4. QED
    BY <1>2, <2>2, <2>3 DEF Exchange
<1>3. CASE PutToken(r)
  <2>1. m.token[1] \in Challenge /\ m.token[2] \in 0..MaxLogins
    BY <1>0, <1>3 DEF PutToken, Token
  <2>2. work' \in [Request -> Working]
    BY <1>0, <1>3, WorkStep DEF PutToken
  <2>3. QED
    BY <1>3, <2>1, <2>2 DEF PutToken, LoginTypeOK
<1>4. CASE GetToken(r)
  <2> DEFINE c == m.challenge
             w == [at |-> "delete", token |-> <<c, stored[c]>>, known |-> m.known]
  <2>1. /\ c \in Challenge /\ m.known \subseteq Token /\ stored[c] \in 0..MaxLogins
        /\ UNCHANGED <<stored, realmKey, key, issued, handed>>
        /\ Goes(r, IF stored[c] = 0 THEN Idle ELSE w)
    BY <1>0, <1>4 DEF GetToken, LoginTypeOK
  <2>2. stored[c] # 0 => w \in Working
    BY <2>1, LoginAssumption DEF Working, Token
  <2> HIDE DEF w
  <2>3. QED
    BY <1>0, <1>1, <2>1, <2>2, WorkStep
<1>5. CASE DeleteToken(r)
  <2>1. m.token \in Token /\ m.token[1] \in Challenge
    BY <1>0, <1>5 DEF DeleteToken, Token
  <2>2. work' \in [Request -> Working]
    BY <1>0, <1>5, WorkStep DEF DeleteToken
  <2>3. QED
    BY <1>5, <2>1, <2>2, LoginAssumption DEF DeleteToken, LoginTypeOK
<1>6. CASE ReadKey(r)
  <2>1. CASE realmKey = 0
    <3>1. [at |-> "fetch", signer |-> m.signer, early |-> m.early] \in Working
      BY <1>0, <1>6 DEF ReadKey, Working
    <3>2. work' \in [Request -> Working]
      BY <1>6, <2>1, <3>1, WorkStep DEF ReadKey
    <3>3. QED
      BY <1>1, <1>6, <3>2 DEF ReadKey
  <2>2. CASE realmKey # 0
    <3>1. realmKey \in 1..MaxKey
      BY <2>2, LoginAssumption DEF LoginTypeOK
    <3>2. work' \in [Request -> Working]
      BY <1>6, <2>2, <3>1, JudgeTyping DEF ReadKey
    <3>3. QED
      BY <1>1, <1>6, <3>2 DEF ReadKey
  <2>3. QED
    BY <2>1, <2>2
<1>7. CASE FetchKey(r)
  <2>1. Holding(r, key) \in Working
    BY <1>0, <1>7 DEF FetchKey, Holding, Working, LoginTypeOK
  <2>2. work' \in [Request -> Working]
    BY <1>0, <1>7, <2>1, WorkStep DEF FetchKey
  <2>3. QED
    BY <1>1, <1>7, <2>2 DEF FetchKey
<1>8. CASE CacheKey(r)
  <2>1. work' \in [Request -> Working]
    BY <1>0, <1>8, JudgeTyping DEF CacheKey
  <2>2. QED
    BY <1>0, <1>8, <2>1, LoginAssumption DEF CacheKey, LoginTypeOK
<1>9. CASE Finish(r)
  BY <1>0, <1>1, <1>9, WorkStep DEF Finish
<1>10. QED
  BY <1>2, <1>3, <1>4, <1>5, <1>6, <1>7, <1>8, <1>9 DEF HandlerStep

LEMMA ArriveTyping ==
  ASSUME LoginTypeOK, NEW r \in Request, Arrive(r)
  PROVE  LoginTypeOK'
<1>1. ASSUME NEW w \in Working, Goes(r, w) PROVE LoginTypeOK'
  BY <1>1, WorkStep DEF Arrive, LoginTypeOK
<1>2. ASSUME NEW at \in {"exchange", "get"}, NEW c \in Challenge
      PROVE  [at |-> at, challenge |-> c, known |-> handed] \in Working
  BY DEF Working, LoginTypeOK
<1>3. ASSUME NEW k \in 1..key
      PROVE  [at |-> "key", signer |-> k, early |-> realmKey = 0] \in Working
  <2>1. k \in 1..MaxKey
    BY LoginAssumption DEF LoginTypeOK
  <2>2. QED
    BY <2>1 DEF Working
<1>4. QED
  BY <1>1, <1>2, <1>3, Zenon DEF Arrive

\* The process, and what it keeps in memory, stay well formed.
THEOREM ServerTyping == Spec => []TypeOK
<1>1. Init => TypeOK
  <2> SUFFICES ASSUME Init PROVE TypeOK
    OBVIOUS
  <2>1. ProcessTypeOK
    <3>1. 1 \in 1..MaxBoots
      BY MaxBootsAssumption
    <3>2. QED
      BY <3>1, Zenon DEF Init, ProcessInit, ProcessTypeOK
  <2>2. Idle \in Working
    BY DEF Working
  <2>3. LoginTypeOK
    BY <2>2, LoginAssumption DEF Init, LoginInit, LoginTypeOK
  <2>4. QED
    BY <2>1, <2>3 DEF TypeOK
<1>2. TypeOK /\ [Next]_vars => TypeOK'
  <2> SUFFICES ASSUME TypeOK, [Next]_vars PROVE TypeOK'
    OBVIOUS
  <2>1. ProcessTypeOK'
    BY ProcessTyping DEF TypeOK, Next, Take, Serve, Restart, vars, Rotate, process
  <2>2. CASE Forget
    <3>1. Idle \in Working
      BY DEF Working
    <3>2. QED
      BY <2>1, <2>2, <3>1, LoginAssumption DEF Forget, TypeOK, LoginTypeOK
  <2>3. CASE Rotate \/ UNCHANGED login
    BY <2>1, <2>3, LoginAssumption DEF Rotate, login, TypeOK, LoginTypeOK
  <2>4. ASSUME NEW r \in Request, Arrive(r) \/ HandlerStep(r) PROVE TypeOK'
    BY <2>1, <2>4, ArriveTyping, HandlerTyping DEF TypeOK
  <2>5. QED
    BY <2>2, <2>3, <2>4 DEF Next, Take, Serve, Restart, vars
<1>3. QED
  BY <1>1, <1>2, PTL DEF Spec

LEMMA RestartCounted ==
  ASSUME TypeOK, Restart
  PROVE  boots' # boots
  BY DEF TypeOK, ProcessTypeOK, Restart, Boot

-----------------------------------------------------------------------------
(* The tokens *)

\* Token t is among those that have been issued, n of each challenge.
Issued(t, n) == t[2] <= n[t[1]]

\* Where the tokens are.  One that is about to be stored is nowhere else; one
\* that is stored has not been handed out; a request that looks for one knows
\* only of tokens that have been.
TInv ==
    /\ stored \in [Challenge -> Nat] /\ issued \in [Challenge -> Nat]
    /\ DOMAIN work = Request
    /\ \A t \in handed : t \in Challenge \X Nat /\ Issued(t, issued)
    /\ \A c \in Challenge : stored[c] # 0 => <<c, stored[c]>> \notin handed /\ stored[c] <= issued[c]
    /\ \A r \in Request :
          /\ work[r].at \in {"put", "delete"} =>
                work[r].token \in Challenge \X (Nat \ {0}) /\ Issued(work[r].token, issued)
          /\ work[r].at = "put" =>
                /\ work[r].token \notin handed
                /\ stored[work[r].token[1]] # work[r].token[2]
                /\ \A q \in Request \ {r} :
                      work[q].at \in {"put", "delete"} => work[q].token # work[r].token
          /\ work[r].at \in {"get", "exchange"} =>
                work[r].challenge \in Challenge /\ work[r].known \subseteq handed
          /\ work[r].at = "delete" => work[r].token \notin work[r].known

LEMMA InitTInv == Init => TInv
<1> SUFFICES ASSUME Init PROVE TInv
  OBVIOUS
<1>1. work = [r \in Request |-> Idle] /\ Idle.at = "idle"
  BY DEF Init, LoginInit, Idle
<1>2. \A r \in Request : work[r].at = "idle"
  BY <1>1
<1>3. QED
  BY <1>1, <1>2 DEF Init, LoginInit, TInv

\* Steps that put no token anywhere.
LEMMA NoTokenStep ==
  ASSUME TInv, UNCHANGED <<stored, issued, handed>>, NEW r \in Request, NEW w, Goes(r, w),
         w.at \notin {"put", "delete"},
         w.at \in {"get", "exchange"} => w.challenge \in Challenge /\ w.known \subseteq handed
  PROVE  TInv'
<1>1. DOMAIN work' = Request /\ \A q \in Request : work'[q] = IF q = r THEN w ELSE work[q]
  BY DEF TInv, Goes
<1>2. QED
  BY <1>1 DEF TInv, Issued

LEMMA ArriveTInv ==
  ASSUME TInv, NEW r \in Request, Arrive(r)
  PROVE  TInv'
<1>1. ASSUME NEW at \in {"exchange", "get"}, NEW c \in Challenge,
             Goes(r, [at |-> at, challenge |-> c, known |-> handed])
      PROVE  TInv'
  BY <1>1, NoTokenStep DEF Arrive
<1>2. ASSUME NEW k, Goes(r, [at |-> "key", signer |-> k, early |-> realmKey = 0])
      PROVE  TInv'
  BY <1>2, NoTokenStep DEF Arrive
<1>3. QED
  BY <1>1, <1>2 DEF Arrive

\* The n-th login with a challenge gets a token nobody has seen.
LEMMA ExchangeTInv ==
  ASSUME TInv, NEW r \in Request, Exchange(r)
  PROVE  TInv'
<1>1. CASE Goes(r, Idle) /\ UNCHANGED issued
  BY <1>1, NoTokenStep DEF Exchange, Idle
<1>2. CASE /\ issued' = [issued EXCEPT ![work[r].challenge] = @ + 1]
            /\ Goes(r, [at |-> "put", known |-> {},
                        token |-> <<work[r].challenge, issued[work[r].challenge] + 1>>])
  <2> DEFINE c == work[r].challenge
             t == <<c, issued[c] + 1>>
             w == [at |-> "put", token |-> t, known |-> {}]
  <2>1. /\ c \in Challenge /\ issued' = [issued EXCEPT ![c] = issued[c] + 1]
        /\ work' = [work EXCEPT ![r] = w]
        /\ stored' = stored /\ handed' = handed
    BY <1>2 DEF Exchange, TInv, Goes
  <2>2. t \in Challenge \X (Nat \ {0}) /\ issued[c] \in Nat
    BY <2>1 DEF TInv
  <2>3. /\ DOMAIN work' = Request
        /\ \A q \in Request \ {r} : work'[q] = work[q]
        /\ work'[r].at = "put" /\ work'[r].token = t
    BY <2>1 DEF TInv
  <2>4. /\ issued' \in [Challenge -> Nat] /\ issued'[c] = issued[c] + 1
        /\ \A d \in Challenge : issued'[d] >= issued[d] /\ issued'[d] \in Nat /\ issued[d] \in Nat
    BY <2>1 DEF TInv
  <2>5. ~Issued(t, issued) /\ Issued(t, issued') /\ t[1] = c /\ t[2] = issued[c] + 1
    BY <2>2, <2>4 DEF Issued
  <2>6. \A u \in Challenge \X Nat : Issued(u, issued) => Issued(u, issued')
    BY <2>4 DEF Issued
  <2>7. t \notin handed /\ stored[c] # issued[c] + 1
    BY <2>1, <2>2, <2>5 DEF TInv
  <2>8. \A q \in Request : work[q].at \in {"put", "delete"} => work[q].token # t
    BY <2>5 DEF TInv
  <2>9. t[1] \in Challenge /\ stored[t[1]] # t[2]
    BY <2>1, <2>5, <2>7
  <2> HIDE DEF t, c, w
  <2>10. /\ \A u \in handed : u \in Challenge \X Nat /\ Issued(u, issued')
         /\ \A d \in Challenge : stored[d] # 0 => <<d, stored[d]>> \notin handed /\ stored[d] <= issued'[d]
    BY <2>4, <2>6 DEF TInv
  <2>11. ASSUME NEW q \in Request \ {r}
         PROVE  /\ work[q].at \in {"put", "delete"} =>
                      /\ work[q].token \in Challenge \X (Nat \ {0}) /\ Issued(work[q].token, issued')
                      /\ work[q].token # t
    BY <2>6, <2>8 DEF TInv
  <2>12. ASSUME NEW q \in Request
         PROVE  /\ work'[q].at \in {"put", "delete"} =>
                      work'[q].token \in Challenge \X (Nat \ {0}) /\ Issued(work'[q].token, issued')
                /\ work'[q].at = "put" =>
                      /\ work'[q].token \notin handed
                      /\ stored[work'[q].token[1]] # work'[q].token[2]
                      /\ \A o \in Request \ {q} :
                            work'[o].at \in {"put", "delete"} => work'[o].token # work'[q].token
                /\ work'[q].at \in {"get", "exchange"} =>
                      work'[q].challenge \in Challenge /\ work'[q].known \subseteq handed
                /\ work'[q].at = "delete" => work'[q].token \notin work'[q].known
    <3>1. CASE q = r
      BY <2>2, <2>3, <2>5, <2>7, <2>9, <2>11, <3>1
    <3>2. CASE q # r
      BY <2>3, <2>11, <3>2 DEF TInv
    <3>3. QED
      BY <3>1, <3>2
  <2>13. stored \in [Challenge -> Nat]
    BY DEF TInv
  <2>14. QED
    BY <2>1, <2>3, <2>4, <2>10, <2>12, <2>13 DEF TInv
<1>3. QED
  BY <1>1, <1>2 DEF Exchange

LEMMA PutTokenTInv ==
  ASSUME TInv, NEW r \in Request, PutToken(r)
  PROVE  TInv'
<1> DEFINE t == work[r].token
<1>1. /\ t \in Challenge \X (Nat \ {0}) /\ Issued(t, issued) /\ t \notin handed
      /\ t[1] \in Challenge /\ t[2] \in Nat \ {0} /\ t = <<t[1], t[2]>>
      /\ \A q \in Request \ {r} : work[q].at = "put" => work[q].token # t
  BY DEF PutToken, TInv
<1>2. /\ DOMAIN work' = Request
      /\ \A q \in Request \ {r} : work'[q] = work[q]
      /\ work'[r].at = "idle"
  BY DEF PutToken, Goes, TInv, Idle
<1>3. stored' = [stored EXCEPT ![t[1]] = t[2]] /\ UNCHANGED <<issued, handed>>
  BY DEF PutToken
<1> HIDE DEF t
<1>4. ASSUME NEW q \in Request \ {r}, work[q].at = "put"
      PROVE  stored'[work[q].token[1]] # work[q].token[2]
  <2> DEFINE u == work[q].token
  <2>1. u \in Challenge \X (Nat \ {0}) /\ u # t /\ stored[u[1]] # u[2]
    BY <1>1, <1>4 DEF TInv
  <2> HIDE DEF u
  <2>2. u = <<u[1], u[2]>> /\ u[1] \in Challenge
    BY <2>1
  <2>3. stored'[u[1]] # u[2]
    BY <1>1, <1>3, <2>1, <2>2 DEF TInv
  <2>4. QED
    BY <2>3 DEF u
<1>5. ASSUME NEW c \in Challenge, stored'[c] # 0
      PROVE  <<c, stored'[c]>> \notin handed /\ stored'[c] <= issued[c]
  BY <1>1, <1>3, <1>5 DEF TInv, Issued
<1>6. stored' \in [Challenge -> Nat]
  BY <1>1, <1>3 DEF TInv
<1>7. QED
  BY <1>2, <1>3, <1>4, <1>5, <1>6 DEF TInv, Issued

LEMMA GetTokenTInv ==
  ASSUME TInv, NEW r \in Request, GetToken(r)
  PROVE  TInv'
<1> DEFINE c == work[r].challenge
           t == <<c, stored[c]>>
           w == [at |-> "delete", token |-> t, known |-> work[r].known]
<1>1. c \in Challenge /\ work[r].known \subseteq handed /\ UNCHANGED <<stored, issued, handed>>
  BY DEF GetToken, TInv
<1>2. CASE stored[c] = 0
  <2>1. Goes(r, Idle)
    BY <1>2 DEF GetToken
  <2>2. QED
    BY <1>1, <2>1, NoTokenStep DEF Idle
<1>3. CASE stored[c] # 0
  <2>1. work' = [work EXCEPT ![r] = w]
    BY <1>3 DEF GetToken, Goes
  <2>2. /\ t \in Challenge \X (Nat \ {0}) /\ t[1] = c /\ t[2] = stored[c]
        /\ Issued(t, issued) /\ t \notin handed
    BY <1>1, <1>3 DEF TInv, Issued
  <2>3. /\ DOMAIN work' = Request
        /\ \A q \in Request \ {r} : work'[q] = work[q]
        /\ work'[r].at = "delete" /\ work'[r].token = t /\ work'[r].known = work[r].known
    BY <2>1 DEF TInv
  <2>4. \A q \in Request : work[q].at = "put" => work[q].token # t
    BY <2>2 DEF TInv
  <2> HIDE DEF t, c
  <2>5. QED
    BY <1>1, <2>2, <2>3, <2>4 DEF TInv, Issued
<1>4. QED
  BY <1>2, <1>3

LEMMA DeleteTokenTInv ==
  ASSUME TInv, NEW r \in Request, DeleteToken(r)
  PROVE  TInv'
<1> DEFINE t == work[r].token
<1>1. /\ t \in Challenge \X (Nat \ {0}) /\ Issued(t, issued) /\ t[1] \in Challenge /\ t[2] \in Nat
      /\ work[r].at = "delete"
  BY DEF DeleteToken, TInv
<1>2. /\ DOMAIN work' = Request
      /\ \A q \in Request \ {r} : work'[q] = work[q]
      /\ work'[r].at = "idle"
  BY DEF DeleteToken, Goes, TInv, Idle
<1>3. /\ stored' = [stored EXCEPT ![t[1]] = 0] /\ handed' = handed \cup {t}
      /\ issued' = issued
  BY DEF DeleteToken
<1>4. ASSUME NEW q \in Request \ {r}, work[q].at = "put"
      PROVE  work[q].token # t /\ work[q].token[1] \in Challenge /\ work[q].token[2] # 0
  BY <1>1, <1>4 DEF TInv
<1> HIDE DEF t
<1>5. QED
  BY <1>1, <1>2, <1>3, <1>4 DEF TInv, Issued

LEMMA NextTInv == TInv /\ [Next]_vars => TInv'
<1> SUFFICES ASSUME TInv, [Next]_vars PROVE TInv'
  OBVIOUS
<1>1. ASSUME NEW r \in Request, ReadKey(r) \/ FetchKey(r) \/ CacheKey(r) \/ Finish(r)
      PROVE  TInv'
  <2>1. /\ UNCHANGED <<stored, issued, handed>>
        /\ \E w : Goes(r, w) /\ w.at \in {"idle", "fetch", "cache", "handler"}
    <3>1. \A k, s, e : /\ Idle.at = "idle" /\ Holding(r, k).at = "cache"
                       /\ [at |-> "fetch", signer |-> s, early |-> e].at = "fetch"
                       /\ [at |-> "handler", signer |-> k].at = "handler"
      BY DEF Idle, Holding
    <3>2. QED
      BY <1>1, <3>1, ZenonT(30) DEF ReadKey, FetchKey, CacheKey, Finish, Judge
  <2>2. QED
    BY <2>1, NoTokenStep
<1>2. ASSUME NEW r \in Request, HandlerStep(r) PROVE TInv'
  BY <1>1, <1>2, ExchangeTInv, PutTokenTInv, GetTokenTInv, DeleteTokenTInv DEF HandlerStep
<1>3. CASE Forget
  <2>1. \A r \in Request : work'[r].at = "idle"
    BY <1>3 DEF Forget, Idle
  <2>2. QED
    BY <1>3, <2>1 DEF Forget, TInv, Issued
<1>4. CASE Rotate \/ UNCHANGED login
  BY <1>4 DEF Rotate, login, TInv, Issued
<1>5. QED
  BY <1>2, <1>3, <1>4, ArriveTInv DEF Next, Take, Serve, Restart, vars

\* A token is handed out only to requests that overlap: none that begins
\* after the first answer finds it, although GetToken reads and deletes under
\* two locks and other logins store tokens in between (internal/api/auth).
THEOREM TokensAreHandedOutOnce == Spec => []NotHandedOutAgain
<1>1. TInv => NotHandedOutAgain
  BY DEF TInv, NotHandedOutAgain
<1>2. QED
  BY InitTInv, NextTInv, <1>1, PTL DEF Spec

\* Who may change the token stored for challenge c, or end its process.
Fetched(c) ==
    \/ \E r \in Request : work[r].at = "delete" /\ work[r].token = <<c, stored[c]>>
    \/ boots' # boots

\* Before its second login, the only token of a challenge is its first.
LEMMA StepFetched ==
  ASSUME TInv, TypeOK, [Next]_vars, NEW c \in Challenge,
         stored[c] # 0, stored'[c] # stored[c], issued[c] < 2
  PROVE  Fetched(c)
<1>1. /\ stored[c] \in Nat /\ issued[c] \in Nat /\ stored[c] <= issued[c]
      /\ DOMAIN stored = Challenge
  BY DEF TInv
<1>2. stored[c] = 1
  BY <1>1
<1>3. ASSUME NEW r \in Request, work[r].at \in {"put", "delete"}, work[r].token[1] = c
      PROVE  work[r].token = <<c, 1>>
  <2> DEFINE t == work[r].token
  <2>1. t \in Challenge \X (Nat \ {0}) /\ Issued(t, issued)
    BY <1>3 DEF TInv
  <2>2. t = <<t[1], t[2]>> /\ t[2] \in Nat \ {0} /\ t[1] = c
    BY <1>3, <2>1
  <2> HIDE DEF t
  <2>3. t[2] = 1
    BY <1>1, <2>1, <2>2 DEF Issued
  <2>4. QED
    BY <2>2, <2>3 DEF t
<1>4. ASSUME NEW r \in Request, PutToken(r) PROVE FALSE
  <2>1. /\ work[r].at = "put"
        /\ stored' = [stored EXCEPT ![work[r].token[1]] = work[r].token[2]]
    BY <1>4 DEF PutToken
  <2>2. work[r].token[1] = c
    BY <1>1, <2>1
  <2>3. work[r].token[2] = stored[c]
    BY <1>2, <1>3, <2>1, <2>2
  <2>4. QED
    BY <2>1, <2>2, <2>3 DEF TInv
<1>5. ASSUME NEW r \in Request, DeleteToken(r) PROVE Fetched(c)
  <2>1. /\ work[r].at = "delete"
        /\ stored' = [stored EXCEPT ![work[r].token[1]] = 0]
    BY <1>5 DEF DeleteToken
  <2>2. work[r].token[1] = c
    BY <1>1, <2>1
  <2>3. QED
    BY <1>2, <1>3, <2>1, <2>2 DEF Fetched
<1>6. CASE Restart
  BY <1>6, RestartCounted DEF Fetched
<1>7. stored' # stored
  OBVIOUS
<1>8. ASSUME NEW r \in Request, HandlerStep(r) PROVE Fetched(c)
  <2>1. ASSUME Exchange(r) \/ GetToken(r) \/ ReadKey(r) \/ FetchKey(r) \/ CacheKey(r) \/ Finish(r)
        PROVE  FALSE
    BY <1>7, <2>1 DEF Exchange, GetToken, ReadKey, FetchKey, CacheKey, Finish
  <2>2. QED
    BY <1>4, <1>5, <1>8, <2>1 DEF HandlerStep
<1>9. ASSUME NEW r \in Request, Arrive(r) PROVE FALSE
  BY <1>7, <1>9 DEF Arrive
<1>10. ASSUME Rotate \/ UNCHANGED login PROVE FALSE
  BY <1>7, <1>10 DEF Rotate, login
<1>11. QED
  BY <1>6, <1>8, <1>9, <1>10 DEF Next, Take, Serve, vars

\* No login is lost unless its challenge is used again: its token is taken
\* only by a request that answers it, or with the process, although Delete
\* does not look at what it deletes (internal/api/auth/auth.go).
THEOREM LoginsAreLostOnlyByReuse == Spec => LostOnlyByReuse
<1>1. TInv /\ TypeOK /\ [Next]_vars =>
        [\A c \in Challenge :
            /\ stored[c] # 0 /\ stored'[c] # stored[c]
            /\ issued[c] < 2
            => \/ \E r \in Request : work[r].at = "delete" /\ work[r].token = <<c, stored[c]>>
               \/ boots' # boots]_login
  BY StepFetched DEF Fetched
<1>2. QED
  BY InitTInv, NextTInv, ServerTyping, <1>1, PTL DEF Spec, LostOnlyByReuse

-----------------------------------------------------------------------------
(* The key *)

\* A request that came when a key was trusted fetches none, because the key it
\* saw is still there: it was not cached when the request came, or it is now.
KInv ==
    /\ DOMAIN work = Request
    /\ key # 0
    /\ \A r \in Request :
          /\ work[r].at = "key" => work[r].early \/ realmKey # 0
          /\ work[r].at \in {"fetch", "cache"} => work[r].early
          /\ work[r].at = "cache" => work[r].got # 0

\* A handler goes on to w.
LEMMA KeyStep ==
  ASSUME KInv, NEW r \in Request, NEW w, Goes(r, w),
         UNCHANGED key, realmKey # 0 => realmKey' # 0,
         w.at = "key" => w.early \/ realmKey' # 0,
         w.at \in {"fetch", "cache"} => w.early,
         w.at = "cache" => w.got # 0
  PROVE  KInv'
<1>1. DOMAIN work' = Request /\ \A q \in Request : work'[q] = IF q = r THEN w ELSE work[q]
  BY DEF KInv, Goes
<1>2. QED
  BY <1>1 DEF KInv

LEMMA NextKInv == KInv /\ TypeOK /\ [Next]_vars => KInv'
<1> SUFFICES ASSUME KInv, TypeOK, [Next]_vars PROVE KInv'
  OBVIOUS
<1>1. ASSUME NEW r \in Request, NEW w, Goes(r, w), UNCHANGED key,
             realmKey # 0 => realmKey' # 0, w.at \notin {"key", "fetch", "cache"}
      PROVE  KInv'
  BY <1>1, KeyStep
<1>2. ASSUME NEW r \in Request, Arrive(r) PROVE KInv'
  <2>1. CASE \E at \in {"exchange", "get"}, c \in Challenge :
               Goes(r, [at |-> at, challenge |-> c, known |-> handed])
    <3>1. \A at, c : [at |-> at, challenge |-> c, known |-> handed].at = at
      OBVIOUS
    <3>2. QED
      BY <1>1, <1>2, <2>1, <3>1, ZenonT(30) DEF Arrive
  <2>2. ASSUME NEW k, Goes(r, [at |-> "key", signer |-> k, early |-> realmKey = 0])
        PROVE  KInv'
    BY <1>2, <2>2, KeyStep DEF Arrive
  <2>3. QED
    BY <1>2, <2>1, <2>2 DEF Arrive
<1>3. ASSUME NEW r \in Request,
             Exchange(r) \/ PutToken(r) \/ GetToken(r) \/ DeleteToken(r) \/ Finish(r)
      PROVE  KInv'
  <2>1. \E w : Goes(r, w) /\ w.at \in {"idle", "put", "delete"}
    <3>1. \A t, n : /\ Idle.at = "idle" /\ [at |-> "put", token |-> t, known |-> {}].at = "put"
                    /\ [at |-> "delete", token |-> t, known |-> n].at = "delete"
      BY DEF Idle
    <3>2. QED
      BY <1>3, <3>1, ZenonT(30) DEF Exchange, PutToken, GetToken, DeleteToken, Finish
  <2>2. QED
    BY <1>1, <1>3, <2>1 DEF Exchange, PutToken, GetToken, DeleteToken, Finish
<1>4. ASSUME NEW r \in Request, NEW k, Judge(r, k), UNCHANGED key, realmKey # 0 => realmKey' # 0
      PROVE  KInv'
  <2>1. Idle.at = "idle" /\ [at |-> "handler", signer |-> k].at = "handler"
    BY DEF Idle
  <2>2. QED
    BY <1>1, <1>4, <2>1 DEF Judge
<1>5. ASSUME NEW r \in Request, ReadKey(r) PROVE KInv'
  <2>1. CASE realmKey = 0
    BY <1>5, <2>1, KeyStep DEF ReadKey, KInv
  <2>2. CASE realmKey # 0
    BY <1>4, <1>5, <2>2 DEF ReadKey
  <2>3. QED
    BY <2>1, <2>2
<1>6. ASSUME NEW r \in Request, FetchKey(r) PROVE KInv'
  <2>1. CASE Goes(r, Idle)
    BY <1>1, <1>6, <2>1 DEF FetchKey, Idle
  <2>2. CASE Goes(r, Holding(r, key))
    BY <1>6, <2>2, KeyStep DEF FetchKey, Holding, KInv
  <2>3. QED
    BY <1>6, <2>1, <2>2 DEF FetchKey
<1>7. ASSUME NEW r \in Request, CacheKey(r) PROVE KInv'
  BY <1>4, <1>7 DEF CacheKey, KInv
<1>8. CASE Forget
  BY <1>8 DEF Forget, KInv, Idle
<1>9. CASE Rotate
  <2>1. key' # 0
    BY <1>9 DEF Rotate, TypeOK, LoginTypeOK
  <2>2. QED
    BY <1>9, <2>1 DEF Rotate, KInv
<1>10. CASE UNCHANGED login
  BY <1>10 DEF login, KInv
<1>11. QED
  BY <1>2, <1>3, <1>5, <1>6, <1>7, <1>8, <1>9, <1>10 DEF Next, Take, Serve, HandlerStep, Restart, vars

\* Who may replace the trusted key.
LEMMA StepKeepsKey ==
  ASSUME KInv, TypeOK, [Next]_vars, realmKey' # realmKey
  PROVE  \/ \E r \in Request : work[r].at = "cache" /\ work[r].early
         \/ boots' # boots
<1>1. ASSUME NEW r \in Request, HandlerStep(r)
      PROVE  work[r].at = "cache" /\ work[r].early
  BY <1>1 DEF KInv, HandlerStep, Exchange, PutToken, GetToken, DeleteToken, ReadKey, FetchKey,
              CacheKey, Finish
<1>2. ASSUME NEW r \in Request, Arrive(r) PROVE FALSE
  BY <1>2 DEF Arrive
<1>3. ASSUME Rotate \/ UNCHANGED login PROVE FALSE
  BY <1>3 DEF Rotate, login
<1>4. QED
  BY <1>1, <1>2, <1>3, RestartCounted DEF Next, Take, Serve, vars

\* A trusted key is replaced only by the requests that came before there was
\* one, or with the process: no rotation at Keycloak reaches it later
\* (Provider.GetPublicKey).
THEOREM TrustedKeysStay == Spec => TrustedKeyStays
<1>1. Init => KInv
  BY DEF Init, LoginInit, KInv, Idle
<1>2. KInv /\ TypeOK /\ [Next]_vars =>
        [realmKey # 0 /\ realmKey' # realmKey
            => \/ \E r \in Request : work[r].at = "cache" /\ work[r].early
               \/ boots' # boots]_login
  BY StepKeepsKey
<1>3. QED
  BY NextKInv, ServerTyping, <1>1, <1>2, PTL DEF Spec, TrustedKeyStays
===============================================================================
