------------------------------- MODULE Server ---------------------------------
(***************************************************************************)
(* The server: its process and, in it, the requests that log in and are    *)
(* authenticated.  A request lives from Accept to the step of its handler  *)
(* that answers; the memory of the logins lives as long as the process.    *)
(***************************************************************************)
EXTENDS Login

vars == <<process, login>>

Init == ProcessInit /\ LoginInit

TypeOK == ProcessTypeOK /\ LoginTypeOK

\* The connection is accepted and the handler starts.
Take(r) == Accept(r) /\ Arrive(r)

\* A step of a handler; with the last one the request is answered.
Serve(r) ==
    /\ Alive /\ r \in inflight
    /\ HandlerStep(r)
    /\ IF work'[r] = Idle THEN Reply(r) ELSE UNCHANGED process

\* The supervisor starts the server again.
Restart == Boot /\ Forget

Next ==
    \/ \E r \in Request : Take(r) \/ Serve(r)
    \/ Live /\ UNCHANGED login
    \/ Rotate /\ UNCHANGED process
    \/ Restart

Spec == Init /\ [][Next]_vars /\ ProcessFairness
===============================================================================
