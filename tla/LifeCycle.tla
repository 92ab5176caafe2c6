------------------------------- MODULE LifeCycle ------------------------------
(***************************************************************************)
(* The life of a scheduled event, a maintenance or an information, as the  *)
(* page tells it: that it is planned, then that it runs, then that it is   *)
(* completed, and at any time that it is cancelled.  Nothing that has been *)
(* told is taken back.  Several things may be told at once: that an event  *)
(* has been completed is told, with all that went before, even when nobody *)
(* was there to tell them one by one.                                      *)
(*                                                                         *)
(* Checker implements it, with the statuses of the history of an event.    *)
(***************************************************************************)
CONSTANT Event

VARIABLE told    \* what has been told of each event

Life == {{}, {"planned"}, {"planned", "running"}, {"planned", "running", "completed"}}

InOrder(news) == news \ {"cancelled"} \in Life

Init == told = [e \in Event |-> {}]

Tell(e, news) ==
    /\ InOrder(told[e] \cup news)
    /\ told' = [told EXCEPT ![e] = @ \cup news]

Next ==
    \E e \in Event, news \in SUBSET {"planned", "running", "completed", "cancelled"} :
        Tell(e, news)

Spec == Init /\ [][Next]_told
===============================================================================
