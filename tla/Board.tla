--------------------------------- MODULE Board --------------------------------
(***************************************************************************)
(* What a reader of the status page may rely on, whatever requests are     *)
(* under way: events are never withdrawn, an event is listed with the      *)
(* components it affects, and a component leaves an event only by being    *)
(* transferred to another (or the same) one in the same instant.           *)
(*                                                                         *)
(* Placement implements it: there an operation of this module takes        *)
(* several database calls of a request, and requests work on old copies.   *)
(***************************************************************************)
CONSTANTS
    Event,       \* identities of events
    Component    \* components of the cloud

VARIABLES
    listed,      \* the events on the page
    affects      \* which event affects which component

board == <<listed, affects>>

Init == listed = {} /\ affects = {}

\* A new event, of some components.
Open(e, cs) ==
    /\ e \notin listed /\ cs # {}
    /\ listed' = listed \cup {e}
    /\ affects' = affects \cup ({e} \X cs)

\* An event affects further components.
Include(e, cs) ==
    /\ e \in listed
    /\ affects' = affects \cup ({e} \X cs)
    /\ UNCHANGED listed

\* The components cs go from e to f.  Others may come back to either event:
\* a request that has seen them there writes what it has seen.
Transfer(e, f, cs, backTo, backFrom) ==
    /\ e \in listed /\ f \in listed /\ cs # {}
    /\ affects' = (affects \ ({e} \X cs)) \cup ({f} \X (cs \cup backTo))
                                          \cup ({e} \X backFrom)
    /\ UNCHANGED listed

Next ==
    \/ \E e \in Event, cs \in SUBSET Component : Open(e, cs) \/ Include(e, cs)
    \/ \E e, f \in Event, cs, backTo, backFrom \in SUBSET Component :
          Transfer(e, f, cs, backTo, backFrom)

Spec == Init /\ [][Next]_board
===============================================================================
