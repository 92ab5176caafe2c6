------------------------------ MODULE Listings --------------------------------
(***************************************************************************)
(* A client of the event queries: it reads the list of events page by page *)
(* (Pages), or looks at one event, Edited, and edits one of its updates    *)
(* (Updates), while requests of others add events, change them, and add    *)
(* updates to that one.                                                    *)
(***************************************************************************)
EXTENDS Pages, Updates

CONSTANT Edited   \* the event whose updates are looked at

ASSUME EditedAssumption == Edited \in Event

vars == <<pages, updates>>

TypeOK == PagesTypeOK /\ UpdatesTypeOK

Init == PagesInit /\ UpdatesInit

\* The client does one thing at a time.
Read == editor = Out /\ ReaderStep /\ UNCHANGED updates

Edit ==
    /\ reader = Resting
    /\ Edited \in Stored
    /\ EditorStep
    /\ UNCHANGED pages

Next ==
    \/ Read
    \/ Edit
    \/ \E e \in Event, d \in StartDates : AddEvent(e, d) /\ UNCHANGED updates
    \/ \E e \in Event : ChangeEvent(e) /\ UNCHANGED updates
    \/ \E w \in Writer : Edited \in Stored /\ WriterStep(w) /\ UNCHANGED pages

Spec == Init /\ [][Next]_vars
===============================================================================
