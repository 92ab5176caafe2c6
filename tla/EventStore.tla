----------------------------- MODULE EventStore ------------------------------
(***************************************************************************)
(* The PostgreSQL tables the handlers share (incident and                  *)
(* incident_component_relation) and the write operations of                *)
(* internal/db/db.go, each of them one transaction.                        *)
(*                                                                         *)
(* A handler never works on the tables: it loads an event into a Go struct *)
(* (a Copy here), changes the struct and hands it back.  What reaches the  *)
(* row depends on the GORM call: Updates writes the non-zero fields of the *)
(* struct, Save writes all of them, and both only ever ADD component       *)
(* relations.  The stored row may have changed since the copy was taken.   *)
(*                                                                         *)
(* Dates.  The clock is kept out of the rows: an end date is "open" (SQL   *)
(* NULL), "past", or one of the Window schedules (a start date and an end  *)
(* date), and phase says where the clock stands with respect to each       *)
(* schedule.                                                               *)
(***************************************************************************)
EXTENDS Naturals, EventStatus

CONSTANTS
    EventId,     \* primary keys the incident table may hand out
    Component,   \* components of the catalogue
    Window,      \* schedules: pairs of a start date and an end date
    MaxImpact    \* highest impact (3 in the code)

ASSUME MaxImpactAssumption == MaxImpact \in Nat \ {0}
ASSUME WindowAssumption == {"open", "past"} \cap Window = {}

VARIABLES
    events,      \* ids present in the incident table
    row,         \* the columns of each event
    link,        \* the incident_component_relation table
    phase        \* where the clock stands in each schedule

store == <<events, row, link, phase>>

Impact == 0..MaxImpact
Dates == {"open", "past"} \cup Window
Phase == {"ahead", "live", "over"}

Row == [type : EventType, system : BOOLEAN, impact : Impact,
        status : Status, dates : Dates]

\* An event as a handler holds it: the row and the components it was loaded
\* with, detached from the tables.
Copy == [id : EventId, row : Row, comps : SUBSET Component]

ComponentsOf(i) == {c \in Component : <<i, c>> \in link}

Load(i) == [id |-> i, row |-> row[i], comps |-> ComponentsOf(i)]

\* The filter IsActive of applyEventsFilters and GetEventsByComponentID.
Active(i) ==
    /\ i \in events
    /\ \/ row[i].dates = "open"
       \/ /\ row[i].dates \in Window
          /\ phase[row[i].dates] = "live"
          /\ row[i].status \notin OverStatus

StoreTypeOK ==
    /\ events \subseteq EventId
    /\ row \in [EventId -> Row]
    /\ link \subseteq EventId \X Component
    /\ phase \in [Window -> Phase]

StoreInit ==
    /\ events = {}
    /\ row = [i \in EventId |-> [type |-> "info", system |-> FALSE, impact |-> 0,
                                 status |-> NoStatus, dates |-> "open"]]
    /\ link = {}
    /\ phase = [w \in Window |-> "ahead"]

-----------------------------------------------------------------------------

\* SaveIncident: a new row under a fresh key, and its relations.
SaveIncident(i, r, cs) ==
    /\ i \notin events
    /\ events' = events \cup {i}
    /\ row' = [row EXCEPT ![i] = r]
    /\ link' = link \cup ({i} \X cs)
    /\ UNCHANGED phase

\* Mutant: impact is an int instead of a pointer, and 0 is not written.
NonZeroImpactOnly(stored, r) ==
    [r EXCEPT !.system = stored.system \/ @,
              !.impact = IF @ = 0 THEN stored.impact ELSE @,
              !.status = IF @ = NoStatus THEN stored.status ELSE @,
              !.dates  = IF @ = "open" THEN stored.dates ELSE @]

\* What gorm's Updates leaves in a row: the zero fields of the struct (no
\* end date, no status, system = false) keep what is stored.
NonZeroFields(stored, r) ==
    [r EXCEPT !.system = stored.system \/ @,
              !.status = IF @ = NoStatus THEN stored.status ELSE @,
              !.dates  = IF @ = "open" THEN stored.dates ELSE @]

\* Mutant: the full write of Save where Updates is called.
ModifyWritesAll(copy) ==
    /\ row' = [row EXCEPT ![copy.id] = copy.row]
    /\ link' = link \cup ({copy.id} \X copy.comps)
    /\ UNCHANGED <<events, phase>>

\* Mutant: the association is replaced.
ModifyReplacesLinks(copy) ==
    /\ row' = [row EXCEPT ![copy.id] = NonZeroFields(@, copy.row)]
    /\ link' = {p \in link : p[1] # copy.id} \cup ({copy.id} \X copy.comps)
    /\ UNCHANGED <<events, phase>>

ModifyIncident(copy) ==
    /\ row' = [row EXCEPT ![copy.id] = NonZeroFields(@, copy.row)]
    /\ link' = link \cup ({copy.id} \X copy.comps)
    /\ UNCHANGED <<events, phase>>

\* ReOpenIncident sets end_date to NULL and touches nothing else.
ReOpenIncident(i) ==
    /\ row' = [row EXCEPT ![i].dates = "open"]
    /\ UNCHANGED <<events, link, phase>>

\* The struct of the source event after MoveComponentFromOldToAnotherIncident
\* (and, with closeOld = FALSE, after ExtractComponentsToNewIncident): closed
\* with its components, or without the components cs and otherwise as it was.
Left(cs, old, closeOld) ==
    IF closeOld
    THEN [old EXCEPT !.row.status = "resolved", !.row.dates = "past"]
    ELSE [old EXCEPT !.comps = @ \ cs]

\* Mutant: the relation is deleted after the two Saves.
MoveDeletesLast(cs, old, new, closeOld) ==
    LET left == Left(cs, old, closeOld)
        gone == IF closeOld THEN {} ELSE {old.id} \X cs
    IN  /\ row' = [row EXCEPT ![new.id] = new.row, ![old.id] = left.row]
        /\ link' = (link \cup ({new.id} \X (new.comps \cup cs))
                         \cup ({old.id} \X left.comps)) \ gone
        /\ UNCHANGED <<events, phase>>

\* Mutant: the relation is left to Save, which only adds relations.
MoveNeverDeletes(cs, old, new, closeOld) ==
    LET left == Left(cs, old, closeOld)
    IN  /\ row' = [row EXCEPT ![new.id] = new.row, ![old.id] = left.row]
        /\ link' = link \cup ({new.id} \X (new.comps \cup cs))
        /\ UNCHANGED <<events, phase>>

\* The transaction of both functions: delete the relations of the source
\* (unless it is closed), Save the target, Save the source.  The two Saves
\* write every column of their structs and add the relations they hold; the
\* target's struct has been given the components cs.
MoveComponents(cs, old, new, closeOld) ==
    LET left == Left(cs, old, closeOld)
        kept == IF closeOld THEN link ELSE link \ ({old.id} \X cs)
    IN  /\ row' = [row EXCEPT ![new.id] = new.row, ![old.id] = left.row]
        /\ link' = kept \cup ({new.id} \X (new.comps \cup cs)) \cup ({old.id} \X left.comps)
        /\ UNCHANGED <<events, phase>>

\* The clock enters or leaves a schedule.
ClockMoves(w) ==
    /\ phase[w] # "over"
    /\ phase' = [phase EXCEPT ![w] = IF @ = "ahead" THEN "live" ELSE "over"]
    /\ UNCHANGED <<events, row, link>>
=============================================================================
