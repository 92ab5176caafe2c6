-------------------------------- MODULE Pages ---------------------------------
(***************************************************************************)
(* Reading the events page by page: GetEventsHandler of                    *)
(* internal/api/v2/v2.go and GetEventsWithCount of internal/db/db.go, and  *)
(* a client that asks for page after page until it has the last.           *)
(*                                                                         *)
(* A request makes two queries, a count and a fetch, in no transaction.    *)
(* Start dates are natural numbers; the other conditions of the request    *)
(* are kept as one bit of an event, whether it meets them now.             *)
(***************************************************************************)
EXTENDS Naturals, FiniteSets, SequencesExt

CONSTANTS
    Event,       \* events that can be stored
    StartDates,  \* their start dates
    Limit        \* events of a page (10, 20 or 50 in the code)

ASSUME EventAssumption == IsFiniteSet(Event) /\ StartDates \subseteq Nat
ASSUME LimitAssumption == Limit \in Nat \ {0}

VARIABLES
    event,       \* the incident table: of each event in it, [start, matches]
    reader       \* the client

pages == <<event, reader>>

Stored == DOMAIN event
Matching == {e \in Stored : event[e].matches}

\* [history: owed, the events that matched when the client began and have been
\* on no page since; none is owed once an event has changed, one has come in
\* between a count and its fetch, or two had the same start date at a fetch]
Resting == [at |-> "resting"]
Reading == {Resting} \cup
    [at : {"count", "fetch"}, page : 1..Cardinality(Event) + 1,
     total : 0..Cardinality(Event), owed : SUBSET Event]
    \cup [at : {"done"}, owed : SUBSET Event]

PagesTypeOK ==
    /\ Stored \subseteq Event
    /\ event \in [Stored -> [start : StartDates, matches : BOOLEAN]]
    /\ reader \in Reading

PagesInit == event = [e \in {} |-> Resting] /\ reader = Resting

Disturbed(by) == IF by /\ reader # Resting THEN [reader EXCEPT !.owed = {}] ELSE reader

\* An event is created.
AddEvent(e, d) ==
    /\ e \notin Stored
    /\ event' = [f \in Stored \cup {e} |->
                   IF f = e THEN [start |-> d, matches |-> TRUE] ELSE event[f]]
    /\ reader' = Disturbed(reader.at = "fetch")

\* An event changes, and meets the conditions of the client no longer, or
\* again (a PATCH, the checker or the clock).
ChangeEvent(e) ==
    /\ e \in Stored
    /\ event' = [event EXCEPT ![e].matches = ~@]
    /\ reader' = Disturbed(TRUE)

BeginReading ==
    /\ reader = Resting
    /\ reader' = [at |-> "count", page |-> 1, total |-> 0, owed |-> Matching]
    /\ UNCHANGED event

\* Mutant: the rows of a join with the components are counted.
CountRelations ==
    /\ reader.at = "count"
    /\ reader' = [reader EXCEPT !.at = "fetch", !.total = 2 * Cardinality(Matching)]
    /\ UNCHANGED event

\* Mutant: the total of the first page is kept for the others.
CountForFirstPage ==
    /\ reader.at = "count"
    /\ reader' = [reader EXCEPT !.at = "fetch",
                               !.total = IF reader.page = 1 THEN Cardinality(Matching) ELSE @]
    /\ UNCHANGED event

\* GetEventsWithCount: Count ...
CountEvents ==
    /\ reader.at = "count"
    /\ reader' = [reader EXCEPT !.at = "fetch", !.total = Cardinality(Matching)]
    /\ UNCHANGED event

\* The orders "start_date DESC" allows.
Orders ==
    {s \in SetToSeqs(Matching) :
        \A i, j \in DOMAIN s : i < j => event[s[i]].start >= event[s[j]].start}

\* fetchPaginatedEvents: LIMIT and OFFSET.
Page(s, page) ==
    LET offset == IF page > 1 THEN (page - 1) * Limit ELSE 0
    IN  {s[i] : i \in {j \in DOMAIN s : offset < j /\ j <= offset + Limit}}

\* totalPages of GetEventsHandler; without any event it answers no pagination.
TotalPages(total) == (total + Limit - 1) \div Limit

Ties == \E e, f \in Matching : e # f /\ event[e].start = event[f].start

\* ... and Find; the client goes on as long as there are more pages.
FetchPage ==
    /\ reader.at = "fetch"
    /\ \E s \in Orders :
          LET owed == IF Ties THEN {} ELSE reader.owed \ Page(s, reader.page)
          IN  reader' = IF reader.page < TotalPages(reader.total)
                        THEN [reader EXCEPT !.at = "count", !.page = @ + 1, !.owed = owed]
                        ELSE [at |-> "done", owed |-> owed]
    /\ UNCHANGED event

EndReading ==
    /\ reader.at = "done"
    /\ reader' = Resting
    /\ UNCHANGED event

ReaderStep == BeginReading \/ CountEvents \/ FetchPage \/ EndReading

-----------------------------------------------------------------------------
(* Properties *)

\* A client that reads all the pages misses no event that was there when it
\* began, although others are created between its requests and push it to a
\* later page; unless one comes in between the count and the fetch of a
\* request, an event changes, or two have the same start date
\* (GetEventsWithCount, fetchPaginatedEvents).
NoneMissed == reader.at = "done" => reader.owed = {}
===============================================================================
