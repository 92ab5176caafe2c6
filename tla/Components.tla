------------------------------ MODULE Components ------------------------------
(***************************************************************************)
(* Components and their incidents: the catalogue, the incidents that are   *)
(* created on its components and closed, the clock, and the availability   *)
(* that GetComponentsAvailabilityHandler reports of each component.        *)
(***************************************************************************)
EXTENDS Catalogue, Availability

CONSTANTS
    Incident,    \* keys of incidents
    Impact,      \* their impacts
    StartDates, EndDates

\* Dates are within the calendar.
ASSUME DateAssumption == StartDates \cup EndDates \subseteq Hours

VARIABLES
    incident,    \* their components, impact, start and end dates
    now          \* the clock

vars == <<catalogue, incident, now>>

None == [comps |-> {}]

TypeOK ==
    /\ CatalogueTypeOK
    /\ now \in Hours
    /\ incident \in [Incident -> {None} \cup
          [comps : SUBSET (1..MaxComponents), impact : Impact,
           start : Hours, end : Hours \cup {Open}]]

Init ==
    /\ CatalogueInit
    /\ incident = [o \in Incident |-> None]
    /\ now = MonthStart[MonthsInYear]

\* The event is stored.  An incident does not start in the future.
CreateIncident(r) ==
    /\ post[r].at = "create"
    /\ UpsertComponents(post[r].comps)
    /\ Goes(r, Idle)
    /\ \E o \in Incident, i \in Impact, s \in {t \in StartDates : t <= now} :
          /\ incident[o] = None
          /\ incident' = [incident EXCEPT ![o] =
                [comps |-> post[r].comps, impact |-> i, start |-> s, end |-> Open]]
    /\ UNCHANGED <<lastKey, now>>

\* A PATCH resolves the incident at a date the client gives, or moves the
\* dates of a resolved one.
CloseIncident(o) ==
    /\ incident[o] # None
    /\ \E e \in EndDates :
          e >= incident[o].start /\ incident' = [incident EXCEPT ![o].end = e]
    /\ UNCHANGED <<catalogue, now>>

Tick ==
    /\ now + 1 \in Hours
    /\ now' = now + 1
    /\ UNCHANGED <<catalogue, incident>>

CatalogueStep(r) ==
    \/ PostComponent(r) \/ CheckExists(r) \/ InsertComponent(r)
    \/ PostEvent(r) \/ ValidateComponents(r)

Next ==
    \/ \E r \in Poster : CatalogueStep(r) /\ UNCHANGED <<incident, now>>
    \/ \E r \in Poster : CreateIncident(r)
    \/ \E o \in Incident : CloseIncident(o)
    \/ Tick

Spec == Init /\ [][Next]_vars

\* The report of component c.
Reported(c) ==
    calculateAvailability({o \in Incident : c \in incident[o].comps}, incident, now)

-----------------------------------------------------------------------------
(* Properties *)

Outages(c) ==
    {o \in Incident : /\ c \in incident[o].comps
                       /\ incident[o].impact = OutageImpact /\ incident[o].end # Open}
Down(c, t) == \E o \in Outages(c) : incident[o].start <= t /\ t < incident[o].end /\ t < now
Overlap(o, p) == incident[o].start < incident[p].end /\ incident[p].start < incident[o].end

\* The report of a component with incidents names the last months, the
\* current one first, and of each the hours in which no closed outage had it
\* down; unless its outages overlap (they are subtracted one by one).
AvailabilityExact ==
    \A c \in DOMAIN component :
        /\ \E o \in Incident : c \in incident[o].comps
        /\ \A o, p \in Outages(c) : o # p => ~Overlap(o, p)
        => \A k \in 1..MonthsInYear :
               LET m == MonthAt(now) + 1 - k
                   up == {t \in MonthStart[m]..MonthStart[m + 1] - 1 : ~Down(c, t)}
               IN  Reported(c)[k] = [year |-> Year(m), month |-> MonthOfYear(m),
                                     hours |-> Cardinality(up)]
===============================================================================
