----------------------------- MODULE Placement -------------------------------
(***************************************************************************)
(* How components are placed in events.  Every request that changes the    *)
(* incident table runs here as a process of its own:                       *)
(*   system   POST /v2/events with system = true (monitoring)              *)
(*   regular  POST /v2/events by an operator                               *)
(*   v1       POST /v1/component_status                                    *)
(*   extract  POST /v2/events/:id/extract                                  *)
(*   patch    PATCH /v2/events/:id                                         *)
(* gin serves requests concurrently and the handlers take no lock: a step  *)
(* is one database call and the computation that follows it, and between   *)
(* two steps of a request the others may run.  What a request has read it  *)
(* keeps in Go structs, here the fields of req[r].                         *)
(*                                                                         *)
(* The order in which GetEvents lists the events (start dates chosen by    *)
(* the clients) and in which a client lists its components is left open:   *)
(* "the first event that ..." is any event that ...                        *)
(***************************************************************************)
EXTENDS EventStore, FiniteSets

CONSTANTS
    Request,     \* concurrent HTTP requests
    NoCopy,      \* a nil *db.Incident
    Kinds,       \* the kinds of request the environment sends
    NewTypes,    \* the types of event operators create, and PATCH a type to
    PatchStatus, \* the statuses operators PATCH
    MaxEntries,  \* bound on the length of an extraction's component list
    Faults       \* whether requests may fail between two database calls

ASSUME ComponentAssumption == IsFiniteSet(Component)
ASSUME NoCopyAssumption == NoCopy \notin Copy
ASSUME KindsAssumption == Kinds \subseteq {"system", "regular", "v1", "extract", "patch"}
ASSUME NewTypesAssumption == NewTypes \subseteq EventType
ASSUME PatchStatusAssumption == PatchStatus \subseteq Status
ASSUME FaultsAssumption == Faults \in BOOLEAN
ASSUME MaxEntriesAssumption == MaxEntries \in Nat

VARIABLE req     \* the local state of each request

vars == <<events, row, link, phase, req>>

Label ==
    {"idle", "findEvents", "matchTarget", "link", "create", "firstStatus",
     "matchHigher", "move", "raise", "extract", "extractMove", "markSystem",
     "nextComponent", "patch", "reopen"}

\* kind, type, impact, dates: what the client asked for.  todo: the
\* components still to be dealt with, cur: those being dealt with now (a
\* subset of todo).  old, new: the events the component leaves and joins;
\* closeOld: the flag of that name; opened: the active events a regular
\* creation has loaded before anything else.
Local == [pc : Label, kind : Kinds \cup {"none"}, type : EventType, impact : Impact,
          dates : Dates, todo : SUBSET Component, cur : SUBSET Component,
          old : Copy \cup {NoCopy}, new : Copy \cup {NoCopy},
          closeOld : BOOLEAN, opened : SUBSET Copy]

Idle == [pc |-> "idle", kind |-> "none", type |-> "incident", impact |-> 0,
         dates |-> "open", todo |-> {}, cur |-> {}, old |-> NoCopy, new |-> NoCopy,
         closeOld |-> FALSE, opened |-> {}]

\* The rows and the structs held by requests stay well formed: impacts in
\* range, schedules and events that exist (internal/db/models.go).
TypeOK ==
    /\ StoreTypeOK
    /\ req \in [Request -> Local]

Init ==
    /\ StoreInit
    /\ req = [r \in Request |-> Idle]

At(r, label) == req[r].pc = label

\* Mutant: the source event is never closed.
OneComponentNever(copy) == FALSE

\* The test of closeOld: the struct of the event has one component.
OneComponent(copy) == \E c \in copy.comps : copy.comps = {c}

\* Mutants: the impacts are not compared.
BadEnoughAlways(i, im) == TRUE
BadEnoughNever(i, im) == FALSE

\* The impact comparison of both APIs: event i stays as it is when a
\* component in it is reported with impact im.
BadEnough(i, im) == row[i].impact >= im

NonEmptySubsets(S) == (SUBSET S) \ {{}}

\* The active events component c is linked to.
Holding(c) == {i \in EventId : Active(i) /\ <<i, c>> \in link}

\* The struct after the handler has appended the components cs to it.
Joined(copy, cs) == [copy EXCEPT !.comps = @ \cup cs]

\* The components cs are dealt with: on to the next one, or the answer.
Answered(r, cs) ==
    LET left == req[r].todo \ cs
    IN  IF left = {} THEN Idle
        ELSE [req[r] EXCEPT !.todo = left, !.cur = {}, !.old = NoCopy, !.closeOld = FALSE,
                !.pc  = IF req[r].kind = "regular" THEN "nextComponent" ELSE "findEvents",
                !.new = IF req[r].kind = "regular" THEN @ ELSE NoCopy]

Answer(r) == req' = [req EXCEPT ![r] = Answered(r, req[r].cur)]

-----------------------------------------------------------------------------
(* system: handleSystemIncidentCreation *)

\* A monitoring report for the components cs.
SystemReport(r) ==
    /\ "system" \in Kinds
    /\ At(r, "idle")
    /\ \E cs \in NonEmptySubsets(Component), im \in Impact \ {0} :
          req' = [req EXCEPT ![r] = [Idle EXCEPT !.pc = "findEvents", !.kind = "system",
                                        !.impact = im, !.todo = cs]]
    /\ UNCHANGED store

\* Mutant: IsSystem is left out of the query.
SameImpactAnyOrigin(r) ==
    {i \in EventId : /\ Active(i)
                     /\ row[i].type = "incident"
                     /\ row[i].impact = req[r].impact}

\* The active system incidents with the reported impact, in a fresh GetEvents.
SameImpact(r) ==
    {i \in EventId : /\ Active(i)
                     /\ row[i].type = "incident"
                     /\ row[i].system
                     /\ row[i].impact = req[r].impact}

\* getActiveEventsForComponent and handleComponentWithExistingEvents: without
\* an event the report goes to the system incidents; a maintenance or an
\* operator's incident stops it, and so does a first system incident that is
\* already as bad as reported; otherwise the component leaves that incident.
FindEvents(r) ==
    /\ At(r, "findEvents")
    /\ \E c \in req[r].todo :
          LET found == {i \in Holding(c) : row[i].type \in {"incident", "maintenance"}}
              others == {i \in found : row[i].type = "maintenance" \/ ~row[i].system}
          IN  \/ /\ found = {}
                 /\ req' = [req EXCEPT ![r].pc = "matchTarget", ![r].cur = {c}]
              \/ /\ others # {} \/ \E i \in found : BadEnough(i, req[r].impact)
                 /\ req' = [req EXCEPT ![r] = Answered(r, {c})]
              \/ /\ others = {}
                 /\ \E i \in found :
                       /\ ~BadEnough(i, req[r].impact)
                       /\ req' = [req EXCEPT ![r].pc = "matchHigher", ![r].cur = {c},
                                             ![r].old = Load(i)]
    /\ UNCHANGED store

\* Mutant: a new incident for every component.
MatchTargetNever(r) ==
    /\ At(r, "matchTarget")
    /\ req' = [req EXCEPT ![r].pc = "create"]
    /\ UNCHANGED store

\* addComponentToSystemIncident: a system incident with the reported impact
\* takes the component, or a new one is created for it.
MatchTarget(r) ==
    /\ At(r, "matchTarget")
    /\ \/ \E i \in SameImpact(r) :
             req' = [req EXCEPT ![r].pc = "link", ![r].new = Joined(Load(i), req[r].cur)]
       \/ /\ SameImpact(r) = {}
          /\ req' = [req EXCEPT ![r].pc = "create"]
    /\ UNCHANGED store

\* The ModifyIncident that links the component (system and v1).
Link(r) ==
    /\ At(r, "link")
    /\ ModifyIncident(req[r].new)
    /\ Answer(r)

\* moveComponentFromToSystemIncidents.  closeOld looks at the components of
\* the incident the component moves TO.
MatchHigher(r) ==
    /\ At(r, "matchHigher")
    /\ \/ \E i \in SameImpact(r) :
             req' = [req EXCEPT ![r].pc = "move", ![r].new = Load(i),
                                ![r].closeOld = OneComponent(Load(i))]
       \/ /\ SameImpact(r) = {}
          /\ req' = [req EXCEPT ![r].pc = IF OneComponent(req[r].old)
                                          THEN "raise" ELSE "extract"]
    /\ UNCHANGED store

\* The ModifyIncident that makes an extracted incident a system one.
MarkSystem(r) ==
    /\ At(r, "markSystem")
    /\ ModifyIncident([req[r].new EXCEPT !.row.system = TRUE])
    /\ Answer(r)

-----------------------------------------------------------------------------
(* regular: handleRegularIncidentCreation; createEvent, also for system *)

\* An operator's event, validated (validateEventCreation), and the active
\* events loaded before it is created.
RegularCreation(r) ==
    /\ "regular" \in Kinds
    /\ At(r, "idle")
    /\ \E cs \in NonEmptySubsets(Component), t \in NewTypes, im \in Impact, d \in Dates :
          /\ (t = "incident") <=> (im # 0)
          /\ t = "incident" => d = "open"
          /\ t = "maintenance" => d # "open"
          /\ req' = [req EXCEPT ![r] = [Idle EXCEPT
                        !.pc = "create", !.kind = "regular", !.type = t, !.impact = im,
                        !.dates = d, !.todo = cs, !.cur = cs,
                        !.opened = {Load(i) : i \in {j \in EventId : Active(j)}}]]
    /\ UNCHANGED store

\* createEvent's SaveIncident; also createIncident of API v1, which stops there.
Create(r) ==
    /\ At(r, "create")
    /\ \E i \in EventId :
          LET new == [type |-> req[r].type, system |-> req[r].kind = "system",
                      impact |-> req[r].impact, status |-> NoStatus, dates |-> req[r].dates]
          IN  /\ SaveIncident(i, new, req[r].cur)
              /\ req' = [req EXCEPT ![r] =
                    IF req[r].kind = "v1" THEN Idle
                    ELSE [@ EXCEPT !.pc = "firstStatus",
                                   !.new = [id |-> i, row |-> new, comps |-> req[r].cur]]]

\* createEvent's ModifyIncident with the first status.  A regular creation
\* then moves components unless shouldSkipComponentMovement.
FirstStatus(r) ==
    LET new  == [req[r].new EXCEPT !.row.status = InitialStatus(req[r].type)]
        moves == req[r].kind = "regular" /\ req[r].opened # {} /\ req[r].impact # 0
    IN  /\ At(r, "firstStatus")
        /\ ModifyIncident(new)
        /\ IF moves
           THEN req' = [req EXCEPT ![r].pc = "nextComponent", ![r].cur = {}, ![r].new = new]
           ELSE Answer(r)

\* processComponentInOpenedIncidents: the next component leaves the first
\* loaded incident that holds it, which is closed when it was its only one.
NextComponent(r) ==
    /\ At(r, "nextComponent")
    /\ \E c \in req[r].todo :
          LET holding == {o \in req[r].opened : o.row.type = "incident" /\ c \in o.comps}
          IN  \/ /\ holding = {}
                 /\ req' = [req EXCEPT ![r] = Answered(r, {c})]
              \/ \E o \in holding :
                    req' = [req EXCEPT ![r].pc = "move", ![r].cur = {c}, ![r].old = o,
                                       ![r].closeOld = OneComponent(o)]
    /\ UNCHANGED store

-----------------------------------------------------------------------------
(* The writes of db.go that several handlers end in *)

\* MoveComponentFromOldToAnotherIncident.  A regular creation goes on with
\* the structs the function has changed.
Move(r) ==
    LET l == req[r]
        left == Left(l.cur, l.old, l.closeOld)
    IN  /\ At(r, "move")
        /\ MoveComponents(l.cur, l.old, l.new, l.closeOld)
        /\ req' = [req EXCEPT ![r] =
              IF l.kind = "regular" /\ l.todo # l.cur
              THEN [Answered(r, l.cur) EXCEPT !.opened = (@ \ {l.old}) \cup {left}]
              ELSE Answered(r, l.cur)]

\* Mutant: one level too high.
RaiseOneMore(r) ==
    /\ At(r, "raise")
    /\ ModifyIncident([req[r].old EXCEPT !.row.impact = req[r].impact + 1])
    /\ Answer(r)

\* IncreaseIncidentImpact.
Raise(r) ==
    /\ At(r, "raise")
    /\ ModifyIncident([req[r].old EXCEPT !.row.impact = req[r].impact])
    /\ Answer(r)

\* ExtractComponentsToNewIncident, outside its transaction: the new incident.
Extract(r) ==
    /\ At(r, "extract")
    /\ \E i \in EventId :
          LET new == [type |-> "incident", system |-> FALSE, impact |-> req[r].impact,
                      status |-> NoStatus, dates |-> "open"]
          IN  /\ SaveIncident(i, new, req[r].cur)
              /\ req' = [req EXCEPT ![r].pc = "extractMove",
                            ![r].new = [id |-> i, row |-> new, comps |-> req[r].cur]]

\* ... and its transaction.
ExtractMove(r) ==
    /\ At(r, "extractMove")
    /\ MoveComponents(req[r].cur, req[r].old, req[r].new, FALSE)
    /\ IF req[r].kind = "system"
       THEN req' = [req EXCEPT ![r].pc = "markSystem"]
       ELSE Answer(r)

-----------------------------------------------------------------------------
(* v1: PostComponentStatusHandler *)

\* Mutant: closeOld looks at the event the component moves to.
V1ClosesByTarget(c, im, pc, old, new) ==
    [Idle EXCEPT !.pc = pc, !.kind = "v1", !.impact = im, !.todo = {c}, !.cur = {c},
                 !.old = old, !.new = new,
                 !.closeOld = pc = "move" /\ OneComponent(new)]

\* The request for component c at label pc, with the structs it has chosen.
V1Local(c, im, pc, old, new) ==
    [Idle EXCEPT !.pc = pc, !.kind = "v1", !.impact = im, !.todo = {c}, !.cur = {c},
                 !.old = old, !.new = new,
                 !.closeOld = pc = "move" /\ OneComponent(old)]

\* One read of the active events decides everything.  A component whose
\* first event has impact 0, or an impact not below the reported one, is
\* left alone: the request answers without a step.
V1Report(r) ==
    /\ "v1" \in Kinds
    /\ At(r, "idle")
    /\ \E c \in Component, im \in Impact \ {0} :
          LET same == {i \in EventId : Active(i) /\ row[i].impact = im}
              goto(pc, old, new) == req' = [req EXCEPT ![r] = V1Local(c, im, pc, old, new)]
          IN  \/ /\ Holding(c) = {}
                 /\ \/ \E i \in same : goto("link", NoCopy, Joined(Load(i), {c}))
                    \/ same = {} /\ goto("create", NoCopy, NoCopy)
              \/ \E o \in Holding(c) :
                    /\ row[o].impact # 0 /\ ~BadEnough(o, im)
                    /\ \/ \E i \in same : goto("move", Load(o), Load(i))
                       \/ same = {} /\ goto(IF OneComponent(Load(o))
                                            THEN "raise" ELSE "extract", Load(o), NoCopy)
    /\ UNCHANGED store

-----------------------------------------------------------------------------
(* extract: PostIncidentExtractHandler *)

\* The client lists n components, possibly with repetitions: those in cs.
\* All must be in the event loaded by CheckEventExistenceMW, and n must
\* differ from the number of components of the event.
ExtractRequest(r) ==
    /\ "extract" \in Kinds
    /\ At(r, "idle")
    /\ \E i \in events : \E cs \in NonEmptySubsets(ComponentsOf(i)) : \E n \in 1..MaxEntries :
          /\ n >= Cardinality(cs)
          /\ n # Cardinality(ComponentsOf(i))
          /\ req' = [req EXCEPT ![r] = [Idle EXCEPT
                        !.pc = "extract", !.kind = "extract", !.impact = row[i].impact,
                        !.todo = cs, !.cur = cs, !.old = Load(i)]]
    /\ UNCHANGED store

-----------------------------------------------------------------------------
(* patch: PatchIncidentHandler *)

\* Mutant: an open incident may change its impact with any status, and to 0.
PatchAcceptedOpen(e, t, im, s, d) ==
    /\ (t = "incident") <=> (im # 0)
    /\ s \in PatchableStatus(e.type)
    /\ e.type = "incident" /\ e.dates # "open" =>
          /\ s \in IncidentClosedStatus
          /\ d # "open" => s = "changed"

\* checkPatchData.  t and im are the effective type and impact (the stored
\* ones when the client leaves them out); d is the schedule sent, "open" for
\* none.  An open incident ignores an end date and refuses a start date.
PatchAccepted(e, t, im, s, d) ==
    /\ (t = "incident") <=> (im # 0)
    /\ s \in PatchableStatus(e.type)
    /\ e.type = "incident" /\ e.dates # "open" =>
          /\ s \in IncidentClosedStatus
          /\ d # "open" => s = "changed"
    /\ e.type = "incident" /\ e.dates = "open" /\ im # e.impact =>
          s = IncidentImpactChanged /\ im # 0

\* updateFields, and the new status.  "resolved" takes the update date as the
\* end date, a date that has passed.
Patched(e, t, im, s, d) ==
    [e EXCEPT
        !.type = t, !.impact = im, !.status = s,
        !.dates = CASE s = "reopened" -> "open"
                    [] s = "resolved" -> "past"
                    [] OTHER -> IF d # "open" /\ (e.impact = 0 \/ @ # "open") THEN d ELSE @]

PatchRequest(r) ==
    /\ "patch" \in Kinds
    /\ At(r, "idle")
    /\ \E i \in events, im \in Impact, s \in PatchStatus, d \in Dates :
       \E t \in NewTypes \cup {row[i].type} :
          /\ PatchAccepted(row[i], t, im, s, d)
          /\ req' = [req EXCEPT ![r] = [Idle EXCEPT
                        !.pc = "patch", !.kind = "patch",
                        !.new = [Load(i) EXCEPT !.row = Patched(row[i], t, im, s, d)]]]
    /\ UNCHANGED store

\* The ModifyIncident of the handler.
Patch(r) ==
    /\ At(r, "patch")
    /\ ModifyIncident(req[r].new)
    /\ req' = [req EXCEPT ![r] = IF req[r].new.row.status = "reopened"
                                 THEN [@ EXCEPT !.pc = "reopen"] ELSE Idle]

Reopen(r) ==
    /\ At(r, "reopen")
    /\ ReOpenIncident(req[r].new.id)
    /\ req' = [req EXCEPT ![r] = Idle]

-----------------------------------------------------------------------------

\* A database call fails and the handler returns the error, or the process
\* dies: what the request has written so far stays.
Fail(r) ==
    /\ Faults
    /\ ~At(r, "idle")
    /\ req' = [req EXCEPT ![r] = Idle]
    /\ UNCHANGED store

Arrive(r) ==
    \/ SystemReport(r) \/ RegularCreation(r) \/ V1Report(r)
    \/ ExtractRequest(r) \/ PatchRequest(r)

Handle(r) ==
    \/ FindEvents(r) \/ MatchTarget(r) \/ Link(r) \/ MatchHigher(r) \/ MarkSystem(r)
    \/ Create(r) \/ FirstStatus(r) \/ NextComponent(r)
    \/ Move(r) \/ Raise(r) \/ Extract(r) \/ ExtractMove(r)
    \/ Patch(r) \/ Reopen(r)

Next ==
    \/ \E r \in Request : Arrive(r) \/ Handle(r) \/ Fail(r)
    \/ \E w \in Window : ClockMoves(w) /\ UNCHANGED req

Spec == Init /\ [][Next]_vars

-----------------------------------------------------------------------------
(* Properties *)

Quiet == \A r \in Request : At(r, "idle")

IncidentsOf(c) == {i \in Holding(c) : row[i].type = "incident"}

\* The row and the relations of event i stay as they are in a step.
Untouched(i) == row'[i] = row[i] /\ ComponentsOf(i)' = ComponentsOf(i)

\* A component that is linked to some event stays linked to some event: every
\* relation a move or an extraction deletes comes with one that it adds, in
\* the same transaction, even when a stale copy makes source and target the
\* same event (MoveComponentFromOldToAnotherIncident deletes before it saves).
NoComponentLost ==
    [][\A c \in Component :
          (\E i \in EventId : <<i, c>> \in link) => (\E i \in EventId : <<i, c>> \in link')]_vars

\* When a monitoring report has dealt with a component, the component is in an
\* active maintenance, in an active incident of an operator, or in an active
\* system incident at least as bad as reported (handleSystemIncidentCreation).
ReportCovered ==
    [][\A r \in Request, c \in Component, im \in Impact :
          /\ req[r].kind = "system" /\ req[r].impact = im
          /\ c \in req[r].todo /\ c \notin req'[r].todo
          => \E i \in EventId :
                (/\ Active(i)
                 /\ c \in ComponentsOf(i)
                 /\ row[i].type = "maintenance" \/ ~row[i].system \/ row[i].impact >= im)']_vars

\* A monitoring report leaves alone every event that is not a system incident,
\* except the one it is extracting (docs/v2/v2_system_incident_creation.md,
\* "Prevents automated systems from interfering with incident response").
OperatorEventsUntouched ==
    [][\A r \in Request : req[r].kind = "system" /\ req'[r] # req[r] =>
          \A i \in events :
             \/ row[i].system
             \/ At(r, "extractMove") /\ i = req[r].new.id
             \/ At(r, "markSystem")  /\ i = req[r].new.id
             \/ Untouched(i)]_vars

\* Monitoring (system and v1) never makes the component it reports better off:
\* after each step it is in an active incident at least as bad as before.
ReportNeverDowngrades ==
    [][\A r \in Request, c \in Component, im \in Impact :
          /\ req[r].kind \in {"system", "v1"} /\ req'[r] # req[r]
          /\ c \in req[r].cur
          /\ \E i \in IncidentsOf(c) : row[i].impact >= im
          => (\E i \in IncidentsOf(c) : row[i].impact >= im)']_vars

\* A move closes an event only when the component it moves is the last one
\* there: the components that stay behind keep their open incident.
ClosedOnlyWhenEmptied ==
    [][\A r \in Request, i \in EventId :
          /\ At(r, "move") /\ req'[r] # req[r]
          /\ row[i].dates = "open" /\ row'[i].dates # "open"
          => ComponentsOf(i) = req[r].cur]_vars

\* Between requests a component is in at most one active incident.
OneActiveIncident ==
    Quiet => \A c \in Component : \A i, j \in IncidentsOf(c) : i = j

\* Between requests there is at most one active system incident per impact,
\* the one that takes further components.
OneSystemIncidentPerImpact ==
    LET systemIncidents == {i \in EventId : Active(i) /\ row[i].type = "incident"
                                                       /\ row[i].system}
    IN  Quiet => \A i, j \in systemIncidents : row[i].impact = row[j].impact => i = j

\* An open event always affects some component: the last one leaves it only
\* when it is closed, and an extraction keeps one (PostIncidentExtractHandler,
\* "can not move all components to the new incident, keep at least one").
OpenEventsHaveComponents ==
    \A i \in events : row[i].dates = "open" => ComponentsOf(i) # {}

\* An event has impact 0 exactly when it is a maintenance or an information
\* (ErrIncidentTypeImpactMismatch in internal/api/errors/incident.go, checked
\* when an event is created and when it is patched).
TypeImpactAgree ==
    \A i \in events : (row[i].type = "incident") <=> (row[i].impact # 0)

\* The end date of an event, once set, is cleared by ReOpenIncident ("the
\* special function if you need to NULL your end_date", internal/db/db.go), or
\* by the Save of a move or an extraction that holds a struct without one.
EndDateClearedOnlyByReopen ==
    [][\A i \in events :
          row[i].dates # "open" /\ row'[i].dates = "open" =>
             \E r \in Request :
                \/ At(r, "reopen") /\ req[r].new.id = i
                \/ /\ At(r, "move") \/ At(r, "extractMove")
                   /\ \E copy \in {req[r].old, req[r].new} :
                         copy.id = i /\ copy.row.dates = "open"]_vars

Page == INSTANCE Board WITH Event <- EventId, listed <- events, affects <- link

\* The handlers of both APIs implement Board: interleaved and failing in any
\* way they withdraw no event, open none without components, and take a
\* component out of one only in the transaction that puts it into another.
KeepsBoard == Page!Spec
=============================================================================
