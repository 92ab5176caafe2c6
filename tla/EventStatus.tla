----------------------------- MODULE EventStatus -----------------------------
(***************************************************************************)
(* The event vocabulary of internal/event/event.go: the three event types  *)
(* and, for each of them, the statuses an operator or the software may     *)
(* give it.  The empty status is the one of an event whose row has been    *)
(* saved and whose first status has not (db.Incident.Status before         *)
(* createEvent's second write, and for ever in API v1).                    *)
(***************************************************************************)

EventType == {"incident", "maintenance", "info"}

IncidentImpactChanged == "impact changed"

IncidentOpenStatus ==
    {"detected", "analysing", "fixing", IncidentImpactChanged, "observing", "resolved"}

IncidentClosedStatus == {"reopened", "changed"}

MaintenanceInProgress == "in progress"

MaintenanceStatus ==
    {"planned", MaintenanceInProgress, "modified", "completed", "cancelled"}

InformationStatus == {"planned", "active", "completed", "cancelled"}

NoStatus == ""

Status == {NoStatus} \cup IncidentOpenStatus \cup IncidentClosedStatus
            \cup MaintenanceStatus \cup InformationStatus

\* The statuses that take an event with an end date out of the active list.
OverStatus == {"resolved", "completed", "cancelled"}

\* The statuses a PATCH may give to an event stored with type t.
PatchableStatus(t) ==
    CASE t = "incident"    -> IncidentOpenStatus \cup IncidentClosedStatus
      [] t = "maintenance" -> MaintenanceStatus
      [] t = "info"        -> InformationStatus

\* The status createEvent gives to a new event of type t.
InitialStatus(t) == IF t = "incident" THEN "detected" ELSE "planned"
=============================================================================
