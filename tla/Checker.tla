------------------------------- MODULE Checker --------------------------------
(***************************************************************************)
(* The background checker (internal/checker).  Every two minutes it starts *)
(* one goroutine for the maintenances and one for the information events,  *)
(* waits for both, and so never overlaps with itself.  A goroutine (a      *)
(* watcher here, named after the type of events it watches) lists the      *)
(* events from the id it remembers on, works out from the schedule of each *)
(* what its status should be, adds the statuses its history misses and     *)
(* writes the struct back.  The id it remembers lives in memory only.      *)
(*                                                                         *)
(* Meanwhile operators create and patch such events: between the read and  *)
(* the write of a watcher the handlers of API v2 run, and conversely.      *)
(*                                                                         *)
(* Dates and the clock are natural numbers.  Whether the clock can read    *)
(* exactly a date of a schedule is decided by the constants: a run whose   *)
(* Instants avoid its dates has no such coincidence.                       *)
(***************************************************************************)
EXTENDS Naturals, FiniteSets, FiniteSetsExt, Sequences, EventStatus

CONSTANTS
    Watched,     \* the watchers, by the type of the events they watch
    Request,     \* concurrent HTTP requests
    MaxId,       \* bound on the ids the table hands out
    StartDates,  \* start dates the clients choose
    EndDates,    \* end dates the clients choose; NoEnd for none
    Instants,    \* what the clock can read
    NewTypes,    \* types of the events created
    PatchTypes,  \* types operators PATCH an event to
    PatchStatus, \* statuses operators PATCH
    PatchDates,  \* whether a PATCH may change the dates
    MaxPatches,  \* bound on the number of PATCHes
    MaxFaults    \* bound on the number of restarts and failed checks

NoEnd == 0       \* a nil end date

ASSUME WatchedAssumption == Watched \subseteq {"maintenance", "info"}
ASSUME TypesAssumption == NewTypes \cup PatchTypes \subseteq {"maintenance", "info"}
ASSUME PatchStatusAssumption == PatchStatus \subseteq MaintenanceStatus \cup InformationStatus
ASSUME DatesAssumption ==
    /\ StartDates \subseteq Nat \ {NoEnd}
    /\ EndDates \subseteq Nat
    /\ Instants \subseteq Nat
ASSUME BoundsAssumption ==
    /\ MaxId \in Nat /\ MaxPatches \in Nat /\ MaxFaults \in Nat
    /\ PatchDates \in BOOLEAN

VARIABLES
    nextId,      \* the sequence of the incident table
    row,         \* the committed rows, by id
    now,         \* the clock
    req,         \* the local state of each request
    watcher,     \* the local state of each goroutine of the checker
    last,        \* lastMntID and lastInfoID
    patches,     \* PATCHes so far
    faults       \* restarts and failed checks so far

vars == <<nextId, row, now, req, watcher, last, patches, faults>>

Id == 1..MaxId
Ids == DOMAIN row

Row == [type : {"maintenance", "info"}, start : StartDates, end : EndDates,
        status : Status, history : Seq(Status)]

Copy == [id : Id, row : Row]

IdleWatcher == [pc |-> "idle", list |-> {}, seen |-> {}, active |-> {}]
IdleRequest == [pc |-> "idle", copy |-> {}]

\* Rows are visible only under ids the sequence has handed out, and the ids a
\* watcher works through and remembers are those of visible rows (Checker,
\* GetMaintenances).
TypeOK ==
    /\ nextId \in 1..(MaxId + 1)
    /\ Ids \subseteq 1..(nextId - 1)
    /\ \A i \in Ids : row[i] \in Row
    /\ now \in Instants \cup {0}
    /\ \A r \in Request : /\ req[r].pc \in {"idle", "commit", "firstStatus", "patch"}
                          /\ req[r].copy \subseteq Copy
    /\ \A k \in Watched : /\ watcher[k].pc \in {"idle", "read", "work"}
                          /\ watcher[k].list \subseteq Copy
                          /\ {copy.id : copy \in watcher[k].list} \subseteq watcher[k].seen
                          /\ watcher[k].active \subseteq watcher[k].seen
                          /\ watcher[k].seen \subseteq Ids
                          /\ last[k] \in Ids \cup {0}
    /\ patches \in 0..MaxPatches
    /\ faults \in 0..MaxFaults

Init ==
    /\ nextId = 1
    /\ row = << >>
    /\ now = 0
    /\ req = [r \in Request |-> IdleRequest]
    /\ watcher = [k \in Watched |-> IdleWatcher]
    /\ last = [k \in Watched |-> 0]
    /\ patches = 0
    /\ faults = 0

In(s, history) == \E n \in DOMAIN history : history[n] = s

\* Mutant: the history of the struct is written for the one that is stored.
ModifyReplaces(copy, added) ==
    row' = [row EXCEPT ![copy.id] =
              [copy.row EXCEPT !.end = IF @ = NoEnd THEN row[copy.id].end ELSE @,
                               !.status = IF @ = NoStatus THEN row[copy.id].status ELSE @,
                               !.history = @ \o added]]

\* gorm's Updates: the non-zero fields of the struct, and the new statuses.
\* The rest of the history stays as it is stored.
ModifyIncident(copy, added) ==
    row' = [row EXCEPT ![copy.id] =
              [copy.row EXCEPT !.end = IF @ = NoEnd THEN row[copy.id].end ELSE @,
                               !.status = IF @ = NoStatus THEN row[copy.id].status ELSE @,
                               !.history = row[copy.id].history \o added]]

-----------------------------------------------------------------------------
(* The handlers of API v2 *)

Working(r, pc, i, e) == req' = [req EXCEPT ![r] = [pc |-> pc, copy |-> {[id |-> i, row |-> e]}]]
Done(r) == req' = [req EXCEPT ![r] = IdleRequest]

\* createEvent: the insert takes an id from the sequence ...
Insert(r) ==
    /\ req[r].pc = "idle"
    /\ nextId \in Id
    /\ \E t \in NewTypes, s \in StartDates, e \in EndDates :
          /\ t = "maintenance" => e # NoEnd
          /\ Working(r, "commit", nextId, [type |-> t, start |-> s, end |-> e,
                                           status |-> NoStatus, history |-> << >>])
    /\ nextId' = nextId + 1
    /\ UNCHANGED <<row, now, watcher, last, patches, faults>>

\* ... its commit makes the row visible ...
Commit(r) ==
    /\ req[r].pc = "commit"
    /\ \E copy \in req[r].copy :
          /\ row' = [i \in Ids \cup {copy.id} |-> IF i = copy.id THEN copy.row ELSE row[i]]
          /\ Working(r, "firstStatus", copy.id, [copy.row EXCEPT !.status = InitialStatus(copy.row.type)])
    /\ UNCHANGED <<nextId, now, watcher, last, patches, faults>>

\* ... and a second transaction adds the first status.
FirstStatus(r) ==
    /\ req[r].pc = "firstStatus"
    /\ \E copy \in req[r].copy : ModifyIncident(copy, <<copy.row.status>>)
    /\ Done(r)
    /\ UNCHANGED <<nextId, now, watcher, last, patches, faults>>

\* PatchIncidentHandler reads the event and checks the request against it.
\* Events of these types may get any dates at any time.
PatchRequest(r) ==
    /\ req[r].pc = "idle"
    /\ patches < MaxPatches
    /\ \E i \in Ids, s \in PatchStatus :
       \E t \in PatchTypes \cup {row[i].type} :
       \E d \in {row[i].start} \cup (IF PatchDates THEN StartDates ELSE {}) :
       \E e \in {row[i].end} \cup (IF PatchDates THEN EndDates \ {NoEnd} ELSE {}) :
          /\ s \in PatchableStatus(row[i].type)
          /\ Working(r, "patch", i, [row[i] EXCEPT !.type = t, !.start = d, !.end = e,
                                                   !.status = s])
    /\ patches' = patches + 1
    /\ UNCHANGED <<nextId, row, now, watcher, last, faults>>

Patch(r) ==
    /\ req[r].pc = "patch"
    /\ \E copy \in req[r].copy : ModifyIncident(copy, <<copy.row.status>>)
    /\ Done(r)
    /\ UNCHANGED <<nextId, now, watcher, last, patches, faults>>

-----------------------------------------------------------------------------
(* The checker *)

\* The status of a running event of type k.
Running(k) == IF k = "maintenance" THEN MaintenanceInProgress ELSE "active"

\* Mutant: the history is not asked for a cancellation.
StatusIgnoresCancelled(k, e) ==
    IF e.start > now THEN "planned"
    ELSE IF e.end > now THEN Running(k) ELSE "completed"

\* calculateCurrentMntStatus.  It compares strictly on both sides: an event
\* that starts exactly now is completed.
CurrentMntStatus(e) ==
    CASE In("cancelled", e.history) -> "cancelled"
      [] ~In("cancelled", e.history) /\ e.start > now -> "planned"
      [] ~In("cancelled", e.history) /\ e.start < now /\ e.end > now -> MaintenanceInProgress
      [] OTHER -> "completed"

\* calculateCurrentInfoStatus: an information without end date stays active.
CurrentInfoStatus(e) ==
    CASE In("cancelled", e.history) -> "cancelled"
      [] ~In("cancelled", e.history) /\ e.start > now -> "planned"
      [] ~In("cancelled", e.history) /\ e.start < now /\ (e.end = NoEnd \/ e.end > now) -> "active"
      [] OTHER -> "completed"

CurrentStatus(k, e) ==
    IF k = "maintenance" THEN CurrentMntStatus(e) ELSE CurrentInfoStatus(e)

\* The end date is dereferenced: without one, for a maintenance that has
\* started, and when a completed status is dated.
NilDereference(k, e) ==
    /\ e.end = NoEnd
    /\ ~In("cancelled", e.history)
    /\ \/ k = "maintenance" /\ e.start < now
       \/ CurrentStatus(k, e) = "completed" /\ ~In("completed", e.history)

Unless(condition, s) == IF condition THEN << >> ELSE <<s>>

\* Mutants: the history is not looked at; the chain is not followed.
MissedAgain(k, s, history) ==
    <<"planned">> \o Unless(s \notin {Running(k), "completed"}, Running(k))
                  \o Unless(s # "completed", "completed")
MissedLastOnly(k, s, history) ==
    IF s = "cancelled" THEN << >> ELSE Unless(In(s, history), s)

\* fixMntMissedStatuses and fixInfoMissedStatuses: of the statuses an event of
\* type k goes through up to s, those the history lacks.
MissedStatuses(k, s, history) ==
    Unless(In("planned", history), "planned")
    \o Unless(s \notin {Running(k), "completed"} \/ In(Running(k), history), Running(k))
    \o Unless(s # "completed" \/ In("completed", history), "completed")

\* Mutant: start from the latest active event instead of the earliest.
LatestActive(k, active, seen) ==
    IF active = {} THEN Max(seen \cup {last[k]}) ELSE Max(active)

\* Mutant: the event after the last one that was seen.
AfterSeen(k, active, seen) ==
    IF active = {} THEN Max(seen \cup {last[k]}) + 1 ELSE Min(active)

\* The id to start the next check from.
NextLast(k, active, seen) ==
    IF active = {} THEN Max(seen \cup {last[k]}) ELSE Min(active)

\* Checker.Check, on a tick, once both goroutines of the last one are done.
Tick ==
    /\ \A k \in Watched : watcher[k].pc = "idle"
    /\ watcher' = [k \in Watched |-> [IdleWatcher EXCEPT !.pc = "read"]]
    /\ UNCHANGED <<nextId, row, now, req, last, patches, faults>>

\* GetMaintenances and GetInfoEvents: the events from the remembered id on.
Listed(k) == {i \in Ids : row[i].type = k /\ i >= last[k]}

Read(k) ==
    LET ids == Listed(k)
    IN  /\ watcher[k].pc = "read"
        /\ watcher' = [watcher EXCEPT ![k] =
              IF ids = {} THEN IdleWatcher
              ELSE [pc |-> "work", list |-> {[id |-> i, row |-> row[i]] : i \in ids},
                    seen |-> ids, active |-> {}]]
        /\ UNCHANGED <<nextId, row, now, req, last, patches, faults>>

\* The event with the highest id on the list of a watcher.
Highest(k) == {copy \in watcher[k].list : \A other \in watcher[k].list : other.id <= copy.id}

\* One turn of the loop: the status, the history, the write.  The row of a
\* maintenance gets the status; an information keeps the one it was read with.
\* After the last event the id is moved on.
CheckNext(k) ==
    /\ watcher[k].pc = "work"
    /\ \E copy \in Highest(k) :
          LET w      == watcher[k]
              status == CurrentStatus(k, copy.row)
              active == w.active \cup (IF status \in {"planned", Running(k)} THEN {copy.id} ELSE {})
              rest   == w.list \ {copy}
          IN  /\ ~NilDereference(k, copy.row)
              /\ ModifyIncident([copy EXCEPT !.row.status = IF k = "maintenance" THEN status ELSE @],
                                MissedStatuses(k, status, copy.row.history))
              /\ IF rest = {}
                 THEN /\ watcher' = [watcher EXCEPT ![k] = IdleWatcher]
                      /\ last' = [last EXCEPT ![k] = NextLast(k, active, w.seen)]
                 ELSE /\ watcher' = [watcher EXCEPT ![k].list = rest, ![k].active = active]
                      /\ UNCHANGED last
    /\ UNCHANGED <<nextId, now, req, patches, faults>>

\* A query fails: the check returns the error and the id stays.
CheckFails(k) ==
    /\ watcher[k].pc # "idle"
    /\ faults < MaxFaults
    /\ faults' = faults + 1
    /\ watcher' = [watcher EXCEPT ![k] = IdleWatcher]
    /\ UNCHANGED <<nextId, row, now, req, last, patches>>

\* The process is gone and started again.
ProcessLost ==
    /\ req' = [r \in Request |-> IdleRequest]
    /\ watcher' = [k \in Watched |-> IdleWatcher]
    /\ last' = [k \in Watched |-> 0]
    /\ UNCHANGED <<nextId, row, now, patches>>

Restart ==
    /\ faults < MaxFaults
    /\ faults' = faults + 1
    /\ ProcessLost

\* A nil dereference in a goroutine of the checker ends the process.
Panic(k) ==
    /\ watcher[k].pc = "work"
    /\ \E copy \in Highest(k) : NilDereference(k, copy.row)
    /\ ProcessLost
    /\ UNCHANGED faults

ClockTicks ==
    /\ \E t \in Instants : t > now /\ now' = t
    /\ UNCHANGED <<nextId, row, req, watcher, last, patches, faults>>

Next ==
    \/ \E r \in Request : Insert(r) \/ Commit(r) \/ FirstStatus(r) \/ PatchRequest(r) \/ Patch(r)
    \/ \E k \in Watched : Read(k) \/ CheckNext(k) \/ CheckFails(k) \/ Panic(k)
    \/ Tick \/ Restart \/ ClockTicks

Spec == Init /\ [][Next]_vars

\* The ticker ticks, and a check that has been started goes on.
FairSpec ==
    /\ Spec
    /\ WF_vars(Tick)
    /\ \A k \in Watched : WF_vars(Read(k)) /\ WF_vars(CheckNext(k)) /\ WF_vars(Panic(k))

-----------------------------------------------------------------------------
(* Properties *)

EventsOf(k) == {i \in Ids : row[i].type = k}

\* "lastIDs are the earliest planned or in progress maintenance/info events
\* ID" (Checker): an event with a lower id is over, so skipping it is safe.
NothingActiveIsSkipped ==
    \A k \in Watched : \A i \in EventsOf(k) :
        i < last[k] => CurrentStatus(k, row[i]) \in {"completed", "cancelled"}

Occurrences(s, history) == Cardinality({n \in DOMAIN history : history[n] = s})

\* However often it runs, fails or is restarted, the checker records that an
\* event is running, and that it is over, once (fixMntMissedStatuses).
RecordedOnce ==
    \A i \in Ids : \A s \in {MaintenanceInProgress, "active", "completed"} :
        Occurrences(s, row[i].history) <= 1

Earlier(h, s, n) == \E m \in 1..(n - 1) : h[m] = s

\* No "completed" without an earlier "in progress" (or "active"), none of
\* these without an earlier "planned".
Ordered(h) ==
    \A n \in DOMAIN h :
        /\ h[n] \in {MaintenanceInProgress, "active"} => Earlier(h, "planned", n)
        /\ h[n] = "completed" => Earlier(h, MaintenanceInProgress, n) \/ Earlier(h, "active", n)

\* A history tells the life of an event in order, whoever has written to it
\* (fixMntMissedStatuses, fixInfoMissedStatuses).
HistoryInOrder == \A i \in Ids : Ordered(row[i].history)

\* The status an event shows is one its history tells, although the checker,
\* the PATCHes and the late first status each write a status computed from an
\* older copy and add to the history what that copy lacked (ModifyIncident).
StatusIsTold ==
    \A i \in Ids : row[i].status # NoStatus => In(row[i].status, row[i].history)

\* What the history of event i tells, in the words of LifeCycle.
Told(i) ==
    LET Says(s) == i \in Ids /\ In(s, row[i].history)
    IN  {n \in {"planned", "completed", "cancelled"} : Says(n)}
        \cup (IF Says(MaintenanceInProgress) \/ Says("active") THEN {"running"} ELSE {})

Page == INSTANCE LifeCycle WITH Event <- Id, told <- [i \in Id |-> Told(i)]

\* The checker and the handlers together tell each life in order and take
\* nothing back, although they write structs read before others wrote.
TellsEachLife == Page!Spec

Recorded(s, i) == i \in Ids /\ In(s, row[i].history)

\* An event whose end date has passed gets its "completed" (unless it is
\* cancelled), whatever the ids, failed checks and restarts in between.
EventuallyCompleted ==
    \A i \in Id :
        (i \in Ids /\ row[i].end \in 1..(now - 1))
            ~> (Recorded("completed", i) \/ Recorded("cancelled", i))

\* Once an operator has cancelled a maintenance it stays out of the active
\* list from some point on, even though a check that was running may have
\* written an older status over the PATCH.
CancelledSticks ==
    \A i \in Id :
        (Recorded("cancelled", i) /\ row[i].type = "maintenance")
            ~> [](i \in Ids /\ row[i].status \in {"cancelled", "completed"})
===============================================================================
