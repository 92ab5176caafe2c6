# Status Dashboard: TLA+ models, checks and proofs

The status dashboard keeps a list of *events* (incidents, maintenances,
information events) about *components* of a cloud, and shows which of them are
active. It is a Go service: a gin HTTP server, a PostgreSQL database behind
GORM, and a background checker. This directory models the parts of it that keep
or change state, checks the models with TLC and proves the central properties
with TLAPS. Source paths below are relative to the root of the repository.

Contents: [1 the system](#1-the-system-and-its-parts) ·
[2 modules](#2-the-modules) · [3 runs](#3-the-runs) ·
[4 what disagrees with the documents](#4-where-code-and-documents-disagree) ·
[5 fairness](#5-fairness) · [6 proofs](#6-the-proofs) ·
[7 abstractions and bounds](#7-abstractions-and-bounds) ·
[8 not modelled](#8-what-is-not-modelled) · [9 plan](#9-plan)

## 1. The system and its parts

| part | where | state it keeps | what it does |
|---|---|---|---|
| event vocabulary | `internal/event` | none | types, statuses, which status suits which type |
| event store | `internal/db` | tables `incident`, `incident_status`, `incident_component_relation`, `component`, `component_attribute` | queries, and writes of one transaction each |
| API v2 | `internal/api/v2` | none between requests | creation (operators and monitoring), PATCH, extraction, update texts, components, availability, listings |
| API v1 | `internal/api/v1` | none between requests | monitoring reports on a component (`PostComponentStatusHandler`), two listings |
| routes, middleware | `internal/api` | none | loads the event of `/events/:id`, validates components, authentication, error mapping |
| checker | `internal/checker` | `lastMntID`, `lastInfoID` in memory | every two minutes completes the history of maintenances and information events and moves their status on |
| authentication | `internal/api/auth` | `internalStorage`: tokens by code challenge; the public key of the realm; both in memory | login through Keycloak, hand-over of tokens to the front end, signatures of requests |
| RSS | `internal/rss`, `internal/api/rss` | none | feeds of events |
| process | `cmd`, `internal/app` | the server, the checker and its stop channel | start, signals, shutdown |
| configuration | `internal/conf` | none after the start | reads the environment |

**How they interact.** Every handler works in the same way: it reads events
into Go structs (one query or several), decides, changes the structs and hands
them to a function of `db.go`, possibly several times. gin serves each request
in a goroutine of its own, and neither the handlers nor the queries take a lock
or compare versions. So requests meet in the tables only, and each may work on
structs that are out of date. The checker is one more such reader and writer:
two goroutines, one for each type of event it watches, which read a list of
events, work out what each history lacks and write the structs back. Requests
that log in meet in the memory of the process instead, and all of them, the
checker and `main` share its life.

**What makes it hard.** (a) GORM's two writes differ: `Updates` writes the
non-zero fields of a struct, `Save` all of them, and both only ever *add*
component relations; (b) handlers make several writes without a transaction
around them, so that a failure leaves what has been done; (c) a sequence of
reports merges, splits, raises and closes incidents, by the number of
components each of several structs holds; (d) the checker forgets everything
below an id it remembers, while ids may become visible out of order and dates
change; (e) clock comparisons are strict on both sides; (f) what is looked for
and then inserted, read and then deleted, counted and then fetched, or looked
at and then edited by position, is two steps; (g) shutdown is a chain of a
cancelled context, an unbuffered channel and a shared error variable.

**What makes it correct.** For each part:

* *placement of components*: a component in an event never falls out of all
  events; after a report it is covered by an event at least as bad; an event is
  closed only with its last component and an open one always has one; events of
  operators are left alone by monitoring; there is one system incident per
  impact;
* *fields of an event*: type and impact agree; only a reopening clears an end
  date; no event becomes one that the feed cannot show;
* *checker*: no active event is forgotten; each history tells planned, running,
  completed in that order and once, and every status an event shows; whatever is
  over is completed at last; a cancellation stands;
* *catalogue*: one component per name and region, but for overlapping requests;
  a component that has been created is found; none comes in by reference;
* *availability*: it is the share of hours without an outage;
* *listings and updates*: pages together miss nothing; an update edited by its
  position is the one the client saw, and the edit stays;
* *logins*: a token is handed out once; it is lost only by reuse of its
  challenge; a trusted key is replaced only by requests that came before there
  was one;
* *process*: a clean exit cuts off neither a request nor a check; the database
  outlives the checker; a signal ends the process.

`PROJECT.json` lists the hazards of the code line by line, each with the
properties that cover it.

## 2. The modules

```
EventStatus ─> EventStore ─> Placement ─> Feed ─> MCPlacement            5 configurations
     │                 Board <┘  └─> PlacementProofs ─> BoardProofs
     │          (implemented by)        Feed, BoardProofs ─> RequestProofs
     └───────> Checker ─> MCChecker                                      4 configurations
             LifeCycle <┘   └─> CheckerProofs
Process ─> Login ─> Server (checked itself)                              1 configuration
                       └─> ServerProofs
Catalogue ─┐
Availability ─> Components ─> MCComponents                               1 configuration
                       └─> ComponentsProofs
Pages ─┐
Updates ─> Listings ─> MCListings                                        1 configuration
                └─> ListingsProofs
```

`FiniteLemmas` has the facts about numbers and finite sets that the proofs of
Checker, Components and Listings share.

Arrows are `EXTENDS`, except those to `Board` and `LifeCycle`, the abstract
specifications, which `Placement` and `Checker` instantiate (`Page == INSTANCE
... WITH ...`). Modules named `MC...` add symmetry sets and a calendar.
Definitions that follow a comment "Mutant" are not part of the models: they are
wrong variants of the definition after them, and each shows that some property
would notice that mistake.

**EventStatus** is `internal/event/event.go`: the types, the statuses by type,
and what `createEvent`, `validateStatusesPatch` and the `IsActive` filter make
of them.

**EventStore** is the part of `internal/db/db.go` that writes incidents.
`events`, `row` and `link` are the `incident` table and the relation table;
`phase` is where the clock stands in each schedule. A `Copy` is a
`db.Incident` struct in the hands of a handler: the row and the components with
which it was loaded. `SaveIncident`, `ModifyIncident`, `ReOpenIncident` and
`MoveComponents` are the transactions of the functions of these names
(`MoveComponents` is the transaction that
`MoveComponentFromOldToAnotherIncident` and `ExtractComponentsToNewIncident`
share). `NonZeroFields` is what `Updates` leaves in a row: `system = false`, an
empty status and a nil end date are not written, but the impact, a pointer, is.

**Placement** has one process per request, `req[r]`, whose `pc` names the next
database call and whose other fields are the handler's local structs. Each
action is one call and the computation up to the next.

| action | code |
|---|---|
| `SystemReport`, `FindEvents`, `MatchTarget`, `Link`, `MatchHigher`, `MarkSystem` | `handleSystemIncidentCreation`, `processSystemIncidentComponent`, `addComponentToSystemIncident`, `moveComponentFromToSystemIncidents` (v2) |
| `RegularCreation`, `Create`, `FirstStatus`, `NextComponent` | `handleRegularIncidentCreation`, `createEvent`, `processComponentMovement` (v2) |
| `V1Report` (with `Link`, `Create`, `Move`, `Raise`, `Extract`) | `PostComponentStatusHandler`, `createIncident`, `MoveIncidentToHigherImpact` (v1) |
| `ExtractRequest`, `Extract`, `ExtractMove` | `PostIncidentExtractHandler` (v2), `ExtractComponentsToNewIncident` |
| `PatchRequest`, `Patch`, `Reopen` | `PatchIncidentHandler` (v2) with `checkPatchData` and `updateFields` |
| `Move`, `Raise` | `MoveComponentFromOldToAnotherIncident`, `IncreaseIncidentImpact` |
| `Fail` | a call returns an error, or the process dies: the request is over, its writes stay |
| `ClockMoves` | the clock enters or leaves a schedule |

`closeOld` is computed where the code does: in `MatchHigher` from the incident
the component moves *to*, in `NextComponent` and `V1Report` from the one it
leaves.

**Board** is what a reader of the status page may rely on: events are listed
and never withdrawn, each with components, which may be joined by others; a
component leaves an event only by being transferred in the same instant.
`Placement` implements it with `listed <- events`, `affects <- link`.

**Feed** says which events the feed of `internal/rss/rss.go` can show: it takes
the first component of an incident and the end date of a maintenance unasked.

**Checker** has the two goroutines (`watcher[k]`), the remembered ids (`last`),
the rows with their histories, and the handlers that touch the same rows:
creation in three steps (`Insert` takes an id from the sequence, `Commit` makes
the row visible, `FirstStatus` is the second transaction) and PATCH in two
(`PatchRequest`, `Patch`). `Tick` is `Checker.Check`, `Read` the query, each
`CheckNext` one turn of the loop with its write, `CheckFails` a query that
fails, `Restart` the loss of the process, `Panic` the nil dereference of a
missing end date, which also ends the process.

**LifeCycle** is the life of a scheduled event as it is told: planned, running,
completed, in that order, several at once if need be, cancelled at any time,
and nothing taken back. `Checker` implements it; `Told` reads the history.

**Process** is `cmd/main.go` with `internal/app` and `Checker.Run`/`Shutdown`:
`main`, `server` and `checker` say where these goroutines are. `Start` may yield
no checker (`main` only logs that), and then `RunChecker` panics. `StopServer`
and `Drain` are `http.Server.Shutdown` under the context the signal has already
cancelled: a request in flight is an error at once. `Drain` may end the process
without one, too: the goroutine that runs the server assigns the same `err`.
`Handshake` is the send on the unbuffered channel, which meets `Run` in its
`select` only. `Boot` is a supervisor outside the repository.

**Login** is the memory of `internal/api/auth`. A token passes `Exchange`,
`PutToken`, `GetToken` and `DeleteToken`, the last two under two locks. The
realm's key passes `ReadKey`, `FetchKey`, `CacheKey`; `Judge` is the signature
and the groups. `Rotate` is Keycloak. **Server** puts both together: a request
lives from `Accept` to the step that answers it, `Restart` is `Boot` and
`Forget`.

**Catalogue** is `SaveComponent` in its two queries, the attribute lookup, and
`ValidateComponentsMW`, which alone keeps GORM from inserting the nameless
structs by which a new event refers to its components (`UpsertComponents`).
**Availability** is `calculateAvailability` as pure operators over a calendar.
**Components** creates incidents of components, closes them and lets time pass.

**Pages** is `GetEventsHandler` with `GetEventsWithCount`, and a client that
asks for page after page; a count and a fetch are two steps. **Updates** has the
rows of `incident_status` of one event: writers that load the event, lock its
row, insert a status and commit; a client that looks at the updates and edits
one by its number. **Listings** puts both together.

## 3. The runs

Passing:

| run | question | properties beside `TypeOK` | states |
|---|---|---|---|
| `PlacementReports` | sequences of reports, operators' events and resolutions, one request at a time, a schedule that begins and ends | `OneActiveIncident`, `OneSystemIncidentPerImpact`, `ReportCovered`, `OperatorEventsUntouched`, `ReportNeverDowngrades` | 212 k |
| `PlacementMoves` | moves, extractions and PATCHes by v1 and by operators, failing anywhere | `OpenEventsHaveComponents`, `ClosedOnlyWhenEmptied`, `ReportNeverDowngrades`, `FeedStaysReadable` | 1,402 k |
| `PlacementRaces` | two requests interleaved at each database call, failing anywhere | `NoComponentLost`, `KeepsBoard` | 929 k |
| `PlacementPatches` | two requests on the same events: PATCHes against each other and against the moves and raises of v1 reports | `TypeImpactAgree`, `EndDateClearedOnlyByReopen` | 1,278 k |
| `CheckerSafety` | checks against creations, cancellations, a failed check or a restart | `NothingActiveIsSkipped`, `RecordedOnce`, `TellsEachLife` | 564 k |
| `CheckerPatches` | dates, types and statuses change under both goroutines; end dates may be missing, the process may panic | `HistoryInOrder`, `StatusIsTold`, `TellsEachLife` | 290 k |
| `CheckerLiveness` | under fairness, with a failure and a cancellation | `EventuallyCompleted`, `CancelledSticks` | 148 k |
| `Server` | two requests log in, fetch tokens and are authenticated while the process starts, is signalled, fails and is started again | `CleanExit`, `DatabaseOutlivesChecker`, `SignalEndsProcess`, `NotHandedOutAgain`, `LostOnlyByReuse`, `TrustedKeyStays` | 354 k |
| `Components` | two requests create components and incidents of them in a calendar of three months | `TwinsOnlyFromRaces`, `CreatedIsFound`, `NoComponentByReference`, `AvailabilityExact` | 766 k |
| `Listings` | a client reads page after page while events are created between its requests, or edits an update by its number while two writers save the event | `NoneMissed`, `EditHitsWhatWasSeen`, `EditedTextStays` | 2,500 k |

`KeepsBoard` and `TellsEachLife` are the two refinements, each checked as a
property of the detailed specification. `PlacementMoves`, `PlacementRaces`,
`PlacementPatches`, `CheckerPatches` and `CheckerLiveness` leave out `TypeOK`,
which another run of the same module has. The remaining two runs each end in a
counterexample; section 4 lists them.

Why the bounds are enough for what the runs show:

* *three events, two or three components*: a move needs a source and a target,
  a source that keeps a component needs two of them, and with a third event
  there is one to create while both exist. `PlacementRaces` and
  `PlacementPatches` have two events, the smallest number with a move, and two
  requests;
* *impacts 0..2*: zero for what is not an incident, and two levels, so that a
  report can be lower, equal or higher;
* *one schedule*: an event that is not active yet, is, or no longer is;
* *the checker's two ids*: `last` can point at the first, at the second, or
  past both. In the passing runs the instants lie between the dates and after
  the last of them, never on one; section 4 says what a check at exactly a start
  date does;
* *one cancellation, one fault*: enough for a write of a check that began
  before the PATCH and for a list half done. Two faults in a row only repeat a
  restart from `last = 0`;
* *two boots, two logins, two keys, two requests on one challenge*: a restart
  after each state of the first life, two requests for one token with a second
  login between them, and a key rotated before and after it is cached;
* *two components, two incidents, two requests; months of 2, 1 and 2 hours, two
  to a year*: two requests for one name and region that overlap or do not; an
  outage inside a month, across two, cut off at either end of the period, or
  still going on; a year that changes within the report;
* *three events, pages of one*: two that are there when the reading begins, so
  that there is a second page, and a third that is created before it is fetched
  and pushes the older of them to a third page. A client that keeps the total
  of its first page misses it, which takes the three: with two events this
  mistake is not caught;
* *two saved updates, two writers and an editor*: an edit with a save before,
  during and after it.

`CHECK_DEADLOCK FALSE` stands in the Placement configurations because the table
of a finite instance fills up: a request that wants a new row when every id is
taken has no step; and in `Server`, where the last boot may end. All others
check for deadlock.

## 4. Where code and documents disagree

Two runs each have one property that says what a document or a comment of the
repository says, and which TLC refutes. `PROJECT.json` quotes the lines.

| run | property | what happens |
|---|---|---|
| `SystemMoveCloses` | `ClosedOnlyWhenEmptied` | a report that moves a component resolves the source incident when the *target* has one component, whatever the source still holds |
| `RescheduleSkipped` | `NothingActiveIsSkipped` | a maintenance rescheduled after the checker has moved past its id is never looked at again |

Both properties also hold in a passing run, without the circumstance that
breaks them: `ClosedOnlyWhenEmptied` holds of v1 and of operators' moves,
`NothingActiveIsSkipped` when ids commit in order, dates stay and no check falls
on a start date.

Five more disagreements have no run of their own. The items say which constant
of a passing run shows them, or which property names them as its exception:

* *a repeated component empties an incident.* `PostIncidentExtractHandler`
  compares the length of the client's list with the number of components
  (`internal/api/v2/v2.go:1172`), "keep at least one". With `MaxEntries = 2`,
  `Kinds = {"regular", "extract"}`, two components and no faults,
  `OpenEventsHaveComponents` fails;
* *a stale Save clears an end date.* The comment at `internal/db/db.go:246`
  calls `ReOpenIncident` "the special function if you need to NULL your
  end_date"; a `Save` of a struct loaded before the incident was resolved does
  it as well (`internal/db/db.go:524`). Hence the last lines of
  `EndDateClearedOnlyByReopen`: a move or an extraction that holds a struct of
  the event without an end date. In `PlacementPatches` a v1 report takes that
  step, after a PATCH has resolved the incident it moves the component to;
* *a maintenance without an end date.* `docs/SD2_time_limits.md:80` says of it
  "Cannot be null". A closed incident may be PATCHed to type maintenance, impact
  0 and status reopened at once (`internal/api/v2/v2.go:1117`), and the checker
  then dereferences the missing date (`internal/checker/maintenance.go:139`).
  `FeedStaysReadable` names that step, and with `"reopened"` in `PatchStatus` it
  is taken. It names a second way, too: an information needs no end date, and a
  PATCH that makes it a maintenance asks for none (`PlacementMoves` takes it);
* *an early completion.* `docs/SD2_time_limits.md:61` says that an operator's
  "completed" "Sets end_date to current time". `updateFields`
  (`internal/api/v2/v2.go:1119`) takes over the status and leaves the end date
  ahead, so that a maintenance shows "completed" until the next check computes
  "in progress" from its dates (`internal/checker/maintenance.go:139`). No
  property calls a completed maintenance over: it would fail with `"completed"`
  in `PatchStatus`;
* *a check at the start of a maintenance.* Both comparisons at
  `internal/checker/maintenance.go:139` are strict: a maintenance that is checked
  at the very instant it starts is neither ahead nor in progress, hence
  completed, and the checker moves past its id, although
  `internal/checker/checker.go:18` calls the remembered ids those of "the
  earliest planned or in progress" events. With `StartDates = {2, 3}`,
  `EndDates = {5}`, `NothingActiveIsSkipped` fails in `CheckerSafety`.

Other circumstances are part of the properties that hold:

* `TypeImpactAgree` is checked and proved without extractions: an extraction
  from a maintenance creates an incident of impact 0;
* `OneActiveIncident` and `OneSystemIncidentPerImpact` are statements about
  requests that come one at a time. With two at once each may find no incident
  and create one; no document promises otherwise;
* `AvailabilityExact` leaves overlapping outages out (they are subtracted one by
  one, and a report may go below zero), `NoneMissed` events with equal start
  dates, `EditHitsWhatWasSeen` the numbers of updates in a *list* of events,
  which is loaded without an order, and `CreatedIsFound` twins and values that
  two attributes share;
* `TwinsOnlyFromRaces` and `NotHandedOutAgain` say exactly which overlap of
  requests lets a second component, or a second answer with one token, through.

## 5. Fairness

`CheckerLiveness` and `Server` assume some.

`FairSpec` of `Checker` has weak fairness of `Tick` (the `time.Ticker` of `Run`
delivers while the loop waits) and of `Read`, `CheckNext` and `Panic` of each
goroutine (the Go scheduler runs it, its query returns). Nothing is assumed of
operators, of the clock or of failures: requests may stop half way for ever and
the clock may stand still. The number of failed checks and restarts is bounded,
which is the assumption that a check is completed at some time; without it
`EventuallyCompleted` is plainly false. `CancelledSticks` needs the same
assumption: what repairs a stale write is a later, complete check.
`CheckerLiveness` watches maintenances only. `CheckInfoEvents` writes back the
status it has read and never computes a new one for the row, so the status of
an information that a check in flight has overwritten stays as it is.

`ProcessFairness` has weak fairness of what `main` and the goroutine of the
checker do next, and strong fairness of `Handshake`: when `Run` is back in its
`select` with a tick and the stop both ready, Go takes each at random. Nothing
is assumed of requests: `SignalEndsProcess` holds although a handler may never
answer, because `Drain` does not wait for it.

## 6. The proofs

Each of these holds for every value of the constants; the run beside it checks
the same definition on a small instance.

| theorem | states | under | run |
|---|---|---|---|
| `PlacementProofs!Typing` | `Spec => []TypeOK` | | `PlacementReports` |
| `PlacementProofs!NoComponentIsLost` | `Spec => NoComponentLost` | | `PlacementRaces` |
| `PlacementProofs!TypeAndImpactAgree` | `Spec => []TypeImpactAgree` | no extractions | `PlacementPatches` |
| `PlacementProofs!EndDatesStay` | `Spec => EndDateClearedOnlyByReopen` | | `PlacementPatches` |
| `BoardProofs!HandlersKeepBoard` | `Spec => KeepsBoard` | | `PlacementRaces` |
| `RequestProofs!EventsKeepComponents` | `Spec => []OpenEventsHaveComponents` | no monitoring of v2, extractions of one component | `PlacementMoves` |
| `RequestProofs!MovesEmptyWhatTheyClose` | `Spec => ClosedOnlyWhenEmptied` | one at a time, no monitoring of v2 | `PlacementMoves` |
| `RequestProofs!FeedKeepsReadable` | `Spec => FeedStaysReadable` | both of the above | `PlacementMoves` |
| `RequestProofs!ReportsLeaveOperatorEvents` | `Spec => OperatorEventsUntouched` | one at a time | `PlacementReports` |
| `RequestProofs!ReportsNeverDowngrade` | `Spec => ReportNeverDowngrades` | one at a time, no end date ahead | `PlacementReports`, `PlacementMoves` |
| `RequestProofs!ReportsCover` | `Spec => ReportCovered` | the same, no failures | `PlacementReports` |
| `RequestProofs!OneSystemIncident` | `Spec => []OneSystemIncidentPerImpact` | one at a time, statuses of progress | `PlacementReports` |
| `RequestProofs!OneIncidentEach` | `Spec => []OneActiveIncident` | the same, no failures, no extractions | `PlacementReports` |
| `CheckerProofs!CheckerTyping` | `Spec => []TypeOK` | | `CheckerSafety` |
| `CheckerProofs!HistoriesInOrder` | `Spec => []HistoryInOrder` | no claims | `CheckerPatches` |
| `CheckerProofs!CheckerTellsEachLife` | `Spec => TellsEachLife` | no claims | `CheckerSafety`, `CheckerPatches` |
| `CheckerProofs!ClaimsRecordedOnce` | `Spec => []RecordedOnce` | no claims, types stay | `CheckerSafety` |
| `CheckerProofs!StatusesAreTold` | `Spec => []StatusIsTold` | | `CheckerPatches` |
| `CheckerProofs!NothingIsSkipped` | `Spec => []NothingActiveIsSkipped` | types and dates stay, no check at a start date, one at a time | `CheckerSafety` |
| `ServerProofs!ServerTyping` | `Spec => []TypeOK` | | `Server` |
| `ServerProofs!CleanExitCutsNothing` | `Spec => []CleanExit` | | `Server` |
| `ServerProofs!CheckerKeepsItsDatabase` | `Spec => []DatabaseOutlivesChecker` | | `Server` |
| `ServerProofs!TokensAreHandedOutOnce` | `Spec => []NotHandedOutAgain` | | `Server` |
| `ServerProofs!LoginsAreLostOnlyByReuse` | `Spec => LostOnlyByReuse` | | `Server` |
| `ServerProofs!TrustedKeysStay` | `Spec => TrustedKeyStays` | | `Server` |
| `ComponentsProofs!ComponentsTyping` | `Spec => []TypeOK` | | `Components` |
| `ComponentsProofs!NoNamelessComponent` | `Spec => []NoComponentByReference` | | `Components` |
| `ComponentsProofs!TwinsComeFromRaces` | `Spec => TwinsOnlyFromRaces` | | `Components` |
| `ComponentsProofs!ReportFindsComponent` | `Spec => []CreatedIsFound` | | `Components` |
| `ComponentsProofs!AvailabilityIsExact` | `Spec => []AvailabilityExact` | | `Components` |
| `ListingsProofs!ListingsTyping` | `Spec => []TypeOK` | | `Listings` |
| `ListingsProofs!NothingIsMissed` | `Spec => []NoneMissed` | | `Listings` |
| `ListingsProofs!EditsHitWhatWasSeen` | `Spec => []EditHitsWhatWasSeen` | | `Listings` |
| `ListingsProofs!EditedTextsStay` | `Spec => EditedTextStays` | | `Listings` |

What stands under "under" is what the constants of the run choose, and each is
needed, because of what the code does without it:

* *one at a time* (one member of `Request`): two reports at once may each find
  no incident and create one, and a handler may write a struct another request
  has overtaken. All other theorems are about any number of requests;
* *no monitoring of v2* (`"system" \notin Kinds`): its moves decide by the wrong
  event whether to close one, which is the finding `SystemMoveCloses`;
* *extractions of one component* (`MaxEntries <= 1`): a longer list may repeat a
  component and then empty the incident (section 4);
* *no extractions* (`"extract" \notin Kinds`): one of a maintenance makes an
  incident of impact 0, and one of an operator a second incident of a component;
* *no failures* (`~Faults`): a report that fails half way has not placed its
  component, and its half may stay in two incidents;
* *statuses of progress* (`PatchStatus \subseteq Progress`): "reopened" brings
  back an incident beside the one that has replaced it, "changed" gives an old
  one other dates, "impact changed" other impacts, so that there are two of one
  impact;
* *no end date ahead* (`Window = {}`, or statuses of progress): an incident with
  an end date is found by no report, although it is active until that date;
* *no claims*: operators do not PATCH "in progress", "active" or "completed";
  one may complete a planned event with nothing before it, and then again;
* *types stay*, *dates stay* (`PatchTypes = {}`, `~PatchDates`): an event that
  changes its type changes its watcher, one that changes its dates may become
  active again (`RescheduleSkipped`);
* *no check at a start date* (`Instants \cap StartDates = {}`): at that very
  instant the code calls a maintenance completed (section 4).

**Placement.** `TypeOK` alone is not inductive: a request at `move` writes `old`
and `new`, and nothing in the types says that they have been loaded. `IInv` adds
`Loaded`: at the labels in `JoinLabel` (`LeaveLabel`) the copy `new` (`old`) is
a struct and not nil, and a regular creation never comes to the labels of a
report (`Answered` sends it back to `nextComponent`, where `new` is needed
again). There is one lemma per action; `LocalStep` is what they share.
`NoComponentIsLost` follows: relations are deleted in `Move` and `ExtractMove`
only, and both add a relation of the same component to `new.id` in the same
transaction, which is an event by `IInv` even if it is `old.id` again.
`TypeAndImpactAgree` needs that every struct that may be written agrees, too
(`AInv`).

**Board.** The refinement needs `HInv`: the events whose structs a request will
write are in the table (they are never deleted), and where it deals with
components it has some. Then `Create` and `Extract` are `Open`, `Link`, `Patch`
and `Raise` are `Include`, `Move` and `ExtractMove` are `Transfer`, and all
others change nothing that `Board` sees.

**Requests.** The theorems on where components end up need to know what a
handler has in hand at each database call.

* `CInv` says which structs a request may have chosen at which label: for
  instance that the event it leaves is an incident of a lower impact. It is
  about each request alone and holds however requests interleave.
  `EventsKeepComponents` needs no more: the event that a `Move` or `ExtractMove`
  leaves is closed, or keeps another component.
* `SInv` holds of one request at a time: the structs are what the tables hold,
  except for the one a PATCH has changed (`Synced`), and an id not in use has no
  relations. With it the decisions the code takes on its structs are decisions
  about the tables: that is `MovesEmptyWhatTheyClose`,
  `ReportsLeaveOperatorEvents` and `FeedKeepsReadable`.
* `UInv`: no incident has an end date ahead, and those a report has chosen are
  open. So what a report finds is all that is active, which
  `ReportsNeverDowngrade` and `ReportsCover` rest on.
* `OInv`: a report about to make a system incident has found none of its impact,
  and there is none until it does. Hence `OneSystemIncident`.
* `PInv` states `OneActiveIncident` during a request. `OnePlace`: a component is
  in two open incidents only while the request moves it from one to the other;
  `Unplaced`: what it has yet to place is where it has found it; `AllLoaded`: a
  regular creation has loaded every incident its components may be in. Between
  requests the exceptions are void, which is `OneIncidentEach`. Each action is
  a lemma about the set of open incidents and the map of their components
  (`Open`, `Places`).

**Checker.** `TInv`: what requests and watchers hold in memory refers to rows
that exist. `CInv` has `HistoryInOrder` itself; `Prepared`: what a request is
about to append fits where it will be appended; `Apart`: two requests do not
create the same event; and `StillThere`: every status a watcher has read of a
history is still in it, so that what `MissedStatuses` finds missing may be
recorded twice but never out of order. Histories only grow, and with that each
step is a `Tell` of `LifeCycle`. The assumption is needed: an operator may PATCH
a planned event to "completed" without anything before it. When types stay,
`FInv` holds: a copy has the type of its row, at most one copy per event is on a
watcher's list, and what it says of dates agrees with the row. Then only the
watcher of an event's type claims anything of it, no claim has been added to an
event it still has to look at (`UpToDate`), and `RecordedOnce` follows. `SInv`
is the argument for the remembered ids: ids become visible in order, and every
event of a watcher that it has seen in this check is active, over, or still on
its list (`Covers`); so the id it goes on from leaves nothing behind.

`StatusIsTold` needs none of these assumptions, but an invariant of its own,
`AInv`: the copies on a watcher's list tell their status, and nothing their
rows do not (`ListTells`); a row that waits for its commit is new and empty
(`Fresh`). Histories only grow, so what a copy tells stays told; and the status
the checker computes is in the copy's history or among what it adds to it
(`MissedTells`).

**Server.** `PInv`: how far `main` has come says what is over. `TInv` follows
each token: one about to be stored is nowhere else, a stored one has not been
handed out, and a waiting request knows only tokens that have. So a stored
token stays until a request takes it or another login replaces it, which is
`LostOnlyByReuse`. `KInv`: a request on its way to
fetch or cache a key came when none was cached, and one that has yet to read the
key came then, or the key is there; so only such a request writes over a trusted
key, which is `TrustedKeyStays`.

**Components.** `CatInv`: rows stay, so what a request has found stays true;
a request at its insert has either seen no twin when it came, or not looked.
`CreatedIsFound` holds of any catalogue: of the rows of the join one alone
matches.

`AvailabilityIsExact` is about every calendar, of any number of months of any
lengths, and any number of incidents. `MonthStart` is a recursive function; that
its equation has a solution, and that months follow each other, is induction
(`StartsExist`, `MonthsInOrder`). The index of a month is its distance from the
first of the report, years or not (`MonthIndexIs`). So an outage, cut to the
period, contributes to a month exactly its hours in it (`ShareCounts`), and
disjoint outages add up (`TotalOfSizes`, on the sums of the community modules).
`Underway` is the invariant it needs: a first year has passed, so the report
begins within the calendar, and finitely many incidents have been recorded.

**Listings.** `UInv`: one writer at a time holds the row lock, the key it has
taken is above all committed ones, hence a commit adds an update at the end and
moves none (`RankAdded`), and places and keys correspond (`RankInjective`).
Without the lock two writers could commit in the other order of their keys.
`NothingIsMissed` counts (`Ahead`): as long as an event the client is owed has
not come, the events newer than it are at least as many as the pages before the
current one hold; events that come in go before it and only raise that number,
and once it is on the current page, it is found.

**Induction.** The library states induction for operators, which the provers
cannot instantiate. `FiniteLemmas` states it for sets ("the numbers of which it
holds include 0 and, with each, the next") and proves it from the
well-foundedness of the subsets of a finite set. The recursive definitions of
`Availability` and of the sums are functions, and their equations are proved,
not assumed.

The assumptions are those of the modules, and TLC evaluates them on each run.

Only model-checked: the liveness properties (`EventuallyCompleted`,
`CancelledSticks`, `SignalEndsProcess`), which rest on fairness and are beyond
the prover. Every other property of a passing run is stated by a theorem; where
one is checked under wider constants than it is proved for, the table says what
was proved.

## 7. Abstractions and bounds

* A query of GORM that runs as several SQL statements (preloads) is one step;
  only the insert of an event's id, the statements of a save of updates, and the
  count and fetch of a page are apart.
* The order of events in a list, and of the components in a request, is open:
  "the first that ..." is any that ... . Component lists are sets; repetitions
  matter only in an extraction, where `MaxEntries` bounds the length of the list.
* `Placement` has no dates but "open", "past" (an end date set by "resolved",
  which is the update date of the request, taken to be not in the future) and
  the schedules in `Window`. `Checker`, `Pages` and `Availability` have natural
  numbers, the last in hours.
* Titles, descriptions, authors and versions are left out; texts are two values
  in `Updates`. The status history is in `Checker` only.
* In `Placement` the catalogue is constant. In `Catalogue` two of the three
  attributes are kept, the region and one other.
* `V1Report` leaves a component alone (a conflict answer) without a step.
* In `Checker`: incidents are left out (no watcher lists them); a PATCH keeps
  impact 0; the loss of the process drops all requests and the remembered ids.
* In `Login` tokens are numbered by challenge and keys in the order of their
  use; expiry and groups are a free choice of `Judge`; HMAC tokens are left out.
  `realmPublicKey` is read and written without a lock: a read sees one of the
  values written, a pointer is not torn.
* In `Pages` the filters of a request are one bit of an event.
* `handed`, `known`, `early`, `late`, `checked`, `owed`, `want` and `sorted` are
  history: no guard of a handler reads them, except that they ride along in the
  local record of a request.
* Bounds: `EventId`, `Component`, `Request`, `Window`, `MaxImpact`, `MaxEntries`
  (Placement); `MaxId`, `StartDates`, `EndDates`, `Instants`, `MaxPatches`,
  `MaxFaults` (Checker); `MaxBoots`, `MaxLogins`, `MaxKey` (Server);
  `MaxComponents`, the calendar (Components); `Event`, `Limit`, `MaxUpdates`
  (Listings). `Kinds`, `NewTypes`, `PatchTypes`, `PatchStatus`, `PatchDates` and
  `Faults` choose what the environment of a run does.

## 8. What is not modelled

* `internal/conf`: reads and validates the environment before anything runs;
* the texts of both RSS feeds, JSON and date formats, error messages, logging,
  CORS: formatting that keeps no state. The older feed of `internal/api/rss` uses
  no components, and looks whether there is an end date before it takes it;
* the two GET handlers of API v1, and the filters of `GET /v2/events` but
  `IsActive`: conditions of a query;
* login page, logout and refresh: they pass on what Keycloak says. Keycloak,
  PostgreSQL and the supervisor themselves appear by what the code sees of them;
* the isolation level of PostgreSQL inside one transaction: each function of
  `db.go` that writes is one atomic step, but in `Updates` its row lock is
  modelled;
* rounding of percentages, and arithmetic of dates below an hour.

## 9. Plan

Done: everything of the first plan: the placement of components with its
abstract specification, the checker with its own, the catalogue, updates,
tokens, process, availability and pages.

And the proofs: every safety property, action property and refinement of a
passing run is a theorem.

What may still be added:

1. `OneActiveIncident` with extractions, for the components that no operator has
   extracted, and `ReportCovered` for reports that fail;
2. `Placement` and `Checker` in one specification, with histories for incidents.
