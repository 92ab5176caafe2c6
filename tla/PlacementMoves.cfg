SPECIFICATION Spec

CONSTANTS
    EventId = {e1, e2, e3}
    Component = {c1, c2}
    Request = {r1}
    Window = {}
    MaxImpact = 2
    NoCopy = NoCopy
    Kinds = {"regular", "v1", "extract", "patch"}
    NewTypes = {"incident", "maintenance", "info"}
    PatchStatus = {"resolved", "changed", "planned"}
    MaxEntries = 1
    Faults = TRUE

SYMMETRY Symmetry

INVARIANTS
    OpenEventsHaveComponents

PROPERTIES
    ClosedOnlyWhenEmptied
    ReportNeverDowngrades
    FeedStaysReadable

CHECK_DEADLOCK FALSE
