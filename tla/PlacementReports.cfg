SPECIFICATION Spec

CONSTANTS
    EventId = {e1, e2, e3}
    Component = {c1, c2}
    Request = {r1}
    Window = {w1}
    MaxImpact = 2
    NoCopy = NoCopy
    Kinds = {"system", "regular", "patch"}
    NewTypes = {"incident", "maintenance"}
    PatchStatus = {"resolved"}
    MaxEntries = 1
    Faults = FALSE

SYMMETRY Symmetry

INVARIANTS
    TypeOK
    OneActiveIncident
    OneSystemIncidentPerImpact

PROPERTIES
    ReportCovered
    OperatorEventsUntouched
    ReportNeverDowngrades

CHECK_DEADLOCK FALSE
