SPECIFICATION Spec

CONSTANTS
    EventId = {e1, e2}
    Component = {c1}
    Request = {r1, r2}
    Window = {w1}
    MaxImpact = 2
    NoCopy = NoCopy
    Kinds = {"v1", "patch"}
    NewTypes = {"incident", "maintenance"}
    PatchStatus = {"resolved", "reopened", "changed", "impact changed"}
    MaxEntries = 1
    Faults = FALSE

SYMMETRY Symmetry

INVARIANTS
    TypeImpactAgree

PROPERTIES
    EndDateClearedOnlyByReopen

CHECK_DEADLOCK FALSE
