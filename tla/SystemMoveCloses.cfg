SPECIFICATION Spec

CONSTANTS
    EventId = {e1, e2, e3}
    Component = {c1, c2, c3}
    Request = {r1}
    Window = {}
    MaxImpact = 2
    NoCopy = NoCopy
    Kinds = {"system"}
    NewTypes = {"incident"}
    PatchStatus = {}
    MaxEntries = 1
    Faults = FALSE

SYMMETRY Symmetry

PROPERTIES
    ClosedOnlyWhenEmptied

CHECK_DEADLOCK FALSE
