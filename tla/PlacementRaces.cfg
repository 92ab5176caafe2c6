SPECIFICATION Spec

CONSTANTS
    EventId = {e1, e2}
    Component = {c1, c2}
    Request = {r1, r2}
    Window = {}
    MaxImpact = 2
    NoCopy = NoCopy
    Kinds = {"system", "extract", "patch"}
    NewTypes = {"incident"}
    PatchStatus = {"impact changed"}
    MaxEntries = 1
    Faults = TRUE

SYMMETRY Symmetry

PROPERTIES
    NoComponentLost
    KeepsBoard

CHECK_DEADLOCK FALSE
