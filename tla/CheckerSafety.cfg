SPECIFICATION Spec

CONSTANTS
    Watched = {"maintenance", "info"}
    Request = {r1}
    MaxId = 2
    StartDates = {1, 3}
    EndDates = {3}
    Instants = {2, 4}
    NewTypes = {"maintenance", "info"}
    PatchTypes = {}
    PatchStatus = {"cancelled"}
    PatchDates = FALSE
    MaxPatches = 1
    MaxFaults = 1

INVARIANTS
    TypeOK
    NothingActiveIsSkipped
    RecordedOnce

PROPERTIES
    TellsEachLife
