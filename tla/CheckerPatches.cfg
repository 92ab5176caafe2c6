SPECIFICATION Spec

CONSTANTS
    Watched = {"maintenance", "info"}
    Request = {r1}
    MaxId = 1
    StartDates = {1, 3}
    EndDates = {0, 3}
    Instants = {2, 4}
    NewTypes = {"maintenance", "info"}
    PatchTypes = {"maintenance", "info"}
    PatchStatus = {"planned", "cancelled"}
    PatchDates = TRUE
    MaxPatches = 2
    MaxFaults = 0

INVARIANTS
    HistoryInOrder
    StatusIsTold

PROPERTIES
    TellsEachLife
