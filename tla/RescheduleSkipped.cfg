SPECIFICATION Spec

CONSTANTS
    Watched = {"maintenance"}
    Request = {r1}
    MaxId = 2
    StartDates = {1, 3}
    EndDates = {3, 5}
    Instants = {2, 4, 6}
    NewTypes = {"maintenance"}
    PatchTypes = {}
    PatchStatus = {"modified"}
    PatchDates = TRUE
    MaxPatches = 1
    MaxFaults = 0

INVARIANTS
    NothingActiveIsSkipped
