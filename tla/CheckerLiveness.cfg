SPECIFICATION FairSpec

CONSTANTS
    Watched = {"maintenance"}
    Request = {r1}
    MaxId = 2
    StartDates = {1}
    EndDates = {3, 5}
    Instants = {2, 4, 6}
    NewTypes = {"maintenance"}
    PatchTypes = {}
    PatchStatus = {"cancelled"}
    PatchDates = FALSE
    MaxPatches = 1
    MaxFaults = 1

PROPERTIES
    EventuallyCompleted
    CancelledSticks
