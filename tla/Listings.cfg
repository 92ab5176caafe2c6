SPECIFICATION Spec
CONSTANTS
    Event = {e1, e2, e3}
    Edited = e1
    StartDates = {1, 2, 3}
    Limit = 1
    Writer = {w1, w2}
    Text = {"posted", "edited"}
    FirstText = "posted"
    MaxUpdates = 2
INVARIANTS
    TypeOK
    NoneMissed
    EditHitsWhatWasSeen
PROPERTIES
    EditedTextStays
SYMMETRY Interchangeable
