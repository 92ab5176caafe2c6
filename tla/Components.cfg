SPECIFICATION Spec
CONSTANTS
    Poster = {r1, r2}
    Name = {"n1"}
    Region = {"eu", "nl"}
    Kind = {"nl"}
    MaxComponents = 2
    Incident = {i1, i2}
    MonthLength <- Lengths
    MonthsInYear = 2
    Impact = {2, 3}
    StartDates = {0, 2}
    EndDates = {1, 4}
INVARIANTS
    TypeOK
    CreatedIsFound
    NoComponentByReference
    AvailabilityExact
PROPERTIES
    TwinsOnlyFromRaces
SYMMETRY Interchangeable
