SPECIFICATION Spec
CONSTANTS
    Request = {r1, r2}
    Challenge = {c1}
    MaxBoots = 2
    MaxLogins = 2
    MaxKey = 2
INVARIANTS
    TypeOK
    CleanExit
    DatabaseOutlivesChecker
    NotHandedOutAgain
PROPERTIES
    LostOnlyByReuse
    
    SignalEndsProcess
CHECK_DEADLOCK FALSE
