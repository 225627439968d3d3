SPECIFICATION Spec

CONSTANTS
    Writers = {p, q}
    Updates = {u1, u2, u3}
    MaxCrashes = 2
    Absent = Absent
    Torn = Torn
    None = None

INVARIANTS
    TypeOK
    LockProtects
    LiveIsComplete
    SavedSurvives

PROPERTIES
    BackupIsPrevious
    PersistEnds

CHECK_DEADLOCK FALSE
