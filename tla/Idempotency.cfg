SPECIFICATION Spec

CONSTANTS
    Retries = {r1, r2, r3}
    reuse = reuse
    Requests <- MCRequests
    Keys = {"k1"}
    Bodies = {"b1", "b2"}
    KeyOf <- MCKeyOf
    BodyOf <- MCBodyOf
    Awaiting = {"k1"}
    Writes <- MCWrites
    MaxCrashes = 1
    None = None

SYMMETRY MCSymmetry

INVARIANTS
    ChangedTwiceExplained
    ReplayIsOriginal

PROPERTIES
    AnsweredNeverHandledAgain

CHECK_DEADLOCK FALSE
