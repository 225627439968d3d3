SPECIFICATION Spec

CONSTANTS
    alice = alice
    bob = bob
    carol = carol
    Accounts = {alice, bob, carol}
    Intents = {"pay", "rent", "self"}
    IntentData <- MCIntentData
    Runs = {r1, r2, r3, r4}
    Opening <- MCOpening
    MaxFaults = 2
    NoPosition = NoPosition
    None = None

SYMMETRY MCSymmetry

INVARIANTS
    NeverInflated
    NothingBookedUnmoved
    ExecutedIsBooked
    SavedAtRest
    RepeatExplained

CHECK_DEADLOCK FALSE
