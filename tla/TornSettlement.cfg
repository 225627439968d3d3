SPECIFICATION Spec

CONSTANTS
    alice = alice
    bob = bob
    carol = carol
    Accounts = {alice, bob, carol}
    Intents = {"pay"}
    IntentData <- MCIntentData
    Runs = {r1, r2}
    Opening <- MCOpening
    MaxFaults = 1
    NoPosition = NoPosition
    None = None

INVARIANTS
    AtomicCommit

CHECK_DEADLOCK FALSE
