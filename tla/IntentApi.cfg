SPECIFICATION ApiSpec

CONSTANTS
    alice = alice
    bob = bob
    gold = gold
    trader = trader
    stranger = stranger
    Accounts = {alice, bob}
    Assets = {gold}
    Agents = {trader}
    Representations <- MCRepresentations
    AdapterTypes = {"token"}
    Intents = {"pay", "rent", "ghost"}
    IntentData <- MCIntentData
    Permissions <- MCPermissions
    Policies <- MCPolicies
    Runs = {1, 2, 3}
    OpeningQuantities = {2}
    ExternalBalances <- MCExternalBalances
    SettlementModes = {"immediate", "pending"}
    Faults = {"timeout"}
    MaxCrashes = 1
    OverlappingExecutes = FALSE
    AnyAsset = AnyAsset
    NoLimit = NoLimit
    NoPosition = NoPosition
    None = None

INVARIANTS
    ConsumedConsistent
    IntentExecutedOnce
    DuplicateNeedsCrash

PROPERTIES
    ExecutionDecides
    ImplementsAtomicIntent

CHECK_DEADLOCK FALSE
