SPECIFICATION InstructionSpec

CONSTANTS
    alice = alice
    bob = bob
    gold = gold
    trader = trader
    Accounts = {alice, bob}
    Assets = {gold}
    Agents = {trader}
    Representations <- MCRepresentations
    AdapterTypes = {"token"}
    Intents = {"pay", "rent"}
    IntentData <- MCIntentData
    Permissions <- MCPermissions
    Policies <- MCPolicies
    Runs = {r1, r2, r3}
    Instructions = {k1}
    OpeningQuantities = {3}
    ExternalBalances <- MCExternalBalances
    SettlementModes = {"immediate", "pending"}
    Faults = {"timeout"}
    MaxCrashes = 0
    OverlappingExecutes = TRUE
    AnyAsset = AnyAsset
    NoLimit = NoLimit
    NoPosition = NoPosition
    None = None

SYMMETRY MCSymmetry

INVARIANTS
    InstructionTransfersOnce
    RecordTellsItsRun
    SettledAgainExplained

PROPERTIES
    NoLateInstruction

CHECK_DEADLOCK FALSE
