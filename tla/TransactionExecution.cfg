SPECIFICATION Spec

CONSTANTS
    alice = alice
    bob = bob
    gold = gold
    trader = trader
    intruder = intruder
    Accounts = {alice, bob}
    Assets = {gold}
    Representations <- MCRepresentations
    AdapterTypes = {"token"}
    Intents = {"pay", "refund", "self", "splash", "steal"}
    IntentData <- MCIntentData
    Permissions <- MCPermissions
    Policies <- MCPolicies
    Runs = {1, 2}
    OpeningQuantities = {3}
    ExternalBalances <- MCExternalBalances
    SettlementModes = {"immediate", "pending"}
    Faults = {"reject", "timeout", "lookup", "short"}
    MaxCrashes = 1
    AnyAsset = AnyAsset
    NoLimit = NoLimit
    NoPosition = NoPosition
    None = None

INVARIANTS
    TypeOK
    NoOverdraft
    PositionsMatchLedger
    LedgerMatchesSettled
    SettledBacked
    OrphanExplained
    InstructionTellsOutcome

PROPERTIES
    TerminalIsFinal
    RunsFinish

CHECK_DEADLOCK FALSE
