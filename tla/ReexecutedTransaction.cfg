SPECIFICATION RouteSpec

CONSTANTS
    alice = alice
    bob = bob
    gold = gold
    trader = trader
    Accounts = {alice, bob}
    Assets = {gold}
    Agents = {trader}
    Representations <- MCRepresentations
    AdapterTypes = {"token"}
    Intents = {"pay"}
    IntentData <- MCIntentData
    Permissions <- MCPermissions
    Policies <- MCPolicies
    Runs = {1, 2, 3}
    OpeningQuantities = {1, 4}
    ExternalBalances <- MCExternalBalances
    SettlementModes = {"immediate"}
    Faults = {"timeout"}
    MaxCrashes = 0
    OverlappingExecutes = FALSE
    AnyAsset = AnyAsset
    NoLimit = NoLimit
    NoPosition = NoPosition
    None = None

INVARIANTS
    TransactionSettledOnce

CHECK_DEADLOCK FALSE
