SPECIFICATION Spec

CONSTANTS
    alice = alice
    bob = bob
    gold = gold
    trader = trader
    intruder = intruder
    Accounts = {alice, bob}
    Assets = {gold}
    Representations <- MCRepresentations
    AdapterTypes = {"token"}
    Intents = {"pay"}
    IntentData <- MCIntentData
    Permissions <- MCPermissions
    Policies <- MCPolicies
    Runs = {1, 2}
    OpeningQuantities = {3}
    ExternalBalances <- MCExternalBalances
    SettlementModes = {"pending"}
    Faults = {}
    MaxCrashes = 0
    AnyAsset = AnyAsset
    NoLimit = NoLimit
    NoPosition = NoPosition
    None = None

PROPERTIES
    SettledOnLiveEvidence

CHECK_DEADLOCK FALSE
