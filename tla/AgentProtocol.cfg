SPECIFICATION ProtocolSpec

CONSTANTS
    vault = vault
    gold = gold
    trader = trader
    Parties = {owner}
    Accounts = {vault}
    Assets = {gold}
    Agents = {trader, helper}
    PermissionIds = {"m1"}
    PolicyIds = {"p1", "p2"}
    Actions = {"transfer"}
    Terms <- MCTerms
    MaxCrashes = 1
    Intents = {"small", "large"}
    RequestData <- MCRequestData
    AnyAsset = AnyAsset
    NoLimit = NoLimit
    None = None

INVARIANTS
    RegistryConsistent
    LimitHiddenOnlyByApproval
    AuthorizationLasts

CHECK_DEADLOCK FALSE
