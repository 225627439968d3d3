SPECIFICATION Spec

CONSTANTS
    alice = alice
    bob = bob
    gold = gold
    cash = cash
    Movements <- MCMovements
    MaxMovements = 3
    Openings <- MCOpenings
    Registered <- MCRegistered
    AdapterTypes = {"token"}
    Delivered = {1, 2}
    NoPosition = NoPosition

INVARIANTS
    AllOrNothing
    OverdraftExplained
    FullMatchIsOneToOne

CHECK_DEADLOCK FALSE
