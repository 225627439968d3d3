------------------------- MODULE MCBatchSettlement --------------------------
(***************************************************************************)
(* A small instance of BatchSettlement: batches of up to three movements   *)
(* of two assets, among them two that one position covers one by one.      *)
(***************************************************************************)
EXTENDS BatchSettlement

CONSTANTS alice, bob, gold, cash

MCMovement(from, to, asset, quantity) ==
    [ from |-> from, to |-> to, asset |-> asset, quantity |-> quantity ]

MCMovements ==
    { MCMovement(alice, bob, gold, 1), MCMovement(alice, bob, gold, 2),
      MCMovement(bob, alice, gold, 1), MCMovement(bob, alice, cash, 1) }

MCPositions(quantity, bobs) ==
    [ key \in { alice, bob } \X { gold, cash } |->
        CASE key = << alice, gold >> -> quantity
          [] key = << bob, cash >>   -> 1
          [] OTHER                   -> bobs ]

MCOpenings == { MCPositions(2, NoPosition), MCPositions(3, 0) }

MCRepresentation(id, asset, type) == [ id |-> id, asset |-> asset, type |-> type ]

MCGold == MCRepresentation("gold_token", gold, "token")

MCRegistered ==
    { { MCGold },
      { MCGold, MCRepresentation("cash_token", cash, "token") },
      { MCGold, MCRepresentation("cash_account", cash, "bank") },
      { MCGold, MCRepresentation("gold_again", gold, "token") } }
=============================================================================
