-------------------------- MODULE MCTransactionApi --------------------------
(***************************************************************************)
(* A small instance of TransactionApi: two payments of one agent from one  *)
(* position, and three calls to share among the three routes.              *)
(***************************************************************************)
EXTENDS TransactionApi

CONSTANTS alice, bob, gold, trader

MCToken == [ id |-> "token_gold", asset |-> gold, type |-> "token" ]

MCRepresentations == { MCToken }

MCIntent(quantity) ==
    [ agent |-> trader, type |-> "transfer", from |-> alice, to |-> bob,
      asset |-> gold, quantity |-> quantity ]

MCIntentData == [ pay |-> MCIntent(1), rent |-> MCIntent(2) ]

MCPermissions == { [ subject |-> trader, action |-> "transfer", asset |-> gold ] }

MCPolicies == << >>

MCExternalBalances == [ key \in ExternalKeys |-> IF key[2] = alice THEN 4 ELSE 0 ]
=============================================================================
