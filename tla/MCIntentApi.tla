---------------------------- MODULE MCIntentApi -----------------------------
(***************************************************************************)
(* A small instance of IntentApi: two payments that compete for one        *)
(* position, three calls of execute to share among them.                   *)
(***************************************************************************)
EXTENDS IntentApi

CONSTANTS alice, bob, gold, trader, stranger

MCToken == [ id |-> "token_gold", asset |-> gold, type |-> "token" ]

MCRepresentations == { MCToken }

MCIntent(agent, quantity) ==
    [ agent |-> agent, type |-> "transfer", from |-> alice, to |-> bob,
      asset |-> gold, quantity |-> quantity ]

MCIntentData ==
    [ pay   |-> MCIntent(trader, 2),
      rent  |-> MCIntent(trader, 1),
      ghost |-> MCIntent(stranger, 1) ]

MCPermissions == { [ subject |-> trader, action |-> "transfer", asset |-> gold ] }

MCPolicies == << >>

MCExternalBalances ==
    [ key \in ExternalKeys |-> IF key[2] = alice THEN 4 ELSE 0 ]
=============================================================================
