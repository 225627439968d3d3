----------------------- MODULE MCTransactionExecution -----------------------
(***************************************************************************)
(* A small instance of TransactionExecution: two accounts, one asset with  *)
(* a token representation that can be routed and an account one that       *)
(* cannot, payments that compete for one position, a payment back, and     *)
(* intents that permission or policy refuses.                              *)
(***************************************************************************)
EXTENDS TransactionExecution

CONSTANTS alice, bob, gold, trader, intruder

MCToken == [ id |-> "token_gold", asset |-> gold, type |-> "token" ]
MCAccount == [ id |-> "account_gold", asset |-> gold, type |-> "account" ]

MCRepresentations == { MCToken, MCAccount }

MCIntent(agent, from, to, quantity) ==
    [ agent |-> agent, type |-> "transfer", from |-> from, to |-> to,
      asset |-> gold, quantity |-> quantity ]

MCIntentData ==
    [ pay    |-> MCIntent(trader, alice, bob, 2),
      rent   |-> MCIntent(trader, alice, bob, 1),
      refund |-> MCIntent(trader, bob, alice, 1),
      self   |-> MCIntent(trader, alice, alice, 2),
      steal  |-> MCIntent(intruder, alice, bob, 1),
      splash |-> MCIntent(trader, alice, bob, 3) ]

MCPermissions == { [ subject |-> trader, action |-> "transfer", asset |-> AnyAsset ] }

MCPolicies == << [ agent |-> trader, maxTransaction |-> 2, requiresApprovalAbove |-> NoLimit ] >>

MCExternalBalances ==
    [ key \in ExternalKeys |-> IF key[2] = alice THEN 3 ELSE 0 ]
=============================================================================
