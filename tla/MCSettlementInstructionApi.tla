--------------------- MODULE MCSettlementInstructionApi ---------------------
(***************************************************************************)
(* A small instance of SettlementInstructionApi: two payments of one agent *)
(* from one position, three calls to share among the routes that run the   *)
(* engine, and one instruction made by hand.                               *)
(***************************************************************************)
EXTENDS SettlementInstructionApi, TLC

CONSTANTS alice, bob, gold, trader

MCToken == [ id |-> "token_gold", asset |-> gold, type |-> "token" ]

MCRepresentations == { MCToken }

MCIntent(quantity) ==
    [ agent |-> trader, type |-> "transfer", from |-> alice, to |-> bob,
      asset |-> gold, quantity |-> quantity ]

MCIntentData == [ pay |-> MCIntent(1), rent |-> MCIntent(2) ]

MCPermissions == { [ subject |-> trader, action |-> "transfer", asset |-> gold ] }

MCPolicies == << >>

MCExternalBalances == [ key \in ExternalKeys |-> IF key[2] = alice THEN 4 ELSE 0 ]

\* Runs differ in nothing but their names.
MCSymmetry == Permutations(Runs)
=============================================================================
