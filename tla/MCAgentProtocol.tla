-------------------------- MODULE MCAgentProtocol ---------------------------
(***************************************************************************)
(* A small instance of AgentProtocol: two agents, a permission and two     *)
(* policies that may be given to either, an intent at the limit and over   *)
(* the approval threshold, and one over both.                              *)
(***************************************************************************)
EXTENDS AgentProtocol

CONSTANTS vault, gold, trader

MCTerms ==
    { [ maxTransaction |-> 2, requiresApprovalAbove |-> NoLimit ],
      [ maxTransaction |-> NoLimit, requiresApprovalAbove |-> 1 ],
      [ maxTransaction |-> 2, requiresApprovalAbove |-> 1 ] }

MCRequest(quantity) ==
    [ agent |-> trader, type |-> "transfer", from |-> vault, to |-> vault,
      asset |-> gold, quantity |-> quantity ]

MCRequestData == [ small |-> MCRequest(2), large |-> MCRequest(3) ]
=============================================================================
