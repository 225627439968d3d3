--------------------------- MODULE Authorization ---------------------------
(***************************************************************************)
(* What an agent may do: engines/permissionEngine.ts and                   *)
(* engines/policyEngine.ts as operators.                                   *)
(***************************************************************************)
LOCAL INSTANCE Naturals
LOCAL INSTANCE Sequences

\* `asset` of a permission that names no asset, and a policy limit left
\* undefined.
CONSTANTS AnyAsset, NoLimit

ASSUME NoLimitAssumption == NoLimit \notin Nat

HasPermission(subject, action, asset, permissions) ==
    \E p \in permissions : /\ p.subject = subject
                           /\ p.action = action
                           /\ p.asset \in { AnyAsset, asset }

Exceeds(quantity, limit) == limit # NoLimit /\ quantity > limit

\* evaluatePolicy walks the agent's policies in the order they were created and
\* returns at the first one that has something to say: a limit exceeded refuses,
\* an approval threshold exceeded allows at once, whatever the later ones say.
Decisive(agent, quantity, policies) ==
    { n \in 1..Len(policies) :
        /\ policies[n].agent = agent
        /\ \/ Exceeds(quantity, policies[n].maxTransaction)
           \/ Exceeds(quantity, policies[n].requiresApprovalAbove) }

PolicyAllows(agent, quantity, policies) ==
    LET decisive == Decisive(agent, quantity, policies)
    IN  \A n \in decisive :
            (\A m \in decisive : n <= m) => ~Exceeds(quantity, policies[n].maxTransaction)
=============================================================================
