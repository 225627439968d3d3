------------------------------ MODULE Registry ------------------------------
(***************************************************************************)
(* The reference data: api/routes/parties.ts, accounts.ts, assets.ts,      *)
(* agents.ts, permissions.ts and policies.ts.  Records are only ever       *)
(* added.                                                                  *)
(*                                                                         *)
(* A grant, a permission or a policy, is kept twice: in a collection of    *)
(* its own, which is what authorisation reads, and as an identifier in a   *)
(* list of its agent, which is what GET /agents shows.  POST /permissions  *)
(* and POST /policies write the first and then the second; each write      *)
(* saves everything, and the process may die between the two.  POST        *)
(* /agents takes both lists from the client.                               *)
(***************************************************************************)
EXTENDS Integers, Sequences, FiniteSets, Authorization

CONSTANTS
    Parties, Accounts, Assets, Agents,   \* identifiers that may come into use
    PermissionIds, PolicyIds,
    Actions,             \* actions a permission may be given for
    Terms,               \* [maxTransaction, requiresApprovalAbove] a policy may have
    MaxCrashes,          \* bound on the number of process restarts
    None

\* What the collections hold.
AgentRecords ==
    [ owner : Parties, permissions : SUBSET PermissionIds, policies : SUBSET PolicyIds ]

Listings ==
    [ list : { "permissions", "policies" }, agent : Agents, id : PermissionIds \union PolicyIds ]

\* Identifiers begin with the kind of what they name.
ASSUME RegistryAssumption ==
    /\ None \notin Parties \union AgentRecords \union Listings
    /\ Agents \intersect (Parties \union Accounts) = {}
    /\ AnyAsset \notin Assets
    /\ MaxCrashes \in Nat

VARIABLES
    parties,             \* the parties there are
    accounts,            \* account -> its owner, None when there is no such account
    assets,              \* asset -> its issuer, or None
    agents,              \* agent -> [owner, permissions, policies], or None
    permissions,         \* set of [id, subject, action, asset]
    policies,            \* sequence of [id, agent, maxTransaction, requiresApprovalAbove]
    listing,             \* the second write of a grant: [list, agent, id], or None
    unlisted             \* history: grants whose second write was never made, or lost

registryVars == << parties, accounts, assets, agents, permissions, policies, listing,
                   unlisted >>

Stored(collection) == { x \in DOMAIN collection : collection[x] # None }

IdsOf(grants) == { g.id : g \in grants }

PolicySet == { policies[n] : n \in 1..Len(policies) }

RegistryInit ==
    /\ parties = {}
    /\ accounts = [ a \in Accounts |-> None ]
    /\ assets = [ s \in Assets |-> None ]
    /\ agents = [ g \in Agents |-> None ]
    /\ permissions = {}
    /\ policies = << >>
    /\ listing = None
    /\ unlisted = {}

-----------------------------------------------------------------------------
PostParty(p) ==
    /\ listing = None
    /\ p \notin parties
    /\ parties' = parties \union {p}
    /\ UNCHANGED << accounts, assets, agents, permissions, policies, listing, unlisted >>

PostAccount(a, owner) ==
    /\ listing = None
    /\ a \notin Stored(accounts)
    /\ owner \in parties
    /\ accounts' = [ accounts EXCEPT ![a] = owner ]
    /\ UNCHANGED << parties, assets, agents, permissions, policies, listing, unlisted >>

PostAsset(s, issuer) ==
    /\ listing = None
    /\ s \notin Stored(assets)
    /\ issuer \in parties
    /\ assets' = [ assets EXCEPT ![s] = issuer ]
    /\ UNCHANGED << parties, accounts, agents, permissions, policies, listing, unlisted >>

\* The grants a new agent lists must exist; whose they are is not asked.
PostAgent(g, owner, permissionIds, policyIds) ==
    /\ listing = None
    /\ g \notin Stored(agents)
    /\ owner \in parties
    /\ permissionIds \subseteq IdsOf(permissions)
    /\ policyIds \subseteq IdsOf(PolicySet)
    /\ agents' = [ agents EXCEPT ![g] =
                    [ owner |-> owner, permissions |-> permissionIds,
                      policies |-> policyIds ] ]
    /\ UNCHANGED << parties, accounts, assets, permissions, policies, listing, unlisted >>

\* The first write of POST /permissions.  An agent among the subjects gets a second.
PostPermission(id, subject, action, asset) ==
    /\ listing = None
    /\ id \notin IdsOf(permissions)
    /\ subject \in parties \union Stored(accounts) \union Stored(agents)
    /\ asset \in Stored(assets) \union {AnyAsset}
    /\ permissions' = permissions \union
            {[ id |-> id, subject |-> subject, action |-> action, asset |-> asset ]}
    /\ listing' = IF subject \in Stored(agents)
                  THEN [ list |-> "permissions", agent |-> subject, id |-> id ]
                  ELSE None
    /\ UNCHANGED << parties, accounts, assets, agents, policies, unlisted >>

NewPolicy(id, agent, terms) ==
    [ id |-> id, agent |-> agent, maxTransaction |-> terms.maxTransaction,
      requiresApprovalAbove |-> terms.requiresApprovalAbove ]

\* Mutants of PostPolicy: the agent's list is written first, and the newest policy
\* comes first.
PostPolicyListedFirst(id, agent, terms) ==
    /\ listing = None
    /\ id \notin IdsOf(PolicySet)
    /\ agent \in Stored(agents)
    /\ agents' = [ agents EXCEPT ![agent].policies = @ \union {id} ]
    /\ UNCHANGED << parties, accounts, assets, permissions, policies, listing, unlisted >>

PostPolicyInFront(id, agent, terms) ==
    /\ listing = None
    /\ id \notin IdsOf(PolicySet)
    /\ agent \in Stored(agents)
    /\ policies' = << NewPolicy(id, agent, terms) >> \o policies
    /\ listing' = [ list |-> "policies", agent |-> agent, id |-> id ]
    /\ UNCHANGED << parties, accounts, assets, agents, permissions, unlisted >>

\* The first write of POST /policies.
PostPolicy(id, agent, terms) ==
    /\ listing = None
    /\ id \notin IdsOf(PolicySet)
    /\ agent \in Stored(agents)
    /\ policies' = Append(policies, NewPolicy(id, agent, terms))
    /\ listing' = [ list |-> "policies", agent |-> agent, id |-> id ]
    /\ UNCHANGED << parties, accounts, assets, agents, permissions, unlisted >>

\* The second write of either.
ListGrant ==
    /\ listing # None
    /\ agents' = IF listing.list = "permissions"
                 THEN [ agents EXCEPT ![listing.agent].permissions = @ \union {listing.id} ]
                 ELSE [ agents EXCEPT ![listing.agent].policies = @ \union {listing.id} ]
    /\ listing' = None
    /\ UNCHANGED << parties, accounts, assets, permissions, policies, unlisted >>

\* The process dies between the two and starts again from its file; or the first
\* write throws once memory has the grant (persistentCollection.ts assigns, then
\* saves), and the route never comes to the second.  A save of the second that throws
\* is left out: memory has the grant listed, as after ListGrant, and a crash before the
\* next write of anybody still leaves it unlisted.
Crash ==
    /\ listing # None
    /\ Cardinality(unlisted) < MaxCrashes
    /\ unlisted' = unlisted \union {listing.id}
    /\ listing' = None
    /\ UNCHANGED << parties, accounts, assets, agents, permissions, policies >>

RegistryNext ==
    \/ \E p \in Parties : PostParty(p)
    \/ \E a \in Accounts, p \in Parties : PostAccount(a, p)
    \/ \E s \in Assets, p \in Parties : PostAsset(s, p)
    \/ \E g \in Agents, p \in Parties, permissionIds \in SUBSET PermissionIds,
          policyIds \in SUBSET PolicyIds : PostAgent(g, p, permissionIds, policyIds)
    \/ \E id \in PermissionIds, subject \in Parties \union Accounts \union Agents,
          action \in Actions, asset \in Assets \union {AnyAsset} :
                PostPermission(id, subject, action, asset)
    \/ \E id \in PolicyIds, g \in Agents, terms \in Terms : PostPolicy(id, g, terms)
    \/ ListGrant
    \/ Crash
=============================================================================
