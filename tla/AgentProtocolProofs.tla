------------------------ MODULE AgentProtocolProofs -------------------------
(***************************************************************************)
(* Theorems about AgentProtocol over the registry, for any identifiers,    *)
(* terms, requests and number of crashes.                                  *)
(*                                                                         *)
(* IInv adds to RegistryConsistent what the second write of a grant relies *)
(* on: the first one has stored the grant under the identifier that is     *)
(* about to be listed.  ProposalsHeld says of a proposal what the policies *)
(* there were at the time say of it, and that they are still the first     *)
(* ones.                                                                   *)
(***************************************************************************)
EXTENDS AgentProtocol, WellFoundedInduction, TLAPS

PermissionRecords ==
    [ id : PermissionIds, subject : Parties \union Accounts \union Agents,
      action : Actions, asset : Assets \union {AnyAsset} ]

PolicyRecords ==
    [ id : PolicyIds, agent : Agents,
      maxTransaction : { t.maxTransaction : t \in Terms },
      requiresApprovalAbove : { t.requiresApprovalAbove : t \in Terms } ]

Proposals == [ requiresApproval : BOOLEAN, policies : Nat ]

Types ==
    /\ parties \subseteq Parties
    /\ accounts \in [ Accounts -> Parties \union {None} ]
    /\ assets \in [ Assets -> Parties \union {None} ]
    /\ agents \in [ Agents -> AgentRecords \union {None} ]
    /\ permissions \subseteq PermissionRecords
    /\ policies \in Seq(PolicyRecords)
    /\ listing \in Listings \union {None}
    /\ proposals \in [ Intents -> Proposals \union {None} ]

\* What is about to be listed is stored.
ListingExists ==
    listing # None =>
        /\ listing.agent \in Stored(agents)
        /\ IF listing.list = "permissions"
           THEN listing.id \in IdsOf(permissions)
           ELSE listing.id \in IdsOf(PolicySet)

\* GrantsListed, and what is pending is pending for the agent of the grant.
PermissionsListed ==
    \A p \in permissions : p.subject \in Stored(agents) =>
        \/ p.id \in agents[p.subject].permissions
        \/ p.id \in unlisted
        \/ listing = [ list |-> "permissions", agent |-> p.subject, id |-> p.id ]

PoliciesListed ==
    \A p \in PolicySet :
        \/ p.id \in agents[p.agent].policies
        \/ p.id \in unlisted
        \/ listing = [ list |-> "policies", agent |-> p.agent, id |-> p.id ]

IInv ==
    /\ Types
    /\ ReferencesExist
    /\ ListingExists
    /\ PermissionsListed
    /\ PoliciesListed

-----------------------------------------------------------------------------
LEMMA InitIInv == ProtocolInit => IInv
<1> SUFFICES ASSUME ProtocolInit PROVE IInv
    OBVIOUS
<1> USE DEF ProtocolInit, RegistryInit
<1>1. Types
    BY DEF Types
<1>2. PolicySet = {}
    BY DEF PolicySet
<1>3. Stored(accounts) = {} /\ Stored(assets) = {} /\ Stored(agents) = {}
      /\ Stored(proposals) = {}
    BY DEF Stored
<1>4. QED
    BY <1>1, <1>2, <1>3 DEF IInv, ReferencesExist, ListingExists, PermissionsListed,
                            PoliciesListed

\* A collection with one more entry.
LEMMA StoredGrows ==
    ASSUME NEW f, NEW x \in DOMAIN f, NEW y, y # None
    PROVE  Stored([ f EXCEPT ![x] = y ]) = Stored(f) \union {x}
<1> DEFINE g == [ f EXCEPT ![x] = y ]
<1>1. /\ DOMAIN g = DOMAIN f
      /\ g[x] = y
      /\ \A z \in DOMAIN f \ {x} : g[z] = f[z]
    OBVIOUS
<1> HIDE DEF g
<1>2. \A z : z \in Stored(g) <=> z \in Stored(f) \union {x}
    BY <1>1 DEF Stored
<1>3. Stored(g) = Stored(f) \union {x}
    BY <1>2
<1>4. QED
    BY <1>3 DEF g

\* A request that reads the registry only.
LEMMA ProposePreserves ==
    ASSUME IInv, NEW i \in Intents, Propose(i)
    PROVE  IInv'
<1> DEFINE made == [ requiresApproval |-> RequiresApproval(i), policies |-> Len(policies) ]
<1>1. made \in Proposals
    <2>1. Len(policies) \in Nat
        BY DEF IInv, Types
    <2>2. RequiresApproval(i) \in BOOLEAN
        BY DEF RequiresApproval
    <2>3. QED
        BY <2>1, <2>2 DEF Proposals
<1>2. proposals' = [ proposals EXCEPT ![i] = made ]
    BY DEF Propose
<1> HIDE DEF made
<1>3. UNCHANGED registryVars
    BY DEF Propose
<1>4. Types'
    BY <1>1, <1>2, <1>3 DEF IInv, Types, registryVars
<1>5. \A j \in Stored(proposals') : j = i \/ j \in Stored(proposals)
    BY <1>2 DEF Stored, IInv, Types
<1>6. PolicySet' = PolicySet
    BY <1>3 DEF registryVars, PolicySet
<1>7. ReferencesExist'
    BY <1>3, <1>5, <1>6 DEF IInv, ReferencesExist, registryVars, Propose
<1>8. QED
    BY <1>3, <1>4, <1>6, <1>7 DEF IInv, ListingExists, PermissionsListed, PoliciesListed,
                                   registryVars

LEMMA PartyPreserves ==
    ASSUME IInv, NEW p \in Parties, PostParty(p), UNCHANGED proposals
    PROVE  IInv'
<1>1. PolicySet' = PolicySet
    BY DEF PostParty, PolicySet
<1>2. Types'
    BY DEF IInv, Types, PostParty
<1>3. ReferencesExist'
    BY <1>1 DEF IInv, ReferencesExist, PostParty
<1>4. QED
    BY <1>1, <1>2, <1>3 DEF IInv, ListingExists, PermissionsListed, PoliciesListed, PostParty

LEMMA AccountPreserves ==
    ASSUME IInv, NEW a \in Accounts, NEW p \in Parties, PostAccount(a, p), UNCHANGED proposals
    PROVE  IInv'
<1>1. PolicySet' = PolicySet
    BY DEF PostAccount, PolicySet
<1>2. Types'
    BY DEF IInv, Types, PostAccount
<1>3. /\ Stored(accounts') = Stored(accounts) \union {a}
      /\ accounts'[a] = p
      /\ \A b \in Stored(accounts) \ {a} : accounts'[b] = accounts[b]
    <2>1. a \in DOMAIN accounts /\ accounts \in [ Accounts -> Parties \union {None} ]
        BY DEF IInv, Types
    <2>2. p # None
        BY RegistryAssumption
    <2>3. accounts' = [ accounts EXCEPT ![a] = p ]
        BY DEF PostAccount
    <2>4. Stored([ accounts EXCEPT ![a] = p ]) = Stored(accounts) \union {a}
        BY <2>1, <2>2, StoredGrows
    <2>5. Stored(accounts') = Stored(accounts) \union {a}
        BY <2>3, <2>4
    <2>6. /\ accounts'[a] = p
          /\ \A b \in Accounts \ {a} : accounts'[b] = accounts[b]
        BY <2>1, <2>3
    <2>7. Stored(accounts) \subseteq Accounts
        BY <2>1 DEF Stored
    <2>8. QED
        BY <2>5, <2>6, <2>7
<1>4. ReferencesExist'
    <2>1. p \in parties /\ UNCHANGED << parties, agents, permissions, policies, proposals,
                                        assets >>
        BY DEF PostAccount
    <2>2. QED
        BY <1>1, <1>3, <2>1 DEF IInv, ReferencesExist
<1>5. QED
    BY <1>1, <1>2, <1>4 DEF IInv, ListingExists, PermissionsListed, PoliciesListed, PostAccount

LEMMA AssetPreserves ==
    ASSUME IInv, NEW s \in Assets, NEW p \in Parties, PostAsset(s, p), UNCHANGED proposals
    PROVE  IInv'
<1>1. PolicySet' = PolicySet
    BY DEF PostAsset, PolicySet
<1>2. Types'
    BY DEF IInv, Types, PostAsset
<1>3. /\ Stored(assets') = Stored(assets) \union {s}
      /\ assets'[s] = p
      /\ \A b \in Stored(assets) \ {s} : assets'[b] = assets[b]
    <2>1. s \in DOMAIN assets /\ assets \in [ Assets -> Parties \union {None} ]
        BY DEF IInv, Types
    <2>2. p # None
        BY RegistryAssumption
    <2>3. assets' = [ assets EXCEPT ![s] = p ]
        BY DEF PostAsset
    <2>4. Stored([ assets EXCEPT ![s] = p ]) = Stored(assets) \union {s}
        BY <2>1, <2>2, StoredGrows
    <2>5. Stored(assets') = Stored(assets) \union {s}
        BY <2>3, <2>4
    <2>6. /\ assets'[s] = p
          /\ \A b \in Assets \ {s} : assets'[b] = assets[b]
        BY <2>1, <2>3
    <2>7. Stored(assets) \subseteq Assets
        BY <2>1 DEF Stored
    <2>8. QED
        BY <2>5, <2>6, <2>7
<1>4. ReferencesExist'
    <2>1. p \in parties /\ UNCHANGED << parties, agents, permissions, policies, proposals,
                                        accounts >>
        BY DEF PostAsset
    <2>2. QED
        BY <1>1, <1>3, <2>1 DEF IInv, ReferencesExist
<1>5. QED
    BY <1>1, <1>2, <1>4 DEF IInv, ListingExists, PermissionsListed, PoliciesListed, PostAsset

-----------------------------------------------------------------------------
\* Where nothing is pending every grant is listed, or its listing was lost.
LEMMA NothingPending ==
    ASSUME IInv, listing = None
    PROVE  /\ \A p \in permissions : p.subject \in Stored(agents) =>
                p.id \in agents[p.subject].permissions \/ p.id \in unlisted
           /\ \A p \in PolicySet :
                p.id \in agents[p.agent].policies \/ p.id \in unlisted
<1>1. \A p \in permissions : p.subject \in Stored(agents) =>
            [ list |-> "permissions", agent |-> p.subject, id |-> p.id ] # None
    <2> SUFFICES ASSUME NEW p \in permissions, p.subject \in Stored(agents)
                 PROVE  [ list |-> "permissions", agent |-> p.subject, id |-> p.id ] # None
        OBVIOUS
    <2>1. p.id \in PermissionIds /\ p.subject \in Agents
        BY DEF IInv, Types, PermissionRecords, Stored
    <2>2. [ list |-> "permissions", agent |-> p.subject, id |-> p.id ] \in Listings
        BY <2>1 DEF Listings
    <2>3. QED
        BY <2>2, RegistryAssumption
<1>2. \A p \in PolicySet : [ list |-> "policies", agent |-> p.agent, id |-> p.id ] # None
    <2> SUFFICES ASSUME NEW p \in PolicySet
                 PROVE  [ list |-> "policies", agent |-> p.agent, id |-> p.id ] # None
        OBVIOUS
    <2>1. p \in PolicyRecords
        BY DEF IInv, Types, PolicySet
    <2>2. [ list |-> "policies", agent |-> p.agent, id |-> p.id ] \in Listings
        BY <2>1 DEF Listings, PolicyRecords
    <2>3. QED
        BY <2>2, RegistryAssumption
<1>3. QED
    BY <1>1, <1>2 DEF IInv, PermissionsListed, PoliciesListed

\* No grant names an agent before it exists: identifiers of agents are none of
\* parties and accounts.
LEMMA NewAgentUngranted ==
    ASSUME IInv, NEW g \in Agents, g \notin Stored(agents)
    PROVE  /\ \A p \in permissions : p.subject # g
           /\ \A p \in PolicySet : p.agent # g
<1>1. g \notin parties /\ g \notin Stored(accounts)
    BY RegistryAssumption DEF IInv, Types, Stored
<1>2. QED
    BY <1>1 DEF IInv, ReferencesExist

LEMMA AgentPreserves ==
    ASSUME IInv, NEW g \in Agents, NEW p \in Parties, NEW permissionIds \in SUBSET PermissionIds,
           NEW policyIds \in SUBSET PolicyIds, PostAgent(g, p, permissionIds, policyIds),
           UNCHANGED proposals
    PROVE  IInv'
<1> DEFINE made == [ owner |-> p, permissions |-> permissionIds, policies |-> policyIds ]
<1>1. made \in AgentRecords
    BY DEF AgentRecords
<1>2. /\ made.owner = p
      /\ made.permissions = permissionIds
      /\ made.policies = policyIds
    OBVIOUS
<1>3. /\ agents' = [ agents EXCEPT ![g] = made ]
      /\ UNCHANGED << parties, accounts, assets, permissions, policies, listing, unlisted >>
      /\ g \notin Stored(agents)
      /\ listing = None
      /\ p \in parties
      /\ permissionIds \subseteq IdsOf(permissions)
      /\ policyIds \subseteq IdsOf(PolicySet)
    BY DEF PostAgent
<1> HIDE DEF made
<1>4. PolicySet' = PolicySet
    BY <1>3 DEF PolicySet
<1>5. Types'
    BY <1>1, <1>3 DEF IInv, Types
<1>6. /\ Stored(agents') = Stored(agents) \union {g}
      /\ agents'[g] = made
      /\ \A h \in Stored(agents) : agents'[h] = agents[h]
    <2>1. g \in DOMAIN agents /\ agents \in [ Agents -> AgentRecords \union {None} ]
        BY DEF IInv, Types
    <2>2. made # None
        BY <1>1, RegistryAssumption
    <2>3. agents' = [ agents EXCEPT ![g] = made ] /\ g \notin Stored(agents)
        BY <1>3
    <2>4. Stored([ agents EXCEPT ![g] = made ]) = Stored(agents) \union {g}
        BY <2>1, <2>2, StoredGrows
    <2>5. Stored(agents') = Stored(agents) \union {g}
        BY <2>3, <2>4
    <2>6. /\ agents'[g] = made
          /\ \A h \in Agents \ {g} : agents'[h] = agents[h]
        BY <2>1, <2>3
    <2>7. Stored(agents) \subseteq Agents
        BY <2>1 DEF Stored
    <2>8. QED
        BY <2>3, <2>5, <2>6, <2>7
<1>7. ReferencesExist'
    <2>1. IdsOf(permissions)' = IdsOf(permissions) /\ IdsOf(PolicySet)' = IdsOf(PolicySet)
        BY <1>3, <1>4 DEF IdsOf
    <2>2. \A h \in Stored(agents)' :
            /\ agents'[h].owner \in parties
            /\ agents'[h].permissions \subseteq IdsOf(permissions)
            /\ agents'[h].policies \subseteq IdsOf(PolicySet)
        BY <1>2, <1>3, <1>6 DEF IInv, ReferencesExist
    <2>3. QED
        BY <1>3, <1>4, <1>6, <2>1, <2>2 DEF IInv, ReferencesExist
<1>8. PermissionsListed' /\ PoliciesListed'
    <2>1. /\ \A q \in permissions : q.subject # g
          /\ \A q \in PolicySet : q.agent # g
        BY <1>3, NewAgentUngranted
    <2>2. \A q \in PolicySet : q.agent \in Stored(agents)
        BY DEF IInv, ReferencesExist
    <2>3. QED
        BY <1>3, <1>4, <1>6, <2>1, <2>2 DEF IInv, PermissionsListed, PoliciesListed
<1>9. QED
    BY <1>3, <1>5, <1>7, <1>8 DEF IInv, ListingExists

-----------------------------------------------------------------------------
LEMMA PermissionPreserves ==
    ASSUME IInv, NEW id \in PermissionIds, NEW subject \in Parties \union Accounts \union Agents,
           NEW action \in Actions, NEW asset \in Assets \union {AnyAsset},
           PostPermission(id, subject, action, asset), UNCHANGED proposals
    PROVE  IInv'
<1> DEFINE made == [ id |-> id, subject |-> subject, action |-> action, asset |-> asset ]
           pending == [ list |-> "permissions", agent |-> subject, id |-> id ]
<1>1. made \in PermissionRecords
    BY DEF PermissionRecords
<1>2. made.id = id /\ made.subject = subject /\ made.asset = asset
    OBVIOUS
<1>3. pending.list = "permissions" /\ pending.agent = subject /\ pending.id = id
    OBVIOUS
<1>4. subject \in Stored(agents) => pending \in Listings
    BY DEF Listings, Stored, IInv, Types
<1>5. /\ permissions' = permissions \union {made}
      /\ listing = None
      /\ listing' = IF subject \in Stored(agents) THEN pending ELSE None
      /\ UNCHANGED << parties, accounts, assets, agents, policies, unlisted >>
      /\ subject \in parties \union Stored(accounts) \union Stored(agents)
      /\ asset \in Stored(assets) \union {AnyAsset}
    BY DEF PostPermission
<1>6. pending = [ list |-> "permissions", agent |-> made.subject, id |-> made.id ]
    BY <1>2
<1> HIDE DEF made, pending
<1>7. PolicySet' = PolicySet
    BY <1>5 DEF PolicySet
<1>8. Types'
    BY <1>1, <1>4, <1>5 DEF IInv, Types
<1>9. ReferencesExist'
    <2>1. IdsOf(permissions) \subseteq IdsOf(permissions')
        BY <1>5 DEF IdsOf
    <2>2. QED
        BY <1>2, <1>5, <1>7, <2>1 DEF IInv, ReferencesExist
<1>10. ListingExists'
    BY <1>2, <1>3, <1>5 DEF ListingExists, IdsOf
<1>11. PermissionsListed'
    <2> SUFFICES ASSUME NEW q \in permissions', q.subject \in Stored(agents)
                 PROVE  \/ q.id \in agents[q.subject].permissions
                        \/ q.id \in unlisted
                        \/ listing' = [ list |-> "permissions", agent |-> q.subject,
                                        id |-> q.id ]
        BY <1>5 DEF PermissionsListed
    <2>1. CASE q = made
        BY <1>2, <1>5, <1>6, <2>1
    <2>2. CASE q \in permissions
        BY <1>5, <2>2, NothingPending
    <2>3. QED
        BY <1>5, <2>1, <2>2
<1>12. PoliciesListed'
    BY <1>5, <1>7, NothingPending DEF PoliciesListed
<1>13. QED
    BY <1>8, <1>9, <1>10, <1>11, <1>12 DEF IInv

LEMMA PolicyPreserves ==
    ASSUME IInv, NEW id \in PolicyIds, NEW g \in Agents, NEW terms \in Terms,
           PostPolicy(id, g, terms), UNCHANGED proposals
    PROVE  IInv'
<1> DEFINE made == NewPolicy(id, g, terms)
           pending == [ list |-> "policies", agent |-> g, id |-> id ]
<1>1. made \in PolicyRecords
    BY DEF PolicyRecords, NewPolicy
<1>2. made.id = id /\ made.agent = g
    BY DEF NewPolicy
<1>3. pending.list = "policies" /\ pending.agent = g /\ pending.id = id
    OBVIOUS
<1>4. pending \in Listings
    BY DEF Listings
<1>5. /\ policies' = Append(policies, made)
      /\ listing = None
      /\ listing' = pending
      /\ UNCHANGED << parties, accounts, assets, agents, permissions, unlisted >>
      /\ g \in Stored(agents)
    BY DEF PostPolicy
<1>6. pending = [ list |-> "policies", agent |-> made.agent, id |-> made.id ]
    BY <1>2
<1> HIDE DEF made, pending
<1>7. PolicySet' = PolicySet \union {made}
    <2>1. policies \in Seq(PolicyRecords)
        BY DEF IInv, Types
    <2>2. /\ Len(policies') = Len(policies) + 1
          /\ policies'[Len(policies) + 1] = made
          /\ \A n \in 1..Len(policies) : policies'[n] = policies[n]
          /\ Len(policies) \in Nat
        BY <1>1, <1>5, <2>1
    <2>3. \A p : p \in PolicySet' <=> p \in PolicySet \union {made}
        BY <2>2 DEF PolicySet
    <2>4. QED
        BY <2>3
<1>8. Types'
    BY <1>1, <1>4, <1>5 DEF IInv, Types
<1>9. ReferencesExist'
    <2>1. IdsOf(PolicySet) \subseteq IdsOf(PolicySet')
        BY <1>7 DEF IdsOf
    <2>2. QED
        BY <1>2, <1>5, <1>7, <2>1 DEF IInv, ReferencesExist
<1>10. ListingExists'
    BY <1>2, <1>3, <1>5, <1>7 DEF ListingExists, IdsOf
<1>11. PermissionsListed'
    BY <1>5, NothingPending DEF PermissionsListed
<1>12. PoliciesListed'
    BY <1>2, <1>5, <1>6, <1>7, NothingPending DEF PoliciesListed
<1>13. QED
    BY <1>8, <1>9, <1>10, <1>11, <1>12 DEF IInv

-----------------------------------------------------------------------------
\* The agent of a grant with the grant in its list.
Listing(g, id, list) ==
    IF list = "permissions"
    THEN [ agents EXCEPT ![g].permissions = @ \union {id} ]
    ELSE [ agents EXCEPT ![g].policies = @ \union {id} ]

LEMMA ListingGrows ==
    ASSUME Types, NEW g \in Stored(agents), NEW list \in { "permissions", "policies" },
           NEW id \in IF list = "permissions" THEN PermissionIds ELSE PolicyIds
    PROVE  /\ Listing(g, id, list) \in [ Agents -> AgentRecords \union {None} ]
           /\ Stored(Listing(g, id, list)) = Stored(agents)
           /\ \A h \in Stored(agents) \ {g} : Listing(g, id, list)[h] = agents[h]
           /\ Listing(g, id, list)[g].owner = agents[g].owner
           /\ Listing(g, id, list)[g].permissions =
                agents[g].permissions \union (IF list = "permissions" THEN {id} ELSE {})
           /\ Listing(g, id, list)[g].policies =
                agents[g].policies \union (IF list = "permissions" THEN {} ELSE {id})
<1> DEFINE made == IF list = "permissions"
                   THEN [ agents[g] EXCEPT !.permissions = @ \union {id} ]
                   ELSE [ agents[g] EXCEPT !.policies = @ \union {id} ]
<1>1. g \in Agents /\ agents[g] \in AgentRecords
    BY DEF Types, Stored
<1>2. /\ made \in AgentRecords
      /\ made.owner = agents[g].owner
      /\ made.permissions =
            agents[g].permissions \union (IF list = "permissions" THEN {id} ELSE {})
      /\ made.policies =
            agents[g].policies \union (IF list = "permissions" THEN {} ELSE {id})
    <2>1. CASE list = "permissions"
        BY <1>1, <2>1 DEF AgentRecords
    <2>2. CASE list = "policies"
        BY <1>1, <2>2 DEF AgentRecords
    <2>3. QED
        BY <2>1, <2>2
<1>3. Listing(g, id, list) = [ agents EXCEPT ![g] = made ]
    BY DEF Listing
<1>4. made # None
    BY <1>2, RegistryAssumption
<1> HIDE DEF made
<1>5. agents \in [ Agents -> AgentRecords \union {None} ]
    BY DEF Types
<1>6. Stored([ agents EXCEPT ![g] = made ]) = Stored(agents) \union {g}
    BY <1>1, <1>4, <1>5, StoredGrows
<1>7. Stored(Listing(g, id, list)) = Stored(agents)
    BY <1>3, <1>6
<1>8. /\ Listing(g, id, list) \in [ Agents -> AgentRecords \union {None} ]
      /\ Listing(g, id, list)[g] = made
      /\ \A h \in Agents \ {g} : Listing(g, id, list)[h] = agents[h]
    BY <1>1, <1>2, <1>3, <1>5
<1>9. Stored(agents) \subseteq Agents
    BY <1>5 DEF Stored
<1>10. QED
    BY <1>2, <1>7, <1>8, <1>9

LEMMA ListPreserves ==
    ASSUME IInv, ListGrant, UNCHANGED proposals
    PROVE  IInv'
<1> DEFINE g == listing.agent
           id == listing.id
           list == listing.list
           isPermission == list = "permissions"
<1>1. /\ listing # None
      /\ listing \in Listings
      /\ listing' = None
      /\ agents' = Listing(g, id, list)
      /\ UNCHANGED << parties, accounts, assets, permissions, policies, unlisted >>
    BY DEF ListGrant, Listing, IInv, Types
<1>2. /\ g \in Stored(agents)
      /\ list \in { "permissions", "policies" }
      /\ isPermission => id \in IdsOf(permissions)
      /\ ~isPermission => id \in IdsOf(PolicySet)
    BY <1>1 DEF IInv, ListingExists, Listings
<1>3. /\ isPermission => id \in PermissionIds
      /\ ~isPermission => id \in PolicyIds
    <2>1. \A p \in permissions : p.id \in PermissionIds
        BY DEF IInv, Types, PermissionRecords
    <2>2. \A p \in PolicySet : p \in PolicyRecords
        BY DEF IInv, Types, PolicySet
    <2>3. \A p \in PolicyRecords : p.id \in PolicyIds
        BY DEF PolicyRecords
    <2> HIDE DEF id, list
    <2>4. QED
        BY <1>2, <2>1, <2>2, <2>3 DEF IdsOf
<1>4. /\ agents' \in [ Agents -> AgentRecords \union {None} ]
      /\ Stored(agents') = Stored(agents)
      /\ \A h \in Stored(agents) \ {g} : agents'[h] = agents[h]
      /\ agents'[g].owner = agents[g].owner
      /\ agents'[g].permissions =
            agents[g].permissions \union (IF isPermission THEN {id} ELSE {})
      /\ agents'[g].policies =
            agents[g].policies \union (IF isPermission THEN {} ELSE {id})
    <2>1. Types
        BY DEF IInv
    <2> HIDE DEF g, id
    <2>2. QED
        BY <1>1, <1>2, <1>3, <2>1, ListingGrows
<1>5. PolicySet' = PolicySet
    BY <1>1 DEF PolicySet
<1>6. Types'
    BY <1>1, <1>4 DEF IInv, Types
<1>7. ReferencesExist'
    <2>1. IdsOf(permissions)' = IdsOf(permissions) /\ IdsOf(PolicySet)' = IdsOf(PolicySet)
        BY <1>1, <1>5 DEF IdsOf
    <2>2. \A h \in Stored(agents) :
            /\ agents'[h].owner \in parties
            /\ agents'[h].permissions \subseteq IdsOf(permissions)
            /\ agents'[h].policies \subseteq IdsOf(PolicySet)
        BY <1>2, <1>4 DEF IInv, ReferencesExist
    <2>3. QED
        BY <1>1, <1>4, <1>5, <2>1, <2>2 DEF IInv, ReferencesExist
<1>8. PermissionsListed'
    <2> SUFFICES ASSUME NEW p \in permissions, p.subject \in Stored(agents)
                 PROVE  p.id \in agents'[p.subject].permissions \/ p.id \in unlisted
        BY <1>1, <1>4 DEF PermissionsListed
    <2>1. CASE listing = [ list |-> "permissions", agent |-> p.subject, id |-> p.id ]
        BY <1>4, <2>1
    <2>2. CASE p.id \in agents[p.subject].permissions
        BY <1>4, <2>2
    <2>3. QED
        BY <2>1, <2>2 DEF IInv, PermissionsListed
<1>9. PoliciesListed'
    <2> SUFFICES ASSUME NEW p \in PolicySet
                 PROVE  p.id \in agents'[p.agent].policies \/ p.id \in unlisted
        BY <1>1, <1>5 DEF PoliciesListed
    <2>1. p.agent \in Stored(agents)
        BY DEF IInv, ReferencesExist
    <2>2. CASE listing = [ list |-> "policies", agent |-> p.agent, id |-> p.id ]
        BY <1>4, <2>2
    <2>3. CASE p.id \in agents[p.agent].policies
        BY <1>4, <2>1, <2>3
    <2>4. QED
        BY <2>2, <2>3 DEF IInv, PoliciesListed
<1>10. QED
    BY <1>1, <1>6, <1>7, <1>8, <1>9 DEF IInv, ListingExists

LEMMA CrashPreserves ==
    ASSUME IInv, Crash, UNCHANGED proposals
    PROVE  IInv'
<1>1. /\ unlisted' = unlisted \union {listing.id}
      /\ listing' = None
      /\ UNCHANGED << parties, accounts, assets, agents, permissions, policies >>
    BY DEF Crash
<1>2. PolicySet' = PolicySet
    BY <1>1 DEF PolicySet
<1>3. Types'
    BY <1>1 DEF IInv, Types
<1>4. ReferencesExist'
    BY <1>1, <1>2 DEF IInv, ReferencesExist
<1>5. PermissionsListed' /\ PoliciesListed'
    BY <1>1, <1>2 DEF IInv, PermissionsListed, PoliciesListed
<1>6. QED
    BY <1>1, <1>3, <1>4, <1>5 DEF IInv, ListingExists

-----------------------------------------------------------------------------
LEMMA StepIInv == IInv /\ [ProtocolNext]_protocolVars => IInv'
<1> SUFFICES ASSUME IInv, [ProtocolNext]_protocolVars PROVE IInv'
    OBVIOUS
<1>1. CASE \E i \in Intents : Propose(i)
    BY <1>1, ProposePreserves
<1>2. CASE RegistryNext /\ UNCHANGED proposals
    BY <1>2, PartyPreserves, AccountPreserves, AssetPreserves, AgentPreserves,
       PermissionPreserves, PolicyPreserves, ListPreserves, CrashPreserves DEF RegistryNext
<1>3. CASE UNCHANGED protocolVars
    <2>1. UNCHANGED registryVars /\ UNCHANGED proposals
        BY <1>3 DEF protocolVars
    <2>2. PolicySet' = PolicySet
        BY <2>1 DEF registryVars, PolicySet
    <2>3. QED
        BY <2>1, <2>2 DEF IInv, Types, ReferencesExist, ListingExists, PermissionsListed,
                          PoliciesListed, registryVars
<1>4. QED
    BY <1>1, <1>2, <1>3 DEF ProtocolNext

\* For any parties, accounts, assets, agents, grants and crashes: nothing stored names
\* what is not stored, and an agent's lists hold every grant that authorisation holds
\* against it but those whose listing a crash cut off.
THEOREM RegistryStaysConsistent == ProtocolSpec => []RegistryConsistent
<1>1. IInv => RegistryConsistent
    <2> SUFFICES ASSUME IInv PROVE GrantsListed
        BY DEF IInv, RegistryConsistent
    <2>1. ASSUME NEW p \in permissions, p.subject \in Stored(agents)
          PROVE  \/ p.id \in agents[p.subject].permissions
                 \/ p.id \in unlisted
                 \/ Pending(p.id)
        BY <2>1, NothingPending DEF IInv, PermissionsListed, Pending
    <2>2. ASSUME NEW p \in PolicySet
          PROVE  \/ p.id \in agents[p.agent].policies
                 \/ p.id \in unlisted
                 \/ Pending(p.id)
        BY NothingPending DEF IInv, PoliciesListed, Pending
    <2>3. QED
        BY <2>1, <2>2 DEF GrantsListed
<1>2. QED
    BY InitIInv, StepIInv, <1>1, PTL DEF ProtocolSpec

-----------------------------------------------------------------------------
\* Policy n has something to say about the request.
Speaks(i, n) ==
    /\ Own(i, n)
    /\ \/ Exceeds(RequestData[i].quantity, policies[n].maxTransaction)
       \/ Exceeds(RequestData[i].quantity, policies[n].requiresApprovalAbove)

\* What the policies there were when the intent was proposed say of it.
Held(i) ==
    /\ Permitted(i)
    /\ proposals[i].policies \in 0..Len(policies)
    /\ proposals[i].requiresApproval <=> \E n \in 1..proposals[i].policies : Speaks(i, n)
    /\ \A n \in 1..proposals[i].policies :
            (Speaks(i, n) /\ \A m \in 1..n - 1 : ~Speaks(i, m)) =>
                ~Exceeds(RequestData[i].quantity, policies[n].maxTransaction)

ProposalsHeld == \A i \in Stored(proposals) : Held(i)

LEMMA DecisiveSpeaks ==
    ASSUME NEW i, policies \in Seq(PolicyRecords)
    PROVE  Decisive(RequestData[i].agent, RequestData[i].quantity, policies)
                = { n \in 1..Len(policies) : Speaks(i, n) }
BY DEF Decisive, Speaks, Own

LEMMA ProposeHeld ==
    ASSUME Types, ProposalsHeld, NEW i \in Intents, Propose(i)
    PROVE  ProposalsHeld'
<1> DEFINE made == [ requiresApproval |-> RequiresApproval(i), policies |-> Len(policies) ]
<1>1. /\ Len(policies) \in Nat
      /\ policies \in Seq(PolicyRecords)
      /\ proposals \in [ Intents -> Proposals \union {None} ]
    BY DEF Types
<1>2. /\ made.policies = Len(policies)
      /\ made.requiresApproval <=> RequiresApproval(i)
    BY DEF RequiresApproval
<1>3. proposals' = [ proposals EXCEPT ![i] = made ] /\ UNCHANGED << policies, permissions >>
    BY DEF Propose, registryVars
<1> HIDE DEF made
<1>4. /\ proposals'[i] = made
      /\ \A j \in Stored(proposals') : j = i \/ (j \in Stored(proposals) /\ proposals'[j] = proposals[j])
    BY <1>1, <1>3 DEF Stored
<1>5. Permitted(i) /\ WithinPolicies(i)
    BY DEF Propose
<1>6. RequiresApproval(i) <=> \E n \in 1..Len(policies) : Speaks(i, n)
    BY <1>1, <1>5, DecisiveSpeaks DEF RequiresApproval
<1>7. \A n \in 1..Len(policies) :
            (Speaks(i, n) /\ \A m \in 1..n - 1 : ~Speaks(i, m)) =>
                ~Exceeds(RequestData[i].quantity, policies[n].maxTransaction)
    <2> SUFFICES ASSUME NEW n \in 1..Len(policies), Speaks(i, n),
                        \A m \in 1..n - 1 : ~Speaks(i, m)
                 PROVE  ~Exceeds(RequestData[i].quantity, policies[n].maxTransaction)
        OBVIOUS
    <2>1. \A m \in { k \in 1..Len(policies) : Speaks(i, k) } : n <= m
        BY <1>1
    <2>2. QED
        BY <1>1, <1>5, <2>1, DecisiveSpeaks DEF WithinPolicies, PolicyAllows
<1>8. \A j, n : Speaks(j, n)' <=> Speaks(j, n)
    BY <1>3 DEF Speaks, Own
<1>9. \A j : Permitted(j)' <=> Permitted(j)
    BY <1>3 DEF Permitted
<1>10. Held(i)'
    BY <1>1, <1>2, <1>3, <1>4, <1>5, <1>6, <1>7, <1>8, <1>9 DEF Held
<1>11. ASSUME NEW j \in Stored(proposals'), j # i PROVE Held(j)'
    BY <1>3, <1>4, <1>8, <1>9, <1>11 DEF Held, ProposalsHeld
<1>12. QED
    BY <1>10, <1>11 DEF ProposalsHeld

\* The registry grows: permissions stay, and a policy comes last.
LEMMA RegistryGrows ==
    ASSUME Types, RegistryNext
    PROVE  /\ permissions \subseteq permissions'
           /\ \/ UNCHANGED policies
              \/ \E policy \in PolicyRecords : policies' = Append(policies, policy)
<1>1. ASSUME NEW id \in PolicyIds, NEW g \in Agents, NEW terms \in Terms,
             PostPolicy(id, g, terms)
      PROVE  /\ UNCHANGED permissions
             /\ \E policy \in PolicyRecords : policies' = Append(policies, policy)
    <2>1. NewPolicy(id, g, terms) \in PolicyRecords
        BY DEF PolicyRecords, NewPolicy
    <2>2. QED
        BY <1>1, <2>1 DEF PostPolicy
<1>2. ASSUME NEW id \in PermissionIds, NEW subject \in Parties \union Accounts \union Agents,
             NEW action \in Actions, NEW asset \in Assets \union {AnyAsset},
             PostPermission(id, subject, action, asset)
      PROVE  permissions \subseteq permissions' /\ UNCHANGED policies
    BY <1>2 DEF PostPermission
<1>3. QED
    BY <1>1, <1>2 DEF RegistryNext, PostParty, PostAccount, PostAsset, PostAgent, ListGrant,
                      Crash

LEMMA RegistryHeld ==
    ASSUME Types, ProposalsHeld, RegistryNext, UNCHANGED proposals
    PROVE  ProposalsHeld'
<1>1. policies \in Seq(PolicyRecords) /\ Len(policies) \in Nat
    BY DEF Types
<1>2. permissions \subseteq permissions'
    BY RegistryGrows
<1>3. /\ \A n \in 1..Len(policies) : policies'[n] = policies[n]
      /\ Len(policies') \in Nat
      /\ Len(policies) <= Len(policies')
    <2>1. CASE UNCHANGED policies
        BY <1>1, <2>1
    <2>2. CASE \E policy \in PolicyRecords : policies' = Append(policies, policy)
        BY <1>1, <2>2
    <2>3. QED
        BY <2>1, <2>2, RegistryGrows
<1>4. ASSUME NEW i, Held(i) PROVE Held(i)'
    <2>1. Permitted(i)'
        BY <1>2, <1>4 DEF Held, Permitted, HasPermission
    <2>2. proposals[i].policies \in 0..Len(policies)
        BY <1>4 DEF Held
    <2>3. \A n \in 1..proposals[i].policies : policies'[n] = policies[n]
        BY <1>1, <1>3, <2>2
    <2>4. \A n \in 1..proposals[i].policies : Speaks(i, n)' <=> Speaks(i, n)
        BY <2>3 DEF Speaks, Own
    <2>5. proposals'[i].policies \in 0..Len(policies')
        BY <1>1, <1>3, <2>2
    <2>6. proposals'[i].requiresApproval <=> \E n \in 1..proposals[i].policies : Speaks(i, n)'
        BY <1>4, <2>4 DEF Held
    <2>7. \A n \in 1..proposals[i].policies :
            (Speaks(i, n)' /\ \A m \in 1..n - 1 : ~Speaks(i, m)') =>
                ~Exceeds(RequestData[i].quantity, policies'[n].maxTransaction)
        <3> SUFFICES ASSUME NEW n \in 1..proposals[i].policies, Speaks(i, n)',
                            \A m \in 1..n - 1 : ~Speaks(i, m)'
                     PROVE  ~Exceeds(RequestData[i].quantity, policies'[n].maxTransaction)
            OBVIOUS
        <3>1. \A m \in 1..n - 1 : m \in 1..proposals[i].policies
            BY <2>2
        <3>2. Speaks(i, n) /\ \A m \in 1..n - 1 : ~Speaks(i, m)
            BY <2>4, <3>1
        <3>3. ~Exceeds(RequestData[i].quantity, policies[n].maxTransaction)
            BY <1>4, <3>2 DEF Held
        <3>4. QED
            BY <2>3, <3>3
    <2>8. QED
        BY <2>1, <2>5, <2>6, <2>7 DEF Held
<1>5. QED
    BY <1>4 DEF ProposalsHeld

LEMMA StepHeld == Types /\ ProposalsHeld /\ [ProtocolNext]_protocolVars => ProposalsHeld'
<1> SUFFICES ASSUME Types, ProposalsHeld, [ProtocolNext]_protocolVars PROVE ProposalsHeld'
    OBVIOUS
<1>1. CASE UNCHANGED protocolVars
    BY <1>1 DEF protocolVars, registryVars, ProposalsHeld, Held, Speaks, Own, Permitted
<1>2. QED
    BY <1>1, ProposeHeld, RegistryHeld DEF ProtocolNext

LEMMA SpecHeld == ProtocolSpec => [](Types /\ ProposalsHeld)
<1>1. ProtocolInit => ProposalsHeld
    BY DEF ProtocolInit, ProposalsHeld, Stored
<1>2. IInv => Types
    BY DEF IInv
<1>3. QED
    BY InitIInv, StepIInv, StepHeld, <1>1, <1>2, PTL DEF ProtocolSpec

LEMMA LeastNatural ==
    ASSUME NEW T \in SUBSET Nat, T # {}
    PROVE  \E x \in T : \A y \in T : x <= y
<1> DEFINE less == OpToRel(<, Nat)
<1>1. \E x \in T : \A y \in T : ~(<< y, x >> \in less)
    BY WFMin, NatLessThanWellFounded, Zenon
<1>2. \A x, y \in Nat : y < x => << y, x >> \in less
    BY Zenon DEF OpToRel
<1> HIDE DEF less
<1>3. PICK x \in T : \A y \in T : << y, x >> \notin less
    BY <1>1, Zenon
<1>4. \A y \in T : ~(y < x)
    BY <1>2, <1>3, Zenon
<1>5. \A y \in T : x <= y
    BY <1>4
<1>6. QED
    BY <1>5

\* For any policies in any order: a limit that a stored intent exceeds was hidden by an
\* approval threshold of an earlier policy, and the agent was told so.
THEOREM LimitsHiddenByApproval == ProtocolSpec => []LimitHiddenOnlyByApproval
<1>1. Types /\ ProposalsHeld => LimitHiddenOnlyByApproval
    <2> SUFFICES ASSUME Types, NEW i \in Stored(proposals), Held(i),
                        NEW n \in 1..proposals[i].policies, Own(i, n),
                        Exceeds(RequestData[i].quantity, policies[n].maxTransaction)
                 PROVE  /\ proposals[i].requiresApproval
                        /\ \E m \in 1..n - 1 :
                                /\ Own(i, m)
                                /\ Exceeds(RequestData[i].quantity,
                                           policies[m].requiresApprovalAbove)
        BY DEF LimitHiddenOnlyByApproval, ProposalsHeld
    <2> DEFINE speaking == { m \in 1..proposals[i].policies : Speaks(i, m) }
    <2>1. Speaks(i, n)
        BY DEF Speaks
    <2>2. /\ proposals[i].policies \in Nat
          /\ n \in speaking
          /\ speaking \in SUBSET Nat
        BY <2>1 DEF Held
    <2>3. PICK m \in speaking : \A k \in speaking : m <= k
        BY <2>2, LeastNatural
    <2>4. m \in 1..proposals[i].policies /\ m <= n /\ Speaks(i, m)
        BY <2>2, <2>3
    <2>5. \A k \in 1..m - 1 : ~Speaks(i, k)
        BY <2>2, <2>3, <2>4
    <2>6. ~Exceeds(RequestData[i].quantity, policies[m].maxTransaction)
        BY <2>4, <2>5 DEF Held
    <2>7. m \in 1..n - 1
        BY <2>2, <2>4, <2>6
    <2>8. QED
        BY <2>1, <2>4, <2>6, <2>7 DEF Held, Speaks
<1>2. QED
    BY SpecHeld, <1>1, PTL

\* For any later grants: a stored intent stays permitted, and only a policy younger
\* than the proposal refuses it.
THEOREM AuthorizationsLast == ProtocolSpec => []AuthorizationLasts
<1>1. Types /\ ProposalsHeld => AuthorizationLasts
    <2> SUFFICES ASSUME Types, NEW i \in Stored(proposals), Held(i), ~WithinPolicies(i)
                 PROVE  /\ ~proposals[i].requiresApproval
                        /\ \E n \in proposals[i].policies + 1..Len(policies) :
                                /\ Own(i, n)
                                /\ Exceeds(RequestData[i].quantity, policies[n].maxTransaction)
        BY DEF AuthorizationLasts, ProposalsHeld, Held
    <2>1. /\ policies \in Seq(PolicyRecords)
          /\ Len(policies) \in Nat
          /\ proposals[i].policies \in 0..Len(policies)
        BY DEF Types, Held
    <2> DEFINE speaking == { m \in 1..Len(policies) : Speaks(i, m) }
    <2>2. PICK n \in speaking :
            /\ \A m \in speaking : n <= m
            /\ Exceeds(RequestData[i].quantity, policies[n].maxTransaction)
        BY <2>1, DecisiveSpeaks DEF WithinPolicies, PolicyAllows
    <2>3. n \in 1..Len(policies) /\ Speaks(i, n)
        BY <2>2
    <2>4. \A m \in 1..Len(policies) : Speaks(i, m) => n <= m
        BY <2>2
    <2>5. \A m \in 1..n - 1 : ~Speaks(i, m)
        BY <2>1, <2>3, <2>4
    <2>6. n \notin 1..proposals[i].policies
        BY <2>2, <2>3, <2>5 DEF Held
    <2>7. n \in proposals[i].policies + 1..Len(policies)
        BY <2>1, <2>3, <2>6
    <2>8. \A m \in 1..proposals[i].policies : ~Speaks(i, m)
        BY <2>1, <2>4, <2>7
    <2>9. ~proposals[i].requiresApproval
        BY <2>8 DEF Held
    <2>10. QED
        BY <2>2, <2>3, <2>7, <2>9 DEF Speaks
<1>2. QED
    BY SpecHeld, <1>1, PTL
=============================================================================
