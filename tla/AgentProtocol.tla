--------------------------- MODULE AgentProtocol ----------------------------
(***************************************************************************)
(* api/routes/agentProtocol.ts and engines/agentProtocolEngine.ts: an      *)
(* agent proposes an intent, and it is stored only when the agent is       *)
(* authorised at that moment.                                              *)
(*                                                                         *)
(* The intent is executed later, by POST /intents/:id/execute, and         *)
(* createTransaction authorises it again with the permissions and policies *)
(* there are then (Creatable of TransactionExecution).  Between the two    *)
(* the registry grows.                                                     *)
(***************************************************************************)
EXTENDS Registry

CONSTANTS
    Intents,             \* requests of POST /agent/intents
    RequestData          \* [Intents -> [agent, type, from, to, asset, quantity]]

VARIABLE proposals       \* intent -> [requiresApproval, policies], None until stored: what
                         \* the agent was answered; history: the number of policies then

protocolVars == << registryVars, proposals >>

ProtocolInit == RegistryInit /\ proposals = [ i \in Intents |-> None ]

Permitted(i) ==
    HasPermission(RequestData[i].agent, RequestData[i].type, RequestData[i].asset, permissions)

WithinPolicies(i) == PolicyAllows(RequestData[i].agent, RequestData[i].quantity, policies)

\* evaluatePolicy allows because of an approval threshold.
RequiresApproval(i) ==
    /\ Decisive(RequestData[i].agent, RequestData[i].quantity, policies) # {}
    /\ WithinPolicies(i)

\* Mutant of Propose: the policies are left to the execution.
ProposeUnchecked(i) ==
    /\ listing = None
    /\ proposals[i] = None
    /\ RequestData[i].agent \in Stored(agents)
    /\ { RequestData[i].from, RequestData[i].to } \subseteq Stored(accounts)
    /\ RequestData[i].asset \in Stored(assets)
    /\ Permitted(i)
    /\ proposals' = [ proposals EXCEPT ![i] =
                        [ requiresApproval |-> RequiresApproval(i),
                          policies |-> Len(policies) ] ]
    /\ UNCHANGED registryVars

\* POST /agent/intents.
Propose(i) ==
    /\ listing = None
    /\ proposals[i] = None
    /\ RequestData[i].agent \in Stored(agents)
    /\ { RequestData[i].from, RequestData[i].to } \subseteq Stored(accounts)
    /\ RequestData[i].asset \in Stored(assets)
    /\ Permitted(i)
    /\ WithinPolicies(i)
    /\ proposals' = [ proposals EXCEPT ![i] =
                        [ requiresApproval |-> RequiresApproval(i),
                          policies |-> Len(policies) ] ]
    /\ UNCHANGED registryVars

ProtocolNext ==
    \/ \E i \in Intents : Propose(i)
    \/ RegistryNext /\ UNCHANGED proposals

ProtocolSpec == ProtocolInit /\ [][ProtocolNext]_protocolVars

-----------------------------------------------------------------------------
\* Properties.

\* Nothing stored names what is not stored, whenever the process dies.
ReferencesExist ==
    /\ \A a \in Stored(accounts) : accounts[a] \in parties
    /\ \A s \in Stored(assets) : assets[s] \in parties
    /\ \A g \in Stored(agents) :
            /\ agents[g].owner \in parties
            /\ agents[g].permissions \subseteq IdsOf(permissions)
            /\ agents[g].policies \subseteq IdsOf(PolicySet)
    /\ \A p \in permissions : /\ p.subject \in parties \union Stored(accounts) \union Stored(agents)
                              /\ p.asset \in Stored(assets) \union {AnyAsset}
    /\ \A p \in PolicySet : p.agent \in Stored(agents)
    /\ \A i \in Stored(proposals) :
            /\ RequestData[i].agent \in Stored(agents)
            /\ { RequestData[i].from, RequestData[i].to } \subseteq Stored(accounts)
            /\ RequestData[i].asset \in Stored(assets)

Pending(id) == listing # None /\ listing.id = id

\* An agent lists every grant that authorisation holds against it, unless a crash
\* came between the two writes.
GrantsListed ==
    /\ \A p \in permissions : p.subject \in Stored(agents) =>
            p.id \in agents[p.subject].permissions \/ p.id \in unlisted \/ Pending(p.id)
    /\ \A p \in PolicySet :
            p.id \in agents[p.agent].policies \/ p.id \in unlisted \/ Pending(p.id)

\* References and lists agree with the collections across crashes between the two
\* writes of a grant: the grant is written before the list that names it.
RegistryConsistent == ReferencesExist /\ GrantsListed

Own(i, n) == policies[n].agent = RequestData[i].agent

\* An intent over a limit of its agent is stored only when an approval threshold of
\* an earlier policy hid that limit, and the agent was then told that it requires
\* approval.
LimitHiddenOnlyByApproval ==
    \A i \in Stored(proposals) : \A n \in 1..proposals[i].policies :
        (Own(i, n) /\ Exceeds(RequestData[i].quantity, policies[n].maxTransaction)) =>
            /\ proposals[i].requiresApproval
            /\ \E m \in 1..n - 1 :
                    /\ Own(i, m)
                    /\ Exceeds(RequestData[i].quantity, policies[m].requiresApprovalAbove)

\* A stored intent stays authorised: a permission is never taken back, and only a
\* policy made after the proposal can refuse the execution, not even that once an
\* approval threshold has let the intent through.
AuthorizationLasts ==
    \A i \in Stored(proposals) :
        /\ Permitted(i)
        /\ \/ WithinPolicies(i)
           \/ /\ ~proposals[i].requiresApproval
              /\ \E n \in proposals[i].policies + 1..Len(policies) :
                    /\ Own(i, n)
                    /\ Exceeds(RequestData[i].quantity, policies[n].maxTransaction)
=============================================================================
