---------------------------- MODULE AtomicIntent ----------------------------
(***************************************************************************)
(* What executing an intent promises, whatever happens on the way: an      *)
(* intent that was posted is decided once.  Either it is executed, and in  *)
(* that one step its quantity moves between the two positions and its      *)
(* debit and credit enter the journal, or it fails and nothing moves.      *)
(***************************************************************************)
EXTENDS Integers, Sequences

CONSTANTS Accounts, Assets, Intents, IntentData, OpeningQuantities, NoPosition, None

VARIABLES
    positions,   \* <<account, asset>> -> quantity or NoPosition
    journal,     \* sequence of [intent, type]
    outcome      \* intent -> None, "pending", "executed" or "failed"

vars == << positions, journal, outcome >>

Key(i, account) == << account, IntentData[i].asset >>

Held(quantity) == IF quantity = NoPosition THEN 0 ELSE quantity

Init ==
    /\ positions = [ key \in Accounts \X Assets |-> NoPosition ]
    /\ journal = << >>
    /\ outcome = [ i \in Intents |-> None ]

Open(key, quantity) ==
    /\ positions[key] = NoPosition
    /\ positions' = [ positions EXCEPT ![key] = quantity ]
    /\ UNCHANGED << journal, outcome >>

Post(i) ==
    /\ outcome[i] = None
    /\ outcome' = [ outcome EXCEPT ![i] = "pending" ]
    /\ UNCHANGED << positions, journal >>

Fail(i) ==
    /\ outcome[i] = "pending"
    /\ outcome' = [ outcome EXCEPT ![i] = "failed" ]
    /\ UNCHANGED << positions, journal >>

Execute(i) ==
    LET from == Key(i, IntentData[i].from)
        to == Key(i, IntentData[i].to)
        debited == [ positions EXCEPT ![from] = @ - IntentData[i].quantity ]
    IN  /\ outcome[i] = "pending"
        /\ positions[from] # NoPosition
        /\ positions[from] >= IntentData[i].quantity
        /\ positions' = [ debited EXCEPT ![to] = Held(@) + IntentData[i].quantity ]
        /\ journal' = journal \o << [ intent |-> i, type |-> "debit" ],
                                    [ intent |-> i, type |-> "credit" ] >>
        /\ outcome' = [ outcome EXCEPT ![i] = "executed" ]

Next ==
    \/ \E key \in Accounts \X Assets, quantity \in OpeningQuantities : Open(key, quantity)
    \/ \E i \in Intents : Post(i) \/ Fail(i) \/ Execute(i)

Spec == Init /\ [][Next]_vars
=============================================================================
