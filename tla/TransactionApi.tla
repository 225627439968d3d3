--------------------------- MODULE TransactionApi ---------------------------
(***************************************************************************)
(* api/routes/transactions.ts: the second way into the engine.             *)
(*                                                                         *)
(* POST /transactions makes an intent and executes it at once, without the *)
(* intent's status ever being looked at or written, and keeps a record of  *)
(* the transaction.  POST /transactions/:id/execute executes the intent of *)
(* a record again, in a transaction with an identifier of its own.  Both   *)
(* share the intents with POST /intents/:id/execute (IntentApi).           *)
(*                                                                         *)
(* Restarts are left to IntentApi: this module asks what the routes do to  *)
(* each other while the process lives.                                     *)
(***************************************************************************)
EXTENDS IntentApi

VARIABLES
    records,     \* the stored transaction made for an intent by POST /transactions:
                 \* [status, run], or None; run is None until the record holds the
                 \* transaction that was executed
    caller,      \* the route that started each run
    beside       \* history: the runs of the same intent under way when each run started

callVars == << caller, beside >>

routeVars == << apiVars, records, callVars >>

RouteInit ==
    /\ ApiInit
    /\ records = [ i \in Intents |-> None ]
    /\ caller = [ r \in Runs |-> None ]
    /\ beside = [ r \in Runs |-> {} ]

CalledBy(r, i, route) ==
    /\ caller' = [ caller EXCEPT ![r] = route ]
    /\ beside' = [ beside EXCEPT ![r] = Executing(i) ]

\* The transaction of run r takes the place of the one the record was made with.
Record(r) ==
    records' = [ records EXCEPT ![intentOf'[r]] = [ status |-> status'[r], run |-> r ] ]

\* POST /transactions up to its first await or its end.  The intent is stored
\* first and stays when the transaction is refused; nothing asks whether the
\* accounts exist.
PostTransaction(r, i) ==
    /\ intents[i] = None
    /\ IntentData[i].agent \in Agents
    /\ intents' = [ intents EXCEPT ![i] = [ status |-> "pending", transactionId |-> None ] ]
    /\ CalledBy(r, i, "POST /transactions")
    /\ \/ RejectCreation(r, i) /\ UNCHANGED records
       \/ StartUnresolvable(r, i) /\ Record(r)
       \/ /\ StartSettlement(r, i)
          /\ records' = [ records EXCEPT ![i] = [ status |-> "created", run |-> None ] ]

\* Mutant of FinishPost: the record of a failed transaction is left alone.
FinishPostIfSettled(r) ==
    /\ caller[r] = "POST /transactions"
    /\ Finish(r)
    /\ IF status'[r] = "settled" THEN Record(r) ELSE UNCHANGED records
    /\ UNCHANGED << intents, callVars >>

\* The rest of it: the record gets the transaction as executed, the intent
\* nothing.
FinishPost(r) ==
    /\ caller[r] = "POST /transactions"
    /\ Finish(r)
    /\ Record(r)
    /\ UNCHANGED << intents, callVars >>

\* Mutant of Reexecutable: the status of the record is not asked for.
ReexecutableAlways(i) == records[i] # None

Reexecutable(i) == records[i] # None /\ records[i].status # "settled"

\* POST /transactions/:id/execute up to its first await or its end.
Reexecute(r, i) ==
    /\ Reexecutable(i)
    /\ IntentData[i].agent \in Agents
    /\ OverlappingExecutes \/ Executing(i) = {}
    /\ Start(r, i)
    /\ CalledBy(r, i, "POST /transactions/:id/execute")
    /\ UNCHANGED << intents, records >>

\* The rest of it.  The route looks for a record with the identifier of the
\* transaction it just executed, and there is none.
FinishReexecution(r) ==
    /\ caller[r] = "POST /transactions/:id/execute"
    /\ Finish(r)
    /\ UNCHANGED << intents, records, callVars >>

ExecutePosted(r, i) ==
    /\ ExecuteIntent(r, i)
    /\ CalledBy(r, i, "POST /intents/:id/execute")
    /\ UNCHANGED records

FinishPosted(r) ==
    /\ caller[r] = "POST /intents/:id/execute"
    /\ FinishIntent(r)
    /\ UNCHANGED << records, callVars >>

RouteNext ==
    \/ \E r \in Runs, i \in Intents :
            PostTransaction(r, i) \/ Reexecute(r, i) \/ ExecutePosted(r, i)
    \/ \E r \in Runs : FinishPost(r) \/ FinishReexecution(r) \/ FinishPosted(r)
    \/ /\ \/ \E i \in Intents : PostIntent(i)
          \/ \E r \in Runs : TransferReturns(r) /\ UNCHANGED intents
          \/ Registry /\ UNCHANGED intents
          \/ External /\ UNCHANGED intents
       /\ UNCHANGED << records, callVars >>

RouteSpec == RouteInit /\ [][RouteNext]_routeVars

-----------------------------------------------------------------------------
\* Properties.

\* A record that shows a run shows the status and the intent of that run, one
\* that shows none has its first execution under way.
RecordTellsItsRun ==
    \A i \in Intents : records[i] # None =>
        IF records[i].run = None
        THEN \E r \in InFlight : caller[r] = "POST /transactions" /\ intentOf[r] = i
        ELSE /\ intentOf[records[i].run] = i
             /\ caller[records[i].run] = "POST /transactions"
             /\ records[i].status = status[records[i].run]

Overlapped(r, s) == r \in beside[s] \/ s \in beside[r]

Family(r) == IF caller[r] = "POST /intents/:id/execute" THEN "intents" ELSE "transactions"

\* An intent is settled twice only when the two executions overlapped, when one came
\* through the intents route and one through the transactions routes, or when both
\* are re-executions: apart from these, the status of the intent and the status of
\* the record keep out every second settlement, whatever failed in between.
SettledAgainExplained ==
    \A i \in Intents : \A r, s \in { t \in Runs : intentOf[t] = i /\ status[t] = "settled" } :
        r # s =>
            \/ Overlapped(r, s)
            \/ Family(r) # Family(s)
            \/ { caller[r], caller[s] } = { "POST /transactions/:id/execute" }

\* A transaction that settled is refused from then on, whichever execution of it
\* settled ("Transaction has already been settled", api/routes/transactions.ts).
TransactionSettledOnce ==
    \A r, s \in Runs :
        (/\ { caller[r], caller[s] } = { "POST /transactions/:id/execute" }
         /\ { status[r], status[s] } = { "settled" }
         /\ intentOf[r] = intentOf[s]) => r = s
=============================================================================
