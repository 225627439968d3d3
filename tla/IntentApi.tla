----------------------------- MODULE IntentApi ------------------------------
(***************************************************************************)
(* The intents of api/routes/intents.ts and their execution by             *)
(* engines/intentExecutionEngine.ts, on top of the transaction engine.     *)
(*                                                                         *)
(* POST /intents/:id/execute reads the intent's status, awaits the engine, *)
(* and then writes the intent from what it read: nothing in between marks  *)
(* the intent as taken.  OverlappingExecutes says whether clients may have *)
(* two execute requests for one intent under way at once.  They cannot     *)
(* when the adapter answers without I/O, as the two in the repository do:  *)
(* a request then runs to its end before the next one is served.           *)
(***************************************************************************)
EXTENDS TransactionExecution

CONSTANTS Agents, OverlappingExecutes

ASSUME OverlappingAssumption == OverlappingExecutes \in BOOLEAN

\* The intents POST /intents stores.
StoredIntents == [ status : IntentStatuses, transactionId : Runs \union {None} ]

ASSUME NoIntentAssumption == None \notin StoredIntents

VARIABLE intents      \* intent -> [status, transactionId], None until posted

apiVars == << vars, intents >>

ApiInit == Init /\ intents = [ i \in Intents |-> None ]

\* POST /intents: the agent, the accounts and the asset must exist.
PostIntent(i) ==
    /\ intents[i] = None
    /\ IntentData[i].agent \in Agents
    /\ { IntentData[i].from, IntentData[i].to } \subseteq Accounts
    /\ IntentData[i].asset \in Assets
    /\ intents' = [ intents EXCEPT ![i] = [ status |-> "pending", transactionId |-> None ] ]
    /\ unsaved' = None
    /\ UNCHANGED << positions, opened, ledger, representations, pc, intentOf, status,
                    instruction, via, external, balances, evidence, crashes >>

\* Mutant of Executable: an executed or failed intent may be executed again.
ExecutableAlways(i) == intents[i] # None

Executable(i) == intents[i] # None /\ intents[i].status \notin { "executed", "failed" }

Executing(i) == { r \in InFlight : intentOf[r] = i }

\* The outcome of run r is written into its intent once its transaction has
\* ended.  The transition is checked against the status read before the run
\* started, and that can only have been "pending".
Consume(r) ==
    intents' = [ intents EXCEPT ![intentOf'[r]] =
                    [ status |-> IntentAfter("pending",
                                    IF status'[r] = "settled" THEN "executed" ELSE "failed"),
                      transactionId |-> r ] ]

\* POST /intents/:id/execute up to its first await, or to its end when it needs
\* none.  A refused creation leaves the intent as it was.
ExecuteIntent(r, i) ==
    /\ Executable(i)
    /\ IntentData[i].agent \in Agents
    /\ OverlappingExecutes \/ Executing(i) = {}
    /\ \/ RejectCreation(r, i) /\ UNCHANGED intents
       \/ StartSettlement(r, i) /\ UNCHANGED intents
       \/ StartUnresolvable(r, i) /\ Consume(r)

\* Mutant of FinishIntent: the intent of a failed transaction is left pending.
FinishIntentKeepingFailed(r) ==
    /\ Finish(r)
    /\ IF status'[r] = "settled" THEN Consume(r) ELSE UNCHANGED intents

\* The rest of it, once the adapter has answered.
FinishIntent(r) == Finish(r) /\ Consume(r)

ApiNext ==
    \/ \E i \in Intents : PostIntent(i)
    \/ \E r \in Runs, i \in Intents : ExecuteIntent(r, i)
    \/ \E r \in Runs : FinishIntent(r)
    \/ \E r \in Runs : TransferReturns(r) /\ UNCHANGED intents
    \/ Registry /\ UNCHANGED intents
    \/ External /\ UNCHANGED intents
    \/ Crash /\ UNCHANGED intents

ApiFairness == \A r \in Runs : WF_apiVars(\/ TransferReturns(r) /\ UNCHANGED intents
                                          \/ FinishIntent(r))

ApiSpec == ApiInit /\ [][ApiNext]_apiVars /\ ApiFairness

-----------------------------------------------------------------------------
\* Properties.

\* Every intent is absent or has a status and the run that decided it.
ApiTypeOK == intents \in [ Intents -> {None} \union StoredIntents ]

Consumed(i) == intents[i] # None /\ intents[i].status # "pending"

\* A consumed intent points at a transaction of its own that has ended, and says
\* executed exactly when that transaction is settled; an intent not yet consumed
\* has no ended transaction behind it.  Like every claim of this module it is about
\* crashes at awaits; what one inside the last segment leaves is ExecutedIsBooked
\* and RepeatExplained of DurableSettlement.
ConsumedConsistent ==
    \A i \in Intents :
        IF Consumed(i)
        THEN LET r == intents[i].transactionId
             IN  /\ r \in Runs
                 /\ intentOf[r] = i
                 /\ status[r] = IF intents[i].status = "executed" THEN "settled" ELSE "failed"
        ELSE \A r \in Runs : intentOf[r] = i => pc[r] # "done"

\* An intent is settled by one transaction at most, through retries, lost answers
\* and crashes at awaits (tests/intentExecutionEngine.test.ts, "does not execute an
\* intent twice").  A crash or a failing save between the ledger entries and
\* intent.status = "executed" (intentExecutionEngine.ts:101) is finer than a segment:
\* it leaves a booked intent pending, and a retry settles it again
\* (RepeatExplained of DurableSettlement).
IntentExecutedOnce ==
    \A r, s \in Runs :
        (status[r] = "settled" /\ status[s] = "settled" /\ intentOf[r] = intentOf[s])
            => r = s

\* Two external transfers stand for one intent only if the run of one of them was
\* lost in a crash: nothing the code saves tells the retry of the first.  (So does a
\* save that throws and unwinds the request; the saves of this module succeed.)
DuplicateNeedsCrash ==
    \A r, s \in Runs :
        (r # s /\ external[r] # None /\ external[s] # None /\ intentOf[r] = intentOf[s])
            => pc[r] = "lost" \/ pc[s] = "lost"

\* An intent whose execution reached the adapter is decided, or its run is lost
\* in a crash and the intent can be executed again.
ExecutionDecides ==
    \A r \in Runs : pc[r] = "transfer" ~>
        \/ pc[r] = "lost"
        \/ pc[r] = "done" /\ Consumed(intentOf[r])

\* The abstract state behind the engine's: what the ledger says of intents, and
\* what the intents say of themselves.
Journal == [ n \in 1..Len(ledger) |-> [ intent |-> intentOf[ledger[n].transactionId],
                                        type |-> ledger[n].type ] ]

Outcome == [ i \in Intents |-> IF intents[i] = None THEN None ELSE intents[i].status ]

Atomic == INSTANCE AtomicIntent WITH journal <- Journal, outcome <- Outcome

\* Executing intents through the API implements the atomic promise of
\* AtomicIntent: position, journal and outcome change together and once, as any
\* other request sees them and any crash at an await.  On the disk a crash inside the
\* segment parts them (AtomicCommit of DurableSettlement, run torn_settlement).
ImplementsAtomicIntent == Atomic!Spec
=============================================================================
