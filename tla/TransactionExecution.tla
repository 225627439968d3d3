------------------------ MODULE TransactionExecution ------------------------
(***************************************************************************)
(* engines/transactionExecutionEngine.ts and everything it calls: creation *)
(* and authorisation of a transaction, its settlement instruction, the     *)
(* external transfer through a token adapter, reconciliation, and          *)
(* settlement of positions and ledger.                                     *)
(*                                                                         *)
(* The program is single-threaded.  A run (one call of executeTransaction) *)
(* gives up the thread only where it awaits the adapter, in                *)
(* adapter.transfer and adapter.getTransaction, so a run is three atomic   *)
(* segments:                                                               *)
(*                                                                         *)
(*    idle --Start...--> transfer --Transfer...--> lookup --Lookup...--> done *)
(*                                                                         *)
(* and any number of other requests may be served between two of them.     *)
(*                                                                         *)
(* Every write of the storage file saves the whole state, and a segment    *)
(* that changes anything ends in such a write, its caller's included; only *)
(* the mark "executing" on an instruction waits for the next write.        *)
(***************************************************************************)
EXTENDS Integers, Sequences, Sums, StateMachine, Authorization, Reconciliation

CONSTANTS
    Accounts, Assets,
    Representations,      \* the representations that may be registered: [id, asset, type]
    AdapterTypes,         \* the representation types the adapter registry knows
    Intents,              \* identifiers of intents
    IntentData,           \* [Intents -> [agent, type, from, to, asset, quantity]]
    Permissions,          \* set of [subject, action, asset]
    Policies,             \* sequence of [agent, maxTransaction, requiresApprovalAbove]
    Runs,                 \* identifiers of calls of executeTransaction
    OpeningQuantities,    \* quantities POST /positions is called with
    ExternalBalances,     \* initial balances at the adapter, by <<representation, account>>
    SettlementModes,      \* subset of {"immediate", "pending"}
    Faults,               \* subset of {"reject", "timeout", "lookup", "short"}
    MaxCrashes,           \* bound on the number of process restarts
    NoPosition, None

PositionKeys == Accounts \X Assets

RepresentationIds == { rep.id : rep \in Representations }

ExternalKeys == RepresentationIds \X Accounts

ExternalTransactions ==
    [ from : Accounts, to : Accounts, representation : RepresentationIds,
      quantity : Nat, status : { "confirmed", "pending", "failed" } ]

ASSUME DataAssumption ==
    /\ \A i \in Intents : /\ IntentData[i].from \in Accounts
                          /\ IntentData[i].to \in Accounts
                          /\ IntentData[i].quantity \in Nat \ {0}
    /\ OpeningQuantities \subseteq Nat
    /\ ExternalBalances \in [ ExternalKeys -> Nat ]
    /\ MaxCrashes \in Nat

ASSUME NoneAssumption ==
    /\ NoPosition \notin Int
    /\ None \notin Intents
    /\ None \notin Runs
    /\ None \notin Representations
    /\ None \notin ExternalTransactions
    /\ None \notin TransactionStatuses
    /\ None \notin {"pending", "executing", "settled", "failed"}

VARIABLES
    positions,            \* <<account, asset>> -> quantity or NoPosition
    opened,               \* history: quantity each position was opened with
    ledger,               \* sequence of debit and credit entries
    representations,      \* registered representations
    pc,                   \* where each run is
    intentOf,             \* the intent each run executes
    status,               \* transaction.executionStatus of each run
    instruction,          \* settlementInstruction.status of each run
    via,                  \* the representation each run transfers through
    external,             \* the adapter's record of each run's transfer
    balances,             \* balances at the adapter
    evidence,             \* runs whose external settlement was returned to the engine
    unsaved,              \* the run whose "executing" instruction is not on disk yet
    crashes

vars == << positions, opened, ledger, representations, pc, intentOf, status,
           instruction, via, external, balances, evidence, unsaved,
           crashes >>

-----------------------------------------------------------------------------
\* The single movement of the transaction that executes intent i.
Movement(i) == [ from |-> IntentData[i].from, to |-> IntentData[i].to,
                 asset |-> IntentData[i].asset, quantity |-> IntentData[i].quantity ]

Quantity(i) == IntentData[i].quantity

Source(i) == << IntentData[i].from, IntentData[i].asset >>

Destination(i) == << IntentData[i].to, IntentData[i].asset >>

\* findPosition and hasSufficientQuantity.
Covers(i) == positions[Source(i)] # NoPosition /\ positions[Source(i)] >= Quantity(i)

\* Mutant of Creatable: the quantity is left to the settlement to check.
CreatableUncovered(i) ==
    /\ IntentData[i].asset \in Assets
    /\ HasPermission(IntentData[i].agent, IntentData[i].type, IntentData[i].asset, Permissions)
    /\ PolicyAllows(IntentData[i].agent, Quantity(i), Policies)

\* Every check of createTransaction.
Creatable(i) ==
    /\ IntentData[i].asset \in Assets
    /\ Covers(i)
    /\ HasPermission(IntentData[i].agent, IntentData[i].type, IntentData[i].asset, Permissions)
    /\ PolicyAllows(IntentData[i].agent, Quantity(i), Policies)

\* A settlement instruction can go out when its asset has exactly one
\* representation, of a type with an adapter.
Route(i) ==
    LET found == RepresentationsOf(IntentData[i].asset, representations)
    IN  { rep \in found : found = {rep} /\ rep.type \in AdapterTypes }

OrZero(quantity) == IF quantity = NoPosition THEN 0 ELSE quantity

\* Mutant of Transferred: both quantities are read before either is written.
TransferredFromStaleReads(holdings, source, destination, quantity) ==
    [ holdings EXCEPT ![source] = @ - quantity,
                      ![destination] = OrZero(holdings[destination]) + quantity ]

\* Holdings after `quantity` leaves `source` and arrives at `destination`, which
\* is created when missing.
Transferred(holdings, source, destination, quantity) ==
    LET debited == [ holdings EXCEPT ![source] = @ - quantity ]
    IN  [ debited EXCEPT ![destination] = OrZero(@) + quantity ]

Entry(r, type, key, quantity) ==
    [ transactionId |-> r, type |-> type, key |-> key, quantity |-> quantity ]

\* Mutant of Debit: the quantity is signed.
DebitSigned(r) == Entry(r, "debit", Source(intentOf[r]), -Quantity(intentOf[r]))

Debit(r) == Entry(r, "debit", Source(intentOf[r]), Quantity(intentOf[r]))

Credit(r) == Entry(r, "credit", Destination(intentOf[r]), Quantity(intentOf[r]))

ExternalTransaction(i, rep, quantity, state) ==
    [ from |-> IntentData[i].from, to |-> IntentData[i].to,
      representation |-> rep.id, quantity |-> quantity, status |-> state ]

ReconciliationOf(r) ==
    ReconcileSettlements(1,
        << [ movement |-> Movement(intentOf[r]), externalMovements |-> {external[r]} ] >>,
        representations)

-----------------------------------------------------------------------------
Init ==
    /\ positions = [ key \in PositionKeys |-> NoPosition ]
    /\ opened = [ key \in PositionKeys |-> 0 ]
    /\ ledger = << >>
    /\ representations = {}
    /\ pc = [ r \in Runs |-> "idle" ]
    /\ intentOf = [ r \in Runs |-> None ]
    /\ status = [ r \in Runs |-> None ]
    /\ instruction = [ r \in Runs |-> None ]
    /\ via = [ r \in Runs |-> None ]
    /\ external = [ r \in Runs |-> None ]
    /\ balances = ExternalBalances
    /\ evidence = {}
    /\ unsaved = None
    /\ crashes = 0

\* POST /positions: refused when the position exists.
OpenPosition(key, quantity) ==
    /\ positions[key] = NoPosition
    /\ positions' = [ positions EXCEPT ![key] = quantity ]
    /\ opened' = [ opened EXCEPT ![key] = quantity ]
    /\ unsaved' = None
    /\ UNCHANGED << ledger, representations, pc, intentOf, status, instruction,
                    via, external, balances, evidence, crashes >>

\* POST /representations: a second representation of an asset is accepted.
RegisterRepresentation(rep) ==
    /\ rep \notin representations
    /\ representations' = representations \union {rep}
    /\ unsaved' = None
    /\ UNCHANGED << positions, opened, ledger, pc, intentOf, status, instruction,
                    via, external, balances, evidence, crashes >>

-----------------------------------------------------------------------------
\* executeTransaction up to the call of adapter.transfer.

\* createTransaction refuses: no transaction, nothing changes.
RejectCreation(r, i) ==
    /\ pc[r] = "idle"
    /\ ~Creatable(i)
    /\ pc' = [ pc EXCEPT ![r] = "rejected" ]
    /\ unsaved' = None
    /\ intentOf' = [ intentOf EXCEPT ![r] = i ]
    /\ UNCHANGED << positions, opened, ledger, representations, status,
                    instruction, via, external, balances, evidence, crashes >>

\* The instruction finds no single representation with an adapter.
StartUnresolvable(r, i) ==
    /\ pc[r] = "idle"
    /\ Creatable(i)
    /\ Route(i) = {}
    /\ pc' = [ pc EXCEPT ![r] = "done" ]
    /\ unsaved' = None
    /\ intentOf' = [ intentOf EXCEPT ![r] = i ]
    /\ status' = [ status EXCEPT ![r] = Walk("created", << "instruction_created", "failed" >>) ]
    /\ instruction' = [ instruction EXCEPT ![r] = "failed" ]
    /\ UNCHANGED << positions, opened, ledger, representations, via, external,
                    balances, evidence, crashes >>

\* The instruction is executing and adapter.transfer has been called.
StartSettlement(r, i) ==
    /\ pc[r] = "idle"
    /\ Creatable(i)
    /\ \E rep \in Route(i) : via' = [ via EXCEPT ![r] = rep ]
    /\ pc' = [ pc EXCEPT ![r] = "transfer" ]
    /\ unsaved' = r
    /\ intentOf' = [ intentOf EXCEPT ![r] = i ]
    /\ status' = [ status EXCEPT ![r] = Walk("created", << "instruction_created" >>) ]
    /\ instruction' = [ instruction EXCEPT ![r] = "executing" ]
    /\ UNCHANGED << positions, opened, ledger, representations, external,
                    balances, evidence, crashes >>

-----------------------------------------------------------------------------
\* adapter.transfer is answered.

ExternalKey(r, account) == << via[r].id, account >>

\* What the adapter does with a transfer it accepts: it records a transaction
\* and, unless it leaves it pending, moves the balance.
AdapterTransfers(r) ==
    \E state \in { IF mode = "immediate" THEN "confirmed" ELSE "pending" :
                    mode \in SettlementModes },
       delivered \in IF "short" \in Faults THEN 0..Quantity(intentOf[r])
                     ELSE { Quantity(intentOf[r]) } :
        LET i == intentOf[r]
        IN  /\ balances[ExternalKey(r, IntentData[i].from)] >= Quantity(i)
            /\ external' = [ external EXCEPT ![r] =
                                ExternalTransaction(i, via[r], delivered, state) ]
            /\ balances' = IF state = "confirmed"
                           THEN Transferred(balances,
                                    ExternalKey(r, IntentData[i].from),
                                    ExternalKey(r, IntentData[i].to), delivered)
                           ELSE balances

\* The transfer returns an external id and getTransaction is called.
TransferReturns(r) ==
    /\ pc[r] = "transfer"
    /\ AdapterTransfers(r)
    /\ pc' = [ pc EXCEPT ![r] = "lookup" ]
    /\ UNCHANGED << positions, opened, ledger, representations, intentOf, status,
                    instruction, via, evidence, unsaved, crashes >>

\* Mutant of FailWithoutEvidence: the transfer is tried again after an error.
FailAndRetry(r) ==
    /\ pc' = [ pc EXCEPT ![r] = "transfer" ]
    /\ UNCHANGED << positions, opened, ledger, representations, intentOf, status,
                    instruction, via, evidence, unsaved, crashes >>

\* The catch of settleExternally: instruction and transaction fail, whatever the
\* adapter did, and no evidence is kept.
FailWithoutEvidence(r) ==
    /\ pc' = [ pc EXCEPT ![r] = "done" ]
    /\ instruction' = [ instruction EXCEPT ![r] = "failed" ]
    /\ status' = [ status EXCEPT ![r] = Walk(status[r], << "failed" >>) ]
    /\ unsaved' = None
    /\ UNCHANGED << positions, opened, ledger, representations, intentOf, via,
                    evidence, crashes >>

\* The adapter refuses: the external balance is short, or it has its own reasons.
TransferRejected(r) ==
    /\ pc[r] = "transfer"
    /\ \/ "reject" \in Faults
       \/ balances[ExternalKey(r, IntentData[intentOf[r]].from)] < Quantity(intentOf[r])
    /\ FailWithoutEvidence(r)
    /\ UNCHANGED << external, balances >>

\* The adapter performs the transfer but the call fails on the way back.
TransferTimesOut(r) ==
    /\ pc[r] = "transfer"
    /\ "timeout" \in Faults
    /\ AdapterTransfers(r)
    /\ FailWithoutEvidence(r)

-----------------------------------------------------------------------------
\* adapter.getTransaction is answered; executeTransaction runs to its end.

LookupFails(r) ==
    /\ pc[r] = "lookup"
    /\ "lookup" \in Faults
    /\ FailWithoutEvidence(r)
    /\ UNCHANGED << external, balances >>

\* Mutant of ReceiveEvidence: the instruction keeps its status.
ReceiveEvidenceUnmarked(r) ==
    /\ pc[r] = "lookup"
    /\ evidence' = evidence \union {r}
    /\ pc' = [ pc EXCEPT ![r] = "done" ]
    /\ unsaved' = None
    /\ UNCHANGED << opened, representations, intentOf, instruction, via, external,
                    balances, crashes >>

\* The external settlement reaches the engine and the instruction is settled,
\* before anything is compared.
ReceiveEvidence(r) ==
    /\ pc[r] = "lookup"
    /\ evidence' = evidence \union {r}
    /\ instruction' = [ instruction EXCEPT ![r] = "settled" ]
    /\ pc' = [ pc EXCEPT ![r] = "done" ]
    /\ unsaved' = None
    /\ UNCHANGED << opened, representations, intentOf, via, external, balances,
                    crashes >>

LookupMismatched(r) ==
    /\ ReceiveEvidence(r)
    /\ ReconciliationOf(r) # "matched"
    /\ status' = [ status EXCEPT ![r] =
                    Walk(@, << "externally_settled",
                               IF ReconciliationOf(r) = "mismatched"
                               THEN "failed" ELSE "pending" >>) ]
    /\ UNCHANGED << positions, ledger >>

\* Mutant of LookupUncovered: the entries are recorded before the position is
\* checked.
LookupUncoveredRecorded(r) ==
    /\ ReceiveEvidence(r)
    /\ ReconciliationOf(r) = "matched"
    /\ ~Covers(intentOf[r])
    /\ ledger' = ledger \o << Debit(r), Credit(r) >>
    /\ status' = [ status EXCEPT ![r] =
                    Walk(@, << "externally_settled", "reconciled", "failed" >>) ]
    /\ UNCHANGED positions

\* The outcome the engine reaches for a reconciled transaction: settleTransaction
\* looks at the position again and refuses.
LookupUncovered(r) ==
    /\ ReceiveEvidence(r)
    /\ ReconciliationOf(r) = "matched"
    /\ ~Covers(intentOf[r])
    /\ status' = [ status EXCEPT ![r] =
                    Walk(@, << "externally_settled", "reconciled", "failed" >>) ]
    /\ UNCHANGED << positions, ledger >>

\* Mutants of LookupSettles: the position is not checked again after the await,
\* and the newest entries come first in the ledger.
LookupSettlesUnchecked(r) ==
    /\ ReceiveEvidence(r)
    /\ ReconciliationOf(r) = "matched"
    /\ positions[Source(intentOf[r])] # NoPosition
    /\ positions' = Transferred(positions, Source(intentOf[r]),
                                Destination(intentOf[r]), Quantity(intentOf[r]))
    /\ ledger' = ledger \o << Debit(r), Credit(r) >>
    /\ status' = [ status EXCEPT ![r] = "settled" ]

LookupSettlesPrepending(r) ==
    /\ ReceiveEvidence(r)
    /\ ReconciliationOf(r) = "matched"
    /\ Covers(intentOf[r])
    /\ positions' = Transferred(positions, Source(intentOf[r]),
                                Destination(intentOf[r]), Quantity(intentOf[r]))
    /\ ledger' = << Debit(r), Credit(r) >> \o ledger
    /\ status' = [ status EXCEPT ![r] = "settled" ]

\* settleTransaction moves the positions and records the ledger entries, and
\* applySettlementResult settles the transaction.
LookupSettles(r) ==
    /\ ReceiveEvidence(r)
    /\ ReconciliationOf(r) = "matched"
    /\ Covers(intentOf[r])
    /\ positions' = Transferred(positions, Source(intentOf[r]),
                                Destination(intentOf[r]), Quantity(intentOf[r]))
    /\ ledger' = ledger \o << Debit(r), Credit(r) >>
    /\ status' = [ status EXCEPT ![r] =
                    ApplySettlementResult(
                        Walk(@, << "externally_settled", "reconciled",
                                   "internally_settled" >>),
                        ReconciliationOf(r)) ]

-----------------------------------------------------------------------------
\* The external world decides a transfer it left pending.

Pending(r) == external[r] # None /\ external[r].status = "pending"

ConfirmExternal(r) ==
    /\ Pending(r)
    /\ balances[ExternalKey(r, external[r].from)] >= external[r].quantity
    /\ external' = [ external EXCEPT ![r].status = "confirmed" ]
    /\ balances' = Transferred(balances, ExternalKey(r, external[r].from),
                               ExternalKey(r, external[r].to), external[r].quantity)
    /\ UNCHANGED << positions, opened, ledger, representations, pc, intentOf,
                    status, instruction, via, evidence, unsaved, crashes >>

FailExternal(r) ==
    /\ Pending(r)
    /\ external' = [ external EXCEPT ![r].status = "failed" ]
    /\ UNCHANGED << positions, opened, ledger, representations, pc, intentOf,
                    status, instruction, via, balances, evidence, unsaved, crashes >>

\* The process dies and restarts from its file: the runs in flight are gone with
\* their transactions, their instructions stay as they were last saved.  It dies at
\* an await: a segment that changes something is saved as a whole here, and what a
\* crash between two saves of one segment leaves is in DurableSettlement.
InFlight == { r \in Runs : pc[r] \in { "transfer", "lookup" } }

Crash ==
    /\ crashes < MaxCrashes
    /\ InFlight # {}
    /\ crashes' = crashes + 1
    /\ pc' = [ r \in Runs |-> IF r \in InFlight THEN "lost" ELSE pc[r] ]
    /\ status' = [ r \in Runs |-> IF r \in InFlight THEN None ELSE status[r] ]
    /\ instruction' = [ r \in Runs |-> IF r = unsaved THEN "pending" ELSE instruction[r] ]
    /\ unsaved' = None
    /\ UNCHANGED << positions, opened, ledger, representations, intentOf, via,
                    external, balances, evidence >>

-----------------------------------------------------------------------------
\* One call of executeTransaction for intent i begins.
Start(r, i) ==
    RejectCreation(r, i) \/ StartUnresolvable(r, i) \/ StartSettlement(r, i)

\* The call ends.
Finish(r) ==
    \/ TransferRejected(r) \/ TransferTimesOut(r)
    \/ LookupFails(r) \/ LookupMismatched(r) \/ LookupUncovered(r) \/ LookupSettles(r)

Registry ==
    \/ \E key \in PositionKeys, quantity \in OpeningQuantities :
            OpenPosition(key, quantity)
    \/ \E rep \in Representations : RegisterRepresentation(rep)

External == \E r \in Runs : ConfirmExternal(r) \/ FailExternal(r)

Next ==
    \/ Registry
    \/ \E r \in Runs, i \in Intents : Start(r, i)
    \/ \E r \in Runs : TransferReturns(r) \/ Finish(r)
    \/ External
    \/ Crash

\* Every call the engine makes to an adapter is answered, with a result or an
\* error.  Nothing forces a client to send a request, the external world to
\* decide, or the process to crash.
Fairness == \A r \in Runs : WF_vars(TransferReturns(r) \/ Finish(r))

Spec == Init /\ [][Next]_vars /\ Fairness

-----------------------------------------------------------------------------
\* Properties.

Places == { "idle", "rejected", "transfer", "lookup", "done", "lost" }

\* Every variable has the type its comment gives it, and quantities are whole
\* numbers (positions[key] is the quantity of Position in types.ts).
TypeOK ==
    /\ positions \in [ PositionKeys -> Int \union {NoPosition} ]
    /\ opened \in [ PositionKeys -> Nat ]
    /\ ledger \in Seq([ transactionId : Runs, type : { "debit", "credit" },
                        key : PositionKeys, quantity : Nat ])
    /\ representations \subseteq Representations
    /\ pc \in [ Runs -> Places ]
    /\ intentOf \in [ Runs -> Intents \union {None} ]
    /\ status \in [ Runs -> TransactionStatuses \union {None} ]
    /\ instruction \in [ Runs -> { None, "pending", "executing", "settled", "failed" } ]
    /\ via \in [ Runs -> Representations \union {None} ]
    /\ external \in [ Runs -> ExternalTransactions \union {None} ]
    /\ balances \in [ ExternalKeys -> Int ]
    /\ evidence \subseteq Runs
    /\ unsaved \in InFlight \union {None}
    /\ crashes \in 0..MaxCrashes

\* No position goes below zero, although a run checks the quantity before it
\* awaits the adapter and other runs spend the position meanwhile
\* (settlementEngine.ts checks it again before it moves anything).
NoOverdraft == \A key \in PositionKeys : positions[key] # NoPosition => positions[key] >= 0

\* What the ledger says happened to a position: its credits less its debits.
LedgerNet(key) ==
    SumOver([ n \in 1..Len(ledger) |->
                IF ledger[n].key # key THEN 0
                ELSE IF ledger[n].type = "credit" THEN ledger[n].quantity
                ELSE -ledger[n].quantity ],
            1..Len(ledger))

\* Every position is what it was opened with plus what the ledger records: the
\* position updates of settlementEngine.ts and the entries of ledgerEngine.ts
\* never part, whatever runs interleave, fail or are lost at an await, and a transfer
\* of an account to itself changes nothing.  (Interrupted between two saves of one
\* settlement they do part, one way only: NothingBookedUnmoved of DurableSettlement.)
PositionsMatchLedger ==
    \A key \in PositionKeys : OrZero(positions[key]) = opened[key] + LedgerNet(key)

\* The ledger holds one debit and its credit, side by side, for each settled
\* transaction, and nothing for any other, crashes at awaits included.
LedgerMatchesSettled ==
    \A r \in Runs :
        LET own == { n \in 1..Len(ledger) : ledger[n].transactionId = r }
        IN  IF status[r] = "settled"
            THEN \E n \in 1..Len(ledger) - 1 :
                    own = {n, n + 1} /\ ledger[n] = Debit(r) /\ ledger[n + 1] = Credit(r)
            ELSE own = {}

\* The external transaction of run r says what its transaction says.
Faithful(r) ==
    /\ external[r] # None
    /\ external[r].from = IntentData[intentOf[r]].from
    /\ external[r].to = IntentData[intentOf[r]].to
    /\ external[r].quantity = Quantity(intentOf[r])
    /\ external[r].representation = via[r].id

\* A transaction is settled only with a settled instruction and with evidence of
\* an external transaction that moves the same quantity between the same
\* accounts; where the adapter settles at once, that transaction is confirmed.
SettledBacked ==
    \A r \in Runs : status[r] = "settled" =>
        /\ instruction[r] = "settled"
        /\ r \in evidence
        /\ Faithful(r)
        /\ SettlementModes = {"immediate"} => external[r].status = "confirmed"

\* Run s settled a debit of the position that run r was to debit.
SpentBy(r, s) ==
    /\ s # r
    /\ status[s] = "settled"
    /\ Source(intentOf[s]) = Source(intentOf[r])
    /\ Destination(intentOf[s]) # Source(intentOf[s])

\* The only ways a transaction fails although its external transfer stands: the
\* adapter's answer was lost, the transfer was not the one asked for, or another
\* transaction spent the position while this one waited for the adapter.
OrphanExplained ==
    \A r \in Runs :
        (status[r] = "failed" /\ external[r] # None) =>
            \/ r \notin evidence
            \/ ~Faithful(r)
            \/ \E s \in Runs : SpentBy(r, s)

\* What an instruction's status tells of its transaction: a settled instruction
\* has its evidence and an ended run, a failed one a failed transaction without
\* evidence, and one still executing or pending belongs to a run that is in
\* flight or was lost in a crash.
InstructionTellsOutcome ==
    \A r \in Runs :
        /\ instruction[r] = "settled" <=> r \in evidence
        /\ instruction[r] = "settled" => status[r] \in TerminalStatuses
        /\ instruction[r] = "failed" => status[r] = "failed" /\ r \notin evidence
        /\ instruction[r] = "executing" <=> \/ r \in InFlight
                                            \/ pc[r] = "lost" /\ instruction[r] # "pending"
        /\ instruction[r] = "pending" => pc[r] = "lost"

\* A settled or failed transaction keeps its status, and its ledger entries stay
\* where they are.
TerminalIsFinal ==
    [][ /\ \A r \in Runs : status[r] \in TerminalStatuses => status'[r] = status[r]
        /\ Len(ledger) <= Len(ledger')
        /\ \A n \in 1..Len(ledger) : ledger'[n] = ledger[n] ]_vars

\* A call of executeTransaction that reached the adapter returns, or is lost in
\* a crash.
RunsFinish ==
    \A r \in Runs : pc[r] \in { "transfer", "lookup" } ~> pc[r] \in { "done", "lost" }

\* No transaction is settled on an external transaction that the adapter already
\* reports as failed (SPECIFICATION.md, "Settlement must still depend on
\* reconciliation evidence").
SettledOnLiveEvidence ==
    [][ \A r \in Runs : (status[r] # "settled" /\ status'[r] = "settled")
            => external[r].status # "failed" ]_vars
=============================================================================
