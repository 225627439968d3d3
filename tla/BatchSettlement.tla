-------------------------- MODULE BatchSettlement ---------------------------
(***************************************************************************)
(* Transactions of several movements.  createTransaction makes none, but   *)
(* settleExternally, executeSettlementInstruction, the two reconciliation  *)
(* engines and settleTransaction all take them, and tests hand them such   *)
(* transactions; this module puts the functions together in the order of   *)
(* executeTransaction.                                                     *)
(*                                                                         *)
(* One transaction, created with any batch of movements.  settleExternally *)
(* awaits the adapter for one movement after the other.  Nothing else      *)
(* touches the positions meanwhile (TransactionExecution has that).        *)
(***************************************************************************)
EXTENDS Integers, Sequences, Sums, StateMachine, Reconciliation

CONSTANTS
    Movements,            \* set of [from, to, asset, quantity]
    MaxMovements,         \* bound on the movements of a batch
    Openings,             \* the positions there may be before
    Registered,           \* the sets of representations there may be
    AdapterTypes,
    Delivered,            \* quantities an adapter may report
    NoPosition

Source(m) == << m.from, m.asset >>

Destination(m) == << m.to, m.asset >>

\* The positions the movements are about.
Keys == UNION { { Source(m), Destination(m) } : m \in Movements }

\* Identifiers of representations are unique: the route makes them with randomUUID.
ASSUME BatchAssumption ==
    /\ \A m \in Movements :
        /\ m = [ from |-> m.from, to |-> m.to, asset |-> m.asset, quantity |-> m.quantity ]
        /\ m.quantity \in Nat \ {0}
    /\ Openings \subseteq [ Keys -> Nat \union {NoPosition} ]
    /\ \A reps \in Registered : \A rep, other \in reps :
            rep.id = other.id => rep = other
    /\ NoPosition \notin Int
    /\ MaxMovements \in Nat

VARIABLES
    batch,                \* transaction.movements
    opening,              \* the positions before
    positions,
    representations,
    status,               \* transaction.executionStatus
    instruction,          \* settlementInstruction.status
    external,             \* external movements, one for each movement transferred so far
    ledger

vars == << batch, opening, positions, representations, status, instruction, external, ledger >>

Batches == UNION { [ 1..n -> Movements ] : n \in 0..MaxMovements }

OrZero(quantity) == IF quantity = NoPosition THEN 0 ELSE quantity

Init ==
    /\ batch \in Batches
    /\ opening \in Openings
    /\ positions = opening
    /\ representations \in Registered
    /\ status = "created"
    /\ instruction = "none"
    /\ external = << >>
    /\ ledger = << >>

-----------------------------------------------------------------------------
\* executeTransaction up to the first call of adapter.transfer.

Ends(path) == status' = Walk(status, path)

\* createSettlementInstruction refuses a transaction without movements.
RefuseEmpty ==
    /\ status = "created"
    /\ batch = << >>
    /\ Ends(<< "failed" >>)
    /\ UNCHANGED << batch, opening, positions, representations, instruction, external, ledger >>

\* Every movement has one representation, and all are of one type with an adapter.
Routable ==
    \E type \in AdapterTypes : \A n \in 1..Len(batch) :
        \E rep \in representations :
            /\ RepresentationsOf(batch[n].asset, representations) = {rep}
            /\ rep.type = type

Instruct ==
    /\ status = "created"
    /\ batch # << >>
    /\ IF Routable
       THEN instruction' = "executing" /\ Ends(<< "instruction_created" >>)
       ELSE instruction' = "failed" /\ Ends(<< "instruction_created", "failed" >>)
    /\ UNCHANGED << batch, opening, positions, representations, external, ledger >>

\* The adapter answers for the next movement, with the quantity it reports.
TransferNext(quantity) ==
    /\ instruction = "executing"
    /\ Len(external) < Len(batch)
    /\ LET m == batch[Len(external) + 1]
       IN  \E rep \in RepresentationsOf(m.asset, representations) :
            external' = Append(external, [ from |-> m.from, to |-> m.to,
                                           representation |-> rep.id,
                                           quantity |-> quantity ])
    /\ UNCHANGED << batch, opening, positions, representations, status, instruction, ledger >>

\* The adapter throws: what has been transferred is kept as evidence and the
\* transaction fails.
TransferFails ==
    /\ instruction = "executing"
    /\ Len(external) < Len(batch)
    /\ instruction' = "failed"
    /\ Ends(IF external = << >> THEN << "failed" >>
            ELSE << "externally_settled", "failed" >>)
    /\ UNCHANGED << batch, opening, positions, representations, external, ledger >>

-----------------------------------------------------------------------------
\* After the last answer.

Settlements ==
    [ n \in 1..Len(external) |->
        [ movement |-> batch[n], externalMovements |-> { external[n] } ] ]

Reconciled == ReconcileSettlements(Len(batch), Settlements, representations)

\* Mutant of Settleable: the quantity is compared for the first movement only.
SettleableFirst ==
    \A n \in 1..Len(batch) :
        LET held == positions[Source(batch[n])]
        IN  held # NoPosition /\ (n = 1 => held >= batch[n].quantity)

\* settleTransaction checks each movement against the positions as they are before
\* the first one is applied.
Settleable ==
    \A n \in 1..Len(batch) :
        LET held == positions[Source(batch[n])]
        IN  held # NoPosition /\ held >= batch[n].quantity

Transferred(holdings, m) ==
    LET debited == [ holdings EXCEPT ![Source(m)] = @ - m.quantity ]
    IN  [ debited EXCEPT ![Destination(m)] = OrZero(@) + m.quantity ]

\* Every movement is applied before the next one.
Applied(holdings, movements) ==
    LET after[n \in 0..Len(movements)] ==
            IF n = 0 THEN holdings ELSE Transferred(after[n - 1], movements[n])
    IN  after[Len(movements)]

Entries(m) ==
    << [ type |-> "debit", key |-> Source(m), quantity |-> m.quantity ],
       [ type |-> "credit", key |-> Destination(m), quantity |-> m.quantity ] >>

\* The two entries of every movement, one movement after the other.
Recorded(movements) ==
    [ k \in 1..2 * Len(movements) |-> Entries(movements[(k + 1) \div 2])[2 - (k % 2)] ]

Answered == instruction = "executing" /\ Len(external) = Len(batch)

DoNotSettle(path) ==
    /\ Ends(path)
    /\ UNCHANGED << positions, ledger >>

\* Mutant of Settle: the entries are recorded before the positions are checked.
SettleRecordingFirst ==
    /\ ledger' = Recorded(batch)
    /\ positions' = IF Settleable THEN Applied(positions, batch) ELSE positions
    /\ Ends(IF Settleable
            THEN << "externally_settled", "reconciled", "internally_settled", "settled" >>
            ELSE << "externally_settled", "reconciled", "failed" >>)

\* settleTransaction, and applySettlementResult after it.
Settle ==
    IF Settleable
    THEN /\ positions' = Applied(positions, batch)
         /\ ledger' = Recorded(batch)
         /\ Ends(<< "externally_settled", "reconciled", "internally_settled", "settled" >>)
    ELSE DoNotSettle(<< "externally_settled", "reconciled", "failed" >>)

Finish ==
    /\ Answered
    /\ instruction' = "settled"
    /\ CASE Reconciled = "matched"    -> Settle
         [] Reconciled = "mismatched" -> DoNotSettle(<< "externally_settled", "failed" >>)
         [] OTHER                     -> DoNotSettle(<< "externally_settled", "pending" >>)
    /\ UNCHANGED << batch, opening, representations, external >>

Next ==
    \/ RefuseEmpty \/ Instruct \/ TransferFails \/ Finish
    \/ \E quantity \in Delivered : TransferNext(quantity)

Spec == Init /\ [][Next]_vars

-----------------------------------------------------------------------------
\* Properties.

Net(key) ==
    SumOver([ n \in 1..Len(ledger) |->
                IF ledger[n].key # key THEN 0
                ELSE IF ledger[n].type = "credit" THEN ledger[n].quantity
                ELSE -ledger[n].quantity ],
            1..Len(ledger))

\* A batch settles as a whole or not at all: when it is settled every movement has
\* an external movement of its own, a debit and a credit, and the positions are what
\* the ledger says; when it is not, partial transfers included, nothing has moved.
AllOrNothing ==
    IF status = "settled"
    THEN /\ Len(external) = Len(batch)
         /\ \A n \in 1..Len(batch) : Matches(batch[n], external[n], representations)
         /\ Len(ledger) = 2 * Len(batch)
         /\ \A key \in Keys : OrZero(positions[key]) = OrZero(opening[key]) + Net(key)
    ELSE positions = opening /\ ledger = << >>

DebitsOf(key) == { n \in 1..Len(batch) : Source(batch[n]) = key }

\* A position goes below zero only when several movements leave it that it covers
\* one by one and not together, which a transaction of one movement never does.
OverdraftExplained ==
    \A key \in Keys : (positions[key] # NoPosition /\ positions[key] < 0) =>
        /\ \A n \in DebitsOf(key) : batch[n].quantity <= opening[key]
        /\ SumOver([ n \in DebitsOf(key) |-> batch[n].quantity ], DebitsOf(key)) > opening[key]

\* The reference: a pairing of movements and external movements.
OneToOne ==
    \E f \in [ 1..Len(batch) -> 1..Len(external) ] :
        /\ \A m, n \in 1..Len(batch) : m # n => f[m] # f[n]
        /\ \A n \in 1..Len(batch) : Matches(batch[n], external[f[n]], representations)

Distinct == \A m, n \in 1..Len(batch) : m # n => batch[m] # batch[n]

\* reconcileTransaction, which looks for a partner of each movement apart, finds a
\* pairing of all when it says matched and the movements differ, and says so whenever
\* there is a pairing and nothing is left over; what reconcileSettlements accepts it
\* accepts too.
FullMatchIsOneToOne ==
    LET full == ReconcileTransaction(batch, external, representations) = "matched"
    IN  /\ (full /\ Distinct) => OneToOne /\ Len(batch) = Len(external)
        /\ (OneToOne /\ Len(batch) = Len(external)) => full
        /\ Reconciled = "matched" => full
=============================================================================
