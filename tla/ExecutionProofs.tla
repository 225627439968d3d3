--------------------------- MODULE ExecutionProofs --------------------------
(***************************************************************************)
(* Theorems about running transactions, for every value of the constants:  *)
(* TransactionExecution first, then the routes that run it, IntentApi,     *)
(* TransactionApi and SettlementInstructionApi, whose proofs rest on what  *)
(* is proved of the engine.                                                *)
(*                                                                         *)
(* The inductive invariant of the engine, IInv, is TypeOK with             *)
(* RunsConsistent: what the place a run has reached says of its            *)
(* transaction, its instruction, its external transaction and its          *)
(* evidence.                                                               *)
(*                                                                         *)
(* Theorems about IntentApi alone are for clients whose execute requests   *)
(* for one intent do not overlap, which is what the two adapters of the    *)
(* repository bring about: they answer without I/O.  Their invariant,      *)
(* ApiIInv, ties every run to its intent: a run in flight has the intent   *)
(* to itself and finds it undecided, a run that has ended has decided it,  *)
(* and every decision names the run it came from.  On it rests the step    *)
(* simulation that shows the routes to implement AtomicIntent.             *)
(*                                                                         *)
(* Those about all the routes hold however requests overlap.  RouteIInv    *)
(* ties every run to the record of its intent and keeps, for two runs of   *)
(* one intent, what lets the second settle it again.  HandInv adds the     *)
(* instructions made by hand.                                              *)
(***************************************************************************)
EXTENDS SettlementInstructionApi, SumLemmas, SequenceTheorems

\* Nothing has left run r yet.
Untouched(r) ==
    /\ status[r] = None
    /\ instruction[r] = None
    /\ external[r] = None
    /\ r \notin evidence

\* Run r asks the adapter for its intent's movement through a registered
\* representation of the intent's asset.
Underway(r) ==
    /\ status[r] = "instruction_created"
    /\ instruction[r] = "executing"
    /\ r \notin evidence
    /\ via[r] \in representations
    /\ via[r].asset = IntentData[intentOf[r]].asset
    /\ via[r].asset \in Assets

\* The adapter's record of run r names the accounts and the representation it
\* was given, and an adapter that settles at once has confirmed it.
Recorded(r) ==
    /\ external[r].from = IntentData[intentOf[r]].from
    /\ external[r].to = IntentData[intentOf[r]].to
    /\ external[r].representation = via[r].id
    /\ SettlementModes = {"immediate"} => external[r].status = "confirmed"

\* Run r has ended and left its instruction and transaction in agreement.
Ended(r) ==
    \/ /\ status[r] = "failed"
       /\ instruction[r] = "failed"
       /\ r \notin evidence
    \/ /\ status[r] = "failed"
       /\ instruction[r] = "settled"
       /\ r \in evidence
       /\ external[r] # None
    \/ /\ status[r] = "settled"
       /\ instruction[r] = "settled"
       /\ r \in evidence
       /\ Faithful(r)

RunConsistent(r) ==
    /\ pc[r] = "idle" => Untouched(r) /\ intentOf[r] = None
    /\ pc[r] = "rejected" => Untouched(r)
    /\ pc[r] # "idle" => intentOf[r] \in Intents
    /\ pc[r] = "transfer" => Underway(r) /\ external[r] = None
    /\ pc[r] = "lookup" => Underway(r) /\ external[r] # None
    /\ pc[r] = "lost" => /\ status[r] = None
                         /\ instruction[r] \in { "pending", "executing" }
                         /\ r \notin evidence
    /\ pc[r] = "done" => Ended(r)
    /\ external[r] # None => via[r] \in Representations /\ Recorded(r)

RunsConsistent == \A r \in Runs : RunConsistent(r)

IInv == TypeOK /\ RunsConsistent

-----------------------------------------------------------------------------
\* The statuses the engine reaches, computed from the transition table.


LEMMA CanTransition ==
    /\ CanTransitionTransaction("created", "instruction_created")
    /\ CanTransitionTransaction("instruction_created", "failed")
    /\ CanTransitionTransaction("instruction_created", "externally_settled")
    /\ CanTransitionTransaction("externally_settled", "failed")
    /\ CanTransitionTransaction("externally_settled", "reconciled")
    /\ CanTransitionTransaction("reconciled", "failed")
    /\ CanTransitionTransaction("reconciled", "internally_settled")
    /\ CanTransitionTransaction("internally_settled", "settled")
BY DEF CanTransitionTransaction, TransactionTransitions

LEMMA WalkOne ==
    ASSUME NEW a, NEW b, CanTransitionTransaction(a, b)
    PROVE  Walk(a, << b >>) = b /\ CanWalk(a, << b >>)
<1>1. RefusedSteps(a, << b >>) = {}
    BY SMT DEF RefusedSteps
<1>2. QED
    BY <1>1 DEF Walk, CanWalk

LEMMA WalkTwo ==
    ASSUME NEW a, NEW b, NEW c,
           CanTransitionTransaction(a, b), CanTransitionTransaction(b, c)
    PROVE  Walk(a, << b, c >>) = c
<1>1. RefusedSteps(a, << b, c >>) = {}
    <2>1. SUFFICES ASSUME NEW k \in 1..2
                   PROVE  CanTransitionTransaction(IF k = 1 THEN a ELSE << b, c >>[k - 1],
                                                   << b, c >>[k])
        BY DEF RefusedSteps
    <2>2. k = 1 \/ k = 2
        BY <2>1
    <2>3. QED
        BY <2>2
<1>2. QED
    BY <1>1 DEF Walk, CanWalk

LEMMA WalkThree ==
    ASSUME NEW a, NEW b, NEW c, NEW d,
           CanTransitionTransaction(a, b), CanTransitionTransaction(b, c),
           CanTransitionTransaction(c, d)
    PROVE  Walk(a, << b, c, d >>) = d
<1>1. RefusedSteps(a, << b, c, d >>) = {}
    <2>1. SUFFICES ASSUME NEW k \in 1..3
                   PROVE  CanTransitionTransaction(IF k = 1 THEN a ELSE << b, c, d >>[k - 1],
                                                   << b, c, d >>[k])
        BY DEF RefusedSteps
    <2>2. k = 1 \/ k = 2 \/ k = 3
        BY <2>1
    <2>3. QED
        BY <2>2
<1>2. QED
    BY <1>1 DEF Walk, CanWalk

LEMMA WalkStart ==
    /\ Walk("created", << "instruction_created" >>) = "instruction_created"
    /\ Walk("created", << "instruction_created", "failed" >>) = "failed"
BY CanTransition, WalkOne, WalkTwo

LEMMA WalkFailed ==
    /\ Walk("instruction_created", << "failed" >>) = "failed"
    /\ Walk("instruction_created", << "externally_settled", "failed" >>) = "failed"
    /\ Walk("instruction_created", << "externally_settled", "reconciled", "failed" >>) = "failed"
BY CanTransition, WalkOne, WalkTwo, WalkThree

LEMMA WalkSettled ==
    ApplySettlementResult(
        Walk("instruction_created",
             << "externally_settled", "reconciled", "internally_settled" >>),
        "matched") = "settled"
<1>1. Walk("instruction_created",
           << "externally_settled", "reconciled", "internally_settled" >>)
        = "internally_settled"
    BY CanTransition, WalkThree
<1>2. MatchedPath("internally_settled") = << "settled" >>
    BY DEF MatchedPath
<1>3. CanWalk("internally_settled", << "settled" >>)
    BY CanTransition, WalkOne
<1>4. QED
    BY <1>1, <1>2, <1>3 DEF ApplySettlementResult, TerminalStatuses

-----------------------------------------------------------------------------
\* What the operators return.

LEMMA RepresentationId ==
    ASSUME NEW rep \in Representations PROVE rep.id \in RepresentationIds
BY DEF RepresentationIds

LEMMA IntentFacts ==
    ASSUME NEW i \in Intents
    PROVE  /\ IntentData[i].from \in Accounts
           /\ IntentData[i].to \in Accounts
           /\ Quantity(i) \in Nat
           /\ Quantity(i) > 0
BY DataAssumption DEF Quantity

LEMMA TransferredInt ==
    ASSUME NEW K, NEW h \in [ K -> Int ], NEW source \in K, NEW destination \in K,
           NEW q \in Int
    PROVE  Transferred(h, source, destination, q) \in [ K -> Int ]
BY NoneAssumption DEF Transferred, OrZero

LEMMA TransferredPositions ==
    ASSUME NEW K, NEW h \in [ K -> Int \union {NoPosition} ], NEW source \in K,
           NEW destination \in K, NEW q \in Int, h[source] # NoPosition
    PROVE  /\ Transferred(h, source, destination, q) \in [ K -> Int \union {NoPosition} ]
           /\ \A key \in K : key \notin { source, destination } =>
                Transferred(h, source, destination, q)[key] = h[key]
           /\ source # destination =>
                /\ Transferred(h, source, destination, q)[source] = h[source] - q
                /\ Transferred(h, source, destination, q)[destination]
                     = OrZero(h[destination]) + q
           /\ source = destination =>
                Transferred(h, source, destination, q)[source] = h[source]
BY NoneAssumption DEF Transferred, OrZero

\* A run whose variables stand still stays consistent; more representations may
\* have been registered.
LEMMA Frame ==
    ASSUME NEW s \in Runs, RunConsistent(s),
           pc'[s] = pc[s], status'[s] = status[s], instruction'[s] = instruction[s],
           external'[s] = external[s], via'[s] = via[s], intentOf'[s] = intentOf[s],
           s \in evidence' <=> s \in evidence,
           representations \subseteq representations'
    PROVE  RunConsistent(s)'
<1>1. /\ Untouched(s) => Untouched(s)'
      /\ Underway(s) => Underway(s)'
      /\ Recorded(s) => Recorded(s)'
      /\ Ended(s) => Ended(s)'
    BY DEF Untouched, Underway, Recorded, Ended, Faithful
<1>2. QED
    BY <1>1 DEF RunConsistent

\* The reconciliation of a single observed transfer: it matches or it does not,
\* and it matches exactly when the transfer was the one asked for.
LEMMA Verdict ==
    ASSUME NEW r \in Runs, via[r] \in representations,
           via[r].asset = IntentData[intentOf[r]].asset,
           external[r] # None, Recorded(r)
    PROVE  /\ Faithful(r) => ReconciliationOf(r) = "matched"
           /\ ~Faithful(r) => ReconciliationOf(r) = "mismatched"
<1> DEFINE m == Movement(intentOf[r])
           settlement == [ movement |-> m, externalMovements |-> {external[r]} ]
           verdict == ReconcileSettlement(settlement, representations)
<1>1. /\ settlement.movement = m
      /\ settlement.externalMovements = {external[r]}
      /\ m.from = IntentData[intentOf[r]].from
      /\ m.to = IntentData[intentOf[r]].to
      /\ m.asset = IntentData[intentOf[r]].asset
      /\ m.quantity = IntentData[intentOf[r]].quantity
    BY DEF Movement
<1>2. via[r] \in RepresentationsOf(m.asset, representations)
    BY <1>1 DEF RepresentationsOf
<1>3. Matches(m, external[r], representations) <=> Faithful(r)
    BY <1>1, <1>2 DEF Matches, Faithful, Recorded, Quantity
<1>4. verdict = IF Faithful(r) THEN "matched" ELSE "mismatched"
    <2> HIDE DEF m
    <2>1. RepresentationsOf(settlement.movement.asset, representations) # {}
        BY <1>1, <1>2
    <2>2. (\E e \in settlement.externalMovements :
              Matches(settlement.movement, e, representations)) <=> Faithful(r)
        BY <1>1, <1>3
    <2> HIDE DEF settlement
    <2>3. QED
        BY <2>1, <2>2 DEF ReconcileSettlement
<1>5. ReconciliationOf(r) = verdict
    <2>1. ReconciliationOf(r) = ReconcileSettlements(1, << settlement >>, representations)
        BY DEF ReconciliationOf
    <2> HIDE DEF settlement
    <2>2. { ReconcileSettlement(<< settlement >>[n], representations) :
              n \in 1..Len(<< settlement >>) } = { verdict }
        BY DEF verdict
    <2>3. << settlement >> # << >> /\ ~(Len(<< settlement >>) < 1)
        OBVIOUS
    <2>4. verdict \in { "matched", "mismatched" }
        BY <1>4
    <2> HIDE DEF verdict
    <2>5. QED
        BY <2>1, <2>2, <2>3, <2>4 DEF ReconcileSettlements
<1>6. QED
    BY <1>4, <1>5

-----------------------------------------------------------------------------
\* IInv holds initially and every action keeps it.

LEMMA InitIInv == Init => IInv
<1> SUFFICES ASSUME Init PROVE IInv
    OBVIOUS
<1>1. TypeOK
    <2>1. << >> \in Seq([ transactionId : Runs, type : { "debit", "credit" },
                          key : PositionKeys, quantity : Nat ])
        BY EmptySeq
    <2>2. balances \in [ ExternalKeys -> Int ]
        <3>1. ExternalBalances \in [ ExternalKeys -> Nat ]
            BY DataAssumption
        <3>2. ExternalBalances \in [ ExternalKeys -> Int ]
            BY <3>1
        <3>3. QED
            BY <3>2 DEF Init
    <2>3. /\ positions \in [ PositionKeys -> Int \union {NoPosition} ]
          /\ opened \in [ PositionKeys -> Nat ]
          /\ external \in [ Runs -> ExternalTransactions \union {None} ]
          /\ crashes \in 0..MaxCrashes
        BY DataAssumption DEF Init
    <2>4. /\ pc \in [ Runs -> Places ]
          /\ intentOf \in [ Runs -> Intents \union {None} ]
          /\ status \in [ Runs -> TransactionStatuses \union {None} ]
          /\ instruction \in [ Runs -> { None, "pending", "executing", "settled", "failed" } ]
          /\ via \in [ Runs -> Representations \union {None} ]
        BY DEF Init, Places
    <2>5. /\ ledger = << >>
          /\ representations \subseteq Representations
          /\ evidence \subseteq Runs
          /\ unsaved \in InFlight \union {None}
        BY DEF Init
    <2>6. QED
        BY <2>1, <2>2, <2>3, <2>4, <2>5 DEF TypeOK
<1>2. RunsConsistent
    <2> SUFFICES ASSUME NEW r \in Runs PROVE RunConsistent(r)
        BY DEF RunsConsistent
    <2>2. /\ pc[r] = "idle"
          /\ intentOf[r] = None
          /\ status[r] = None
          /\ instruction[r] = None
          /\ external[r] = None
          /\ evidence = {}
        BY DEF Init
    <2>3. QED
        BY <2>2 DEF RunConsistent, Untouched
<1>3. QED
    BY <1>1, <1>2 DEF IInv

LEMMA OpenPositionIInv ==
    ASSUME IInv, NEW key \in PositionKeys, NEW quantity \in OpeningQuantities,
           OpenPosition(key, quantity)
    PROVE  IInv'
<1>1. TypeOK'
    BY DataAssumption DEF IInv, TypeOK, OpenPosition, InFlight
<1>2. RunsConsistent'
    BY Frame DEF IInv, RunsConsistent, OpenPosition
<1>3. QED
    BY <1>1, <1>2 DEF IInv

LEMMA RegisterRepresentationIInv ==
    ASSUME IInv, NEW rep \in Representations, RegisterRepresentation(rep)
    PROVE  IInv'
<1>1. TypeOK'
    BY DEF IInv, TypeOK, RegisterRepresentation, InFlight
<1>2. RunsConsistent'
    BY Frame DEF IInv, RunsConsistent, RegisterRepresentation
<1>3. QED
    BY <1>1, <1>2 DEF IInv

LEMMA RejectCreationIInv ==
    ASSUME IInv, NEW r \in Runs, NEW i \in Intents, RejectCreation(r, i)
    PROVE  IInv'
<1>1. TypeOK'
    BY DEF IInv, TypeOK, RejectCreation, InFlight, Places
<1>2. RunConsistent(r)'
    BY DEF IInv, TypeOK, RunsConsistent, RunConsistent, RejectCreation, Untouched
<1>3. \A s \in Runs \ {r} : RunConsistent(s)'
    BY Frame DEF IInv, TypeOK, RunsConsistent, RejectCreation
<1>4. QED
    BY <1>1, <1>2, <1>3 DEF IInv, RunsConsistent

LEMMA StartUnresolvableIInv ==
    ASSUME IInv, NEW r \in Runs, NEW i \in Intents, StartUnresolvable(r, i)
    PROVE  IInv'
<1>1. status' = [ status EXCEPT ![r] = "failed" ]
    BY WalkStart DEF StartUnresolvable
<1>2. TypeOK'
    BY <1>1 DEF IInv, TypeOK, StartUnresolvable, InFlight, Places,
                TransactionStatuses
<1>3. RunConsistent(r)'
    BY <1>1 DEF IInv, TypeOK, RunsConsistent, RunConsistent, StartUnresolvable,
                Untouched, Ended
<1>4. \A s \in Runs \ {r} : RunConsistent(s)'
    BY <1>1, Frame DEF IInv, TypeOK, RunsConsistent, StartUnresolvable
<1>5. QED
    BY <1>2, <1>3, <1>4 DEF IInv, RunsConsistent

LEMMA StartSettlementIInv ==
    ASSUME IInv, NEW r \in Runs, NEW i \in Intents, StartSettlement(r, i)
    PROVE  IInv'
<1>1. status' = [ status EXCEPT ![r] = "instruction_created" ]
    BY WalkStart DEF StartSettlement
<1>2. PICK rep \in Route(i) : via' = [ via EXCEPT ![r] = rep ]
    BY DEF StartSettlement
<1>3. rep \in representations /\ rep.asset = IntentData[i].asset
    BY <1>2 DEF Route, RepresentationsOf
<1>4. IntentData[i].asset \in Assets
    BY DEF StartSettlement, Creatable
<1>5. TypeOK'
    BY <1>1, <1>2, <1>3 DEF IInv, TypeOK, StartSettlement, InFlight,
                            Places, TransactionStatuses
<1>6. RunConsistent(r)'
    BY <1>1, <1>2, <1>3, <1>4
       DEF IInv, TypeOK, RunsConsistent, RunConsistent, StartSettlement, Untouched, Underway
<1>7. \A s \in Runs \ {r} : RunConsistent(s)'
    BY <1>1, <1>2, Frame DEF IInv, TypeOK, RunsConsistent, StartSettlement
<1>8. QED
    BY <1>5, <1>6, <1>7 DEF IInv, RunsConsistent

\* What an accepted transfer leaves at the adapter.
LEMMA AdapterTransfersFacts ==
    ASSUME IInv, NEW r \in Runs, pc[r] = "transfer", AdapterTransfers(r)
    PROVE  /\ balances' \in [ ExternalKeys -> Int ]
           /\ external' \in [ Runs -> ExternalTransactions \union {None} ]
           /\ external'[r] # None
           /\ \A s \in Runs \ {r} : external'[s] = external[s]
           /\ external'[r].from = IntentData[intentOf[r]].from
           /\ external'[r].to = IntentData[intentOf[r]].to
           /\ external'[r].representation = via[r].id
           /\ SettlementModes = {"immediate"} => external'[r].status = "confirmed"
<1> DEFINE i == intentOf[r]
<1>1. /\ i \in Intents
      /\ via[r] \in Representations
    BY DEF IInv, TypeOK, RunsConsistent, RunConsistent, Underway
<1>2. /\ IntentData[i].from \in Accounts
      /\ IntentData[i].to \in Accounts
      /\ Quantity(i) \in Nat
      /\ via[r].id \in RepresentationIds
    BY <1>1, IntentFacts, RepresentationId
<1>3. PICK state \in { IF mode = "immediate" THEN "confirmed" ELSE "pending" :
                         mode \in SettlementModes },
           delivered \in IF "short" \in Faults THEN 0..Quantity(i) ELSE { Quantity(i) } :
        /\ external' = [ external EXCEPT ![r] =
                            ExternalTransaction(i, via[r], delivered, state) ]
        /\ balances' = IF state = "confirmed"
                       THEN Transferred(balances, ExternalKey(r, IntentData[i].from),
                                        ExternalKey(r, IntentData[i].to), delivered)
                       ELSE balances
    BY DEF AdapterTransfers
<1>4. delivered \in Nat
    BY <1>2, <1>3
<1>5. /\ state \in { "confirmed", "pending" }
      /\ SettlementModes = {"immediate"} => state = "confirmed"
    BY <1>3
<1>6. balances' \in [ ExternalKeys -> Int ]
    <2> DEFINE source == ExternalKey(r, IntentData[i].from)
               destination == ExternalKey(r, IntentData[i].to)
    <2>1. /\ balances \in [ ExternalKeys -> Int ]
          /\ source \in ExternalKeys
          /\ destination \in ExternalKeys
        BY <1>2 DEF IInv, TypeOK, ExternalKey, ExternalKeys
    <2> HIDE DEF source, destination
    <2>2. Transferred(balances, source, destination, delivered)
            \in [ ExternalKeys -> Int ]
        BY <1>4, <2>1, TransferredInt
    <2>3. CASE state = "confirmed"
        <3>1. balances' = Transferred(balances, source, destination, delivered)
            BY <1>3, <2>3 DEF source, destination
        <3>2. QED
            BY <2>2, <3>1
    <2>4. CASE state # "confirmed"
        BY <1>3, <2>1, <2>4
    <2>5. QED
        BY <2>3, <2>4
<1>7. ExternalTransaction(i, via[r], delivered, state) \in ExternalTransactions
    BY <1>2, <1>4, <1>5 DEF ExternalTransaction, ExternalTransactions
<1>8. ExternalTransaction(i, via[r], delivered, state) # None
    BY <1>7, NoneAssumption
<1>9. QED
    BY <1>3, <1>5, <1>6, <1>7, <1>8 DEF ExternalTransaction, IInv, TypeOK

LEMMA TransferReturnsIInv ==
    ASSUME IInv, NEW r \in Runs, TransferReturns(r)
    PROVE  IInv'
<1>1. pc[r] = "transfer" /\ AdapterTransfers(r)
    BY DEF TransferReturns
<1>2. /\ balances' \in [ ExternalKeys -> Int ]
      /\ external' \in [ Runs -> ExternalTransactions \union {None} ]
      /\ external'[r] # None
      /\ \A s \in Runs \ {r} : external'[s] = external[s]
      /\ external'[r].from = IntentData[intentOf[r]].from
      /\ external'[r].to = IntentData[intentOf[r]].to
      /\ external'[r].representation = via[r].id
      /\ SettlementModes = {"immediate"} => external'[r].status = "confirmed"
    BY <1>1, AdapterTransfersFacts
<1>3. Underway(r) /\ intentOf[r] \in Intents /\ via[r] \in Representations
    BY <1>1 DEF IInv, TypeOK, RunsConsistent, RunConsistent, Underway
<1>4. TypeOK'
    BY <1>2 DEF IInv, TypeOK, TransferReturns, InFlight, Places
<1>5. RunConsistent(r)'
    <2>1. pc'[r] = "lookup"
        BY DEF TransferReturns, IInv, TypeOK
    <2>2. Underway(r)'
        BY <1>3 DEF Underway, TransferReturns
    <2>3. intentOf'[r] \in Intents /\ via'[r] \in Representations
        BY <1>3 DEF TransferReturns
    <2>4. Recorded(r)'
        BY <1>2 DEF Recorded, TransferReturns
    <2>5. QED
        BY <1>2, <2>1, <2>2, <2>3, <2>4 DEF RunConsistent
<1>6. \A s \in Runs \ {r} : RunConsistent(s)'
    BY <1>2, Frame DEF IInv, TypeOK, RunsConsistent, TransferReturns
<1>7. QED
    BY <1>4, <1>5, <1>6 DEF IInv, RunsConsistent

\* A run that fails without evidence, whatever the adapter recorded.
LEMMA FailWithoutEvidenceIInv ==
    ASSUME IInv, NEW r \in Runs, pc[r] \in { "transfer", "lookup" },
           FailWithoutEvidence(r),
           balances' \in [ ExternalKeys -> Int ],
           external' \in [ Runs -> ExternalTransactions \union {None} ],
           \A s \in Runs \ {r} : external'[s] = external[s],
           external'[r] # None => Recorded(r)'
    PROVE  IInv'
<1>1. Underway(r) /\ intentOf[r] \in Intents /\ via[r] \in Representations
    BY DEF IInv, TypeOK, RunsConsistent, RunConsistent, Underway
<1>2. status' = [ status EXCEPT ![r] = "failed" ]
    BY <1>1, WalkFailed DEF FailWithoutEvidence, Underway
<1>3. TypeOK'
    BY <1>2 DEF IInv, TypeOK, FailWithoutEvidence, InFlight, Places, TransactionStatuses
<1>4. RunConsistent(r)'
    <2>1. pc'[r] = "done" /\ intentOf'[r] \in Intents /\ via'[r] \in Representations
        BY <1>1 DEF FailWithoutEvidence, IInv, TypeOK
    <2>2. Ended(r)'
        BY <1>1, <1>2 DEF FailWithoutEvidence, IInv, TypeOK, Ended, Underway
    <2>3. QED
        BY <2>1, <2>2 DEF RunConsistent
<1>5. \A s \in Runs \ {r} : RunConsistent(s)'
    BY <1>2, Frame DEF IInv, TypeOK, RunsConsistent, FailWithoutEvidence
<1>6. QED
    BY <1>3, <1>4, <1>5 DEF IInv, RunsConsistent

LEMMA TransferRejectedIInv ==
    ASSUME IInv, NEW r \in Runs, TransferRejected(r)
    PROVE  IInv'
<1>1. /\ pc[r] \in { "transfer", "lookup" }
      /\ FailWithoutEvidence(r)
      /\ external[r] = None
      /\ external' = external
      /\ balances' = balances
    BY DEF TransferRejected, IInv, RunsConsistent, RunConsistent
<1>2. QED
    BY <1>1, FailWithoutEvidenceIInv DEF IInv, TypeOK

LEMMA TransferTimesOutIInv ==
    ASSUME IInv, NEW r \in Runs, TransferTimesOut(r)
    PROVE  IInv'
<1>1. pc[r] = "transfer" /\ AdapterTransfers(r) /\ FailWithoutEvidence(r)
    BY DEF TransferTimesOut
<1>2. via' = via /\ intentOf' = intentOf
    BY <1>1 DEF FailWithoutEvidence
<1>3. Recorded(r)'
    BY <1>1, <1>2, AdapterTransfersFacts DEF Recorded
<1>4. QED
    BY <1>1, <1>3, AdapterTransfersFacts, FailWithoutEvidenceIInv

LEMMA LookupFailsIInv ==
    ASSUME IInv, NEW r \in Runs, LookupFails(r)
    PROVE  IInv'
<1>1. /\ pc[r] \in { "transfer", "lookup" }
      /\ FailWithoutEvidence(r)
      /\ Recorded(r)
      /\ external' = external
      /\ balances' = balances
    BY DEF LookupFails, IInv, RunsConsistent, RunConsistent
<1>2. Recorded(r)'
    BY <1>1 DEF Recorded, FailWithoutEvidence
<1>3. QED
    BY <1>1, <1>2, FailWithoutEvidenceIInv DEF IInv, TypeOK

\* What is known of a run when its evidence arrives.
LEMMA LookupFacts ==
    ASSUME IInv, NEW r \in Runs, ReceiveEvidence(r)
    PROVE  /\ Underway(r)
           /\ Recorded(r)
           /\ external[r] # None
           /\ intentOf[r] \in Intents
           /\ via[r] \in Representations
           /\ Faithful(r) => ReconciliationOf(r) = "matched"
           /\ ~Faithful(r) => ReconciliationOf(r) = "mismatched"
<1>1. /\ Underway(r)
      /\ Recorded(r)
      /\ external[r] # None
      /\ intentOf[r] \in Intents
      /\ via[r] \in Representations
    BY DEF ReceiveEvidence, IInv, RunsConsistent, RunConsistent
<1>2. QED
    BY <1>1, Verdict DEF Underway

\* A run that ends with evidence, settled or failed.
LEMMA ReceiveEvidenceIInv ==
    ASSUME IInv, NEW r \in Runs, ReceiveEvidence(r),
           NEW outcome \in { "settled", "failed" },
           status' = [ status EXCEPT ![r] = outcome ],
           outcome = "settled" => Faithful(r),
           positions' \in [ PositionKeys -> Int \union {NoPosition} ],
           ledger' \in Seq([ transactionId : Runs, type : { "debit", "credit" },
                             key : PositionKeys, quantity : Nat ])
    PROVE  IInv'
<1>1. TypeOK'
    BY DEF IInv, TypeOK, ReceiveEvidence, InFlight, Places, TransactionStatuses
<1>2. RunConsistent(r)'
    <2>1. /\ pc'[r] = "done"
          /\ status'[r] = outcome
          /\ instruction'[r] = "settled"
          /\ r \in evidence'
          /\ intentOf'[r] = intentOf[r]
          /\ external'[r] = external[r]
          /\ via'[r] = via[r]
        BY DEF ReceiveEvidence, IInv, TypeOK
    <2>2. Recorded(r)' /\ (Faithful(r) => Faithful(r)')
        BY <2>1, LookupFacts DEF Recorded, Faithful
    <2>3. Ended(r)'
        BY <2>1, <2>2, LookupFacts DEF Ended
    <2>4. QED
        BY <2>1, <2>2, <2>3, LookupFacts DEF RunConsistent
<1>3. \A s \in Runs \ {r} : RunConsistent(s)'
    BY Frame DEF IInv, TypeOK, RunsConsistent, ReceiveEvidence
<1>4. QED
    BY <1>1, <1>2, <1>3 DEF IInv, RunsConsistent

LEMMA LookupMismatchedIInv ==
    ASSUME IInv, NEW r \in Runs, LookupMismatched(r)
    PROVE  IInv' /\ status' = [ status EXCEPT ![r] = "failed" ] /\ ~Faithful(r)
<1>1. ReceiveEvidence(r) /\ ReconciliationOf(r) = "mismatched" /\ ~Faithful(r)
    BY LookupFacts DEF LookupMismatched
<1>2. status[r] = "instruction_created"
    BY <1>1, LookupFacts DEF Underway
<1>3. status' = [ status EXCEPT ![r] = "failed" ]
    BY <1>1, <1>2, WalkFailed DEF LookupMismatched
<1>4. positions' = positions /\ ledger' = ledger
    BY DEF LookupMismatched
<1>5. QED
    BY <1>1, <1>3, <1>4, ReceiveEvidenceIInv DEF IInv, TypeOK

LEMMA LookupUncoveredIInv ==
    ASSUME IInv, NEW r \in Runs, LookupUncovered(r)
    PROVE  IInv' /\ status' = [ status EXCEPT ![r] = "failed" ]
<1>1. ReceiveEvidence(r)
    BY DEF LookupUncovered
<1>2. status[r] = "instruction_created"
    BY <1>1, LookupFacts DEF Underway
<1>3. status' = [ status EXCEPT ![r] = "failed" ]
    BY <1>2, WalkFailed DEF LookupUncovered
<1>4. positions' = positions /\ ledger' = ledger
    BY DEF LookupUncovered
<1>5. QED
    BY <1>1, <1>3, <1>4, ReceiveEvidenceIInv DEF IInv, TypeOK

\* What a settlement finds and leaves, the part of it that moves no position.
LEMMA LookupSettlesFacts ==
    ASSUME IInv, NEW r \in Runs, LookupSettles(r)
    PROVE  /\ status' = [ status EXCEPT ![r] = "settled" ]
           /\ status[r] = "instruction_created"
           /\ Faithful(r)
           /\ Source(intentOf[r]) \in PositionKeys
           /\ Destination(intentOf[r]) \in PositionKeys
           /\ Quantity(intentOf[r]) \in Nat
           /\ Quantity(intentOf[r]) > 0
           /\ positions[Source(intentOf[r])] # NoPosition
           /\ positions[Source(intentOf[r])] \in Int
<1>1. ReceiveEvidence(r) /\ ReconciliationOf(r) = "matched"
    BY DEF LookupSettles
<1>2. Faithful(r) /\ status[r] = "instruction_created"
    BY <1>1, LookupFacts DEF Underway
<1>3. status' = [ status EXCEPT ![r] = "settled" ]
    BY <1>1, <1>2, WalkSettled DEF LookupSettles
<1>4. intentOf[r] \in Intents /\ IntentData[intentOf[r]].asset \in Assets
    BY <1>1, LookupFacts DEF Underway
<1>5. Source(intentOf[r]) \in PositionKeys /\ Destination(intentOf[r]) \in PositionKeys
    BY <1>4, IntentFacts DEF Source, Destination, PositionKeys
<1>6. positions[Source(intentOf[r])] # NoPosition
    BY DEF LookupSettles, Covers
<1>7. QED
    BY <1>2, <1>3, <1>4, <1>5, <1>6, IntentFacts DEF IInv, TypeOK

EntryType == [ transactionId : Runs, type : { "debit", "credit" },
               key : PositionKeys, quantity : Nat ]

LEMMA LookupSettlesEntries ==
    ASSUME IInv, NEW r \in Runs, LookupSettles(r)
    PROVE  Debit(r) \in EntryType /\ Credit(r) \in EntryType
BY LookupSettlesFacts DEF Debit, Credit, Entry, EntryType

LEMMA LookupSettlesIInv ==
    ASSUME IInv, NEW r \in Runs, LookupSettles(r)
    PROVE  IInv'
<1>1. ReceiveEvidence(r)
    BY DEF LookupSettles
<1>2. positions' \in [ PositionKeys -> Int \union {NoPosition} ]
    <2>1. positions \in [ PositionKeys -> Int \union {NoPosition} ]
        BY DEF IInv, TypeOK
    <2>2. Transferred(positions, Source(intentOf[r]), Destination(intentOf[r]),
                      Quantity(intentOf[r])) \in [ PositionKeys -> Int \union {NoPosition} ]
        BY <2>1, LookupSettlesFacts, TransferredPositions
    <2>3. QED
        BY <2>2 DEF LookupSettles
<1>3. ledger' \in Seq(EntryType)
    <2>1. ledger \in Seq(EntryType)
        BY DEF IInv, TypeOK, EntryType
    <2>2. << Debit(r), Credit(r) >> \in Seq(EntryType)
        BY LookupSettlesEntries
    <2>3. ledger \o << Debit(r), Credit(r) >> \in Seq(EntryType)
        BY <2>1, <2>2, ConcatProperties
    <2>4. QED
        BY <2>3 DEF LookupSettles
<1>4. QED
    BY <1>1, <1>2, <1>3, LookupSettlesFacts, ReceiveEvidenceIInv DEF EntryType

\* The external world touches nothing of a run but its external status.
LEMMA ExternalDecisionRuns ==
    ASSUME IInv, NEW r \in Runs, Pending(r), NEW state \in { "confirmed", "failed" },
           external' = [ external EXCEPT ![r].status = state ],
           UNCHANGED << representations, pc, intentOf, status, instruction, via, evidence >>
    PROVE  /\ external' \in [ Runs -> ExternalTransactions \union {None} ]
           /\ RunsConsistent'
<1>1. external[r] \in ExternalTransactions /\ external[r].status = "pending"
    BY DEF Pending, IInv, TypeOK
<1>2. /\ external' \in [ Runs -> ExternalTransactions \union {None} ]
      /\ external'[r] \in ExternalTransactions
      /\ external'[r].from = external[r].from
      /\ external'[r].to = external[r].to
      /\ external'[r].quantity = external[r].quantity
      /\ external'[r].representation = external[r].representation
      /\ \A s \in Runs \ {r} : external'[s] = external[s]
    BY <1>1 DEF IInv, TypeOK, ExternalTransactions
<1>3. external'[r] # None /\ external[r] # None
    BY <1>2, NoneAssumption DEF Pending
<1>4. Recorded(r) /\ SettlementModes # {"immediate"}
    BY <1>1, <1>3 DEF IInv, RunsConsistent, RunConsistent, Recorded
<1>5. Recorded(r)' /\ (Faithful(r) => Faithful(r)')
    BY <1>2, <1>3, <1>4 DEF Recorded, Faithful
<1>6. RunConsistent(r)'
    <2>1. /\ Underway(r) => Underway(r)'
          /\ Untouched(r) => FALSE
          /\ Ended(r) => Ended(r)'
        BY <1>3, <1>5 DEF Underway, Untouched, Ended
    <2>2. RunConsistent(r)
        BY DEF IInv, RunsConsistent
    <2>3. QED
        BY <1>3, <1>5, <2>1, <2>2 DEF RunConsistent
<1>7. \A s \in Runs \ {r} : RunConsistent(s)'
    BY <1>2, Frame DEF IInv, RunsConsistent
<1>8. QED
    BY <1>2, <1>6, <1>7 DEF RunsConsistent

LEMMA ConfirmExternalIInv ==
    ASSUME IInv, NEW r \in Runs, ConfirmExternal(r)
    PROVE  IInv'
<1>1. /\ RunsConsistent'
      /\ external' \in [ Runs -> ExternalTransactions \union {None} ]
    BY ExternalDecisionRuns DEF ConfirmExternal
<1>2. /\ external[r] \in ExternalTransactions
      /\ via[r] \in Representations
    BY DEF ConfirmExternal, Pending, IInv, TypeOK, RunsConsistent, RunConsistent
<1>3. /\ ExternalKey(r, external[r].from) \in ExternalKeys
      /\ ExternalKey(r, external[r].to) \in ExternalKeys
      /\ external[r].quantity \in Int
    BY <1>2, RepresentationId DEF ExternalKey, ExternalKeys, ExternalTransactions
<1>4. balances' \in [ ExternalKeys -> Int ]
    <2>1. balances \in [ ExternalKeys -> Int ]
        BY DEF IInv, TypeOK
    <2>2. Transferred(balances, ExternalKey(r, external[r].from),
                      ExternalKey(r, external[r].to), external[r].quantity)
            \in [ ExternalKeys -> Int ]
        BY <1>3, <2>1, TransferredInt
    <2>3. QED
        BY <2>2 DEF ConfirmExternal
<1>5. TypeOK'
    BY <1>1, <1>4 DEF ConfirmExternal, IInv, TypeOK, InFlight
<1>6. QED
    BY <1>1, <1>5 DEF IInv

LEMMA FailExternalIInv ==
    ASSUME IInv, NEW r \in Runs, FailExternal(r)
    PROVE  IInv'
<1>1. /\ RunsConsistent'
      /\ external' \in [ Runs -> ExternalTransactions \union {None} ]
    BY ExternalDecisionRuns DEF FailExternal
<1>2. TypeOK'
    BY <1>1 DEF FailExternal, IInv, TypeOK, InFlight
<1>3. QED
    BY <1>1, <1>2 DEF IInv

LEMMA CrashIInv ==
    ASSUME IInv, Crash
    PROVE  IInv'
<1>1. unsaved \in InFlight \union {None} /\ None \notin Runs
    BY NoneAssumption DEF IInv, TypeOK
<1>2. TypeOK'
    <2>1. crashes' \in 0..MaxCrashes
        BY DataAssumption DEF Crash, IInv, TypeOK
    <2>2. /\ pc' \in [ Runs -> Places ]
          /\ status' \in [ Runs -> TransactionStatuses \union {None} ]
          /\ instruction' \in [ Runs -> { None, "pending", "executing", "settled", "failed" } ]
        BY DEF Crash, IInv, TypeOK, Places
    <2>3. QED
        BY <2>1, <2>2 DEF Crash, IInv, TypeOK, InFlight
<1>3. ASSUME NEW r \in InFlight PROVE RunConsistent(r)'
    <2>1. r \in Runs /\ pc[r] \in { "transfer", "lookup" }
        BY DEF InFlight
    <2>2. Underway(r) /\ intentOf[r] \in Intents
        BY <2>1 DEF IInv, RunsConsistent, RunConsistent
    <2>3. /\ pc'[r] = "lost"
          /\ status'[r] = None
          /\ instruction'[r] \in { "pending", "executing" }
          /\ r \notin evidence'
          /\ intentOf'[r] \in Intents
        BY <1>3, <2>1, <2>2 DEF Crash, Underway
    <2>4. external'[r] # None => via'[r] \in Representations /\ Recorded(r)'
        BY <2>1 DEF Crash, IInv, RunsConsistent, RunConsistent, Recorded
    <2>5. QED
        BY <2>3, <2>4 DEF RunConsistent
<1>4. ASSUME NEW r \in Runs \ InFlight PROVE RunConsistent(r)'
    <2>1. /\ pc'[r] = pc[r]
          /\ status'[r] = status[r]
          /\ instruction'[r] = instruction[r]
        BY <1>1 DEF Crash
    <2>2. QED
        BY <2>1, Frame DEF Crash, IInv, RunsConsistent
<1>5. QED
    BY <1>2, <1>3, <1>4 DEF IInv, RunsConsistent, InFlight

LEMMA NextIInv == IInv /\ [Next]_vars => IInv'
<1> SUFFICES ASSUME IInv, [Next]_vars PROVE IInv'
    OBVIOUS
<1>1. CASE Registry
    BY <1>1, OpenPositionIInv, RegisterRepresentationIInv DEF Registry
<1>2. ASSUME NEW r \in Runs, NEW i \in Intents, Start(r, i) PROVE IInv'
    BY <1>2, RejectCreationIInv, StartUnresolvableIInv, StartSettlementIInv DEF Start
<1>3. ASSUME NEW r \in Runs, TransferReturns(r) PROVE IInv'
    BY <1>3, TransferReturnsIInv
<1>4. ASSUME NEW r \in Runs, Finish(r) PROVE IInv'
    BY <1>4, TransferRejectedIInv, TransferTimesOutIInv, LookupFailsIInv,
       LookupMismatchedIInv, LookupUncoveredIInv, LookupSettlesIInv DEF Finish
<1>5. CASE External
    BY <1>5, ConfirmExternalIInv, FailExternalIInv DEF External
<1>6. CASE Crash
    BY <1>6, CrashIInv
<1>7. CASE UNCHANGED vars
    BY <1>7, Frame DEF vars, IInv, TypeOK, RunsConsistent, InFlight
<1>8. QED
    BY <1>1, <1>2, <1>3, <1>4, <1>5, <1>6, <1>7 DEF Next

LEMMA Invariance == Spec => []IInv
BY InitIInv, NextIInv, PTL DEF Spec

-----------------------------------------------------------------------------
\* A transaction is settled or failed only at the end of its run.
LEMMA SettledDone ==
    ASSUME IInv, NEW r \in Runs, status[r] \in TerminalStatuses
    PROVE  pc[r] = "done"
<1>1. RunConsistent(r) /\ pc[r] \in Places
    BY DEF IInv, TypeOK, RunsConsistent
<1>2. QED
    BY <1>1, NoneAssumption
       DEF RunConsistent, Untouched, Underway, Places, TerminalStatuses, TransactionStatuses

\* TypeOK holds in every reachable state.
THEOREM TypeCorrect == Spec => []TypeOK
<1>1. IInv => TypeOK
    BY DEF IInv
<1>2. QED
    BY <1>1, Invariance, PTL

\* Every settled transaction has a settled instruction and evidence of an
\* external transaction that moved what it moved (transactionExecutionEngine.ts
\* settles only what reconciliationEngine.ts matched).
THEOREM SettledIsBacked == Spec => []SettledBacked
<1>1. ASSUME IInv, NEW r \in Runs, status[r] = "settled"
      PROVE  /\ instruction[r] = "settled"
             /\ r \in evidence
             /\ Faithful(r)
             /\ SettlementModes = {"immediate"} => external[r].status = "confirmed"
    <2>1. pc[r] = "done" /\ RunConsistent(r)
        BY <1>1, SettledDone DEF IInv, RunsConsistent, TerminalStatuses
    <2>2. Ended(r)
        BY <2>1 DEF RunConsistent
    <2>3. instruction[r] = "settled" /\ r \in evidence /\ Faithful(r)
        BY <1>1, <2>2 DEF Ended
    <2>4. Recorded(r)
        BY <2>1, <2>3 DEF RunConsistent, Faithful
    <2>5. QED
        BY <2>3, <2>4 DEF Recorded
<1>2. IInv => SettledBacked
    BY <1>1 DEF SettledBacked
<1>3. QED
    BY <1>2, Invariance, PTL

\* The status of a settlement instruction and the outcome of its transaction
\* never contradict each other (settlementInstructionExecutionEngine.ts against
\* transactionExecutionEngine.ts).
THEOREM InstructionTells == Spec => []InstructionTellsOutcome
<1>1. IInv => InstructionTellsOutcome
    <2> SUFFICES ASSUME IInv, NEW r \in Runs
                 PROVE  /\ instruction[r] = "settled" <=> r \in evidence
                        /\ instruction[r] = "settled" => status[r] \in TerminalStatuses
                        /\ instruction[r] = "failed" => status[r] = "failed" /\ r \notin evidence
                        /\ instruction[r] = "executing" <=>
                              \/ r \in InFlight
                              \/ pc[r] = "lost" /\ instruction[r] # "pending"
                        /\ instruction[r] = "pending" => pc[r] = "lost"
        BY DEF InstructionTellsOutcome
    <2>1. RunConsistent(r) /\ pc[r] \in Places
        BY DEF IInv, TypeOK, RunsConsistent
    <2>2. CASE pc[r] \in { "idle", "rejected" }
        BY <2>1, <2>2, NoneAssumption DEF RunConsistent, Untouched, InFlight
    <2>3. CASE pc[r] \in { "transfer", "lookup" }
        BY <2>1, <2>3 DEF RunConsistent, Underway, InFlight
    <2>4. CASE pc[r] = "lost"
        BY <2>1, <2>4 DEF RunConsistent, InFlight
    <2>5. CASE pc[r] = "done"
        BY <2>1, <2>5 DEF RunConsistent, Ended, InFlight, TerminalStatuses
    <2>6. QED
        BY <2>1, <2>2, <2>3, <2>4, <2>5 DEF Places
<1>2. QED
    BY <1>1, Invariance, PTL

-----------------------------------------------------------------------------
\* Every step leaves positions and ledger alone, opens a position, or settles
\* one transaction.
LEMMA StepEffect ==
    ASSUME IInv, [Next]_vars
    PROVE  \/ positions' = positions /\ ledger' = ledger /\ opened' = opened
           \/ \E key \in PositionKeys, quantity \in OpeningQuantities :
                OpenPosition(key, quantity)
           \/ \E r \in Runs : LookupSettles(r)
BY DEF Next, Registry, Start, Finish, External, RegisterRepresentation, RejectCreation,
       StartUnresolvable, StartSettlement, TransferReturns, FailWithoutEvidence,
       TransferRejected, TransferTimesOut, LookupFails, LookupMismatched, LookupUncovered,
       ReceiveEvidence, ConfirmExternal, FailExternal, Crash, vars

\* No position is ever overdrawn, however many runs pass the first check on the
\* same quantity (settlementEngine.ts checks again in the segment that moves it).
THEOREM NeverOverdrawn == Spec => []NoOverdraft
<1>1. Init => NoOverdraft
    BY DEF Init, NoOverdraft
<1>2. ASSUME IInv, NoOverdraft, [Next]_vars PROVE NoOverdraft'
    <2>1. CASE positions' = positions /\ ledger' = ledger
        BY <1>2, <2>1 DEF NoOverdraft
    <2>2. ASSUME NEW key \in PositionKeys, NEW quantity \in OpeningQuantities,
                 OpenPosition(key, quantity)
          PROVE  NoOverdraft'
        BY <1>2, <2>2, DataAssumption DEF NoOverdraft, OpenPosition, IInv, TypeOK
    <2>3. ASSUME NEW r \in Runs, LookupSettles(r) PROVE NoOverdraft'
        <3> DEFINE source == Source(intentOf[r])
                   destination == Destination(intentOf[r])
                   q == Quantity(intentOf[r])
        <3>1. positions' = Transferred(positions, source, destination, q)
            BY <2>3 DEF LookupSettles
        <3>2. /\ source \in PositionKeys
              /\ destination \in PositionKeys
              /\ q \in Int
              /\ q > 0
              /\ positions[source] # NoPosition
              /\ positions[source] \in Int
            BY <1>2, <2>3, LookupSettlesFacts
        <3>3. positions[source] >= q
            BY <2>3 DEF LookupSettles, Covers
        <3>4. positions \in [ PositionKeys -> Int \union {NoPosition} ]
            BY <1>2 DEF IInv, TypeOK
        <3> HIDE DEF source, destination, q
        <3>5. /\ \A key \in PositionKeys : key \notin { source, destination } =>
                    positions'[key] = positions[key]
              /\ source # destination =>
                    /\ positions'[source] = positions[source] - q
                    /\ positions'[destination] = OrZero(positions[destination]) + q
              /\ source = destination => positions'[source] = positions[source]
            BY <3>1, <3>2, <3>4, TransferredPositions
        <3>6. OrZero(positions[destination]) \in Int /\ OrZero(positions[destination]) >= 0
            BY <1>2, <3>2, <3>4 DEF OrZero, NoOverdraft
        <3>7. ASSUME NEW key \in PositionKeys, positions'[key] # NoPosition
              PROVE  positions'[key] >= 0
            <4>1. CASE key \notin { source, destination }
                BY <1>2, <3>5, <3>7, <4>1 DEF NoOverdraft
            <4>2. CASE key \in { source, destination } /\ source # destination
                BY <3>2, <3>3, <3>5, <3>6, <4>2
            <4>3. CASE key = source /\ source = destination
                BY <1>2, <3>2, <3>5, <4>3 DEF NoOverdraft
            <4>4. QED
                BY <4>1, <4>2, <4>3
        <3>8. QED
            BY <3>7 DEF NoOverdraft
    <2>4. QED
        BY <1>2, <2>1, <2>2, <2>3, StepEffect
<1>3. QED
    BY <1>1, <1>2, Invariance, PTL DEF Spec

-----------------------------------------------------------------------------
\* What a step does to one run: it leaves it standing, or it is a step of that
\* run, or the crash that loses it.

StandsStill(r) ==
    /\ pc'[r] = pc[r]
    /\ status'[r] = status[r]
    /\ intentOf'[r] = intentOf[r]
    /\ via'[r] = via[r]
    /\ r \in evidence' <=> r \in evidence
    /\ external'[r] = None <=> external[r] = None
    /\ Faithful(r)' <=> Faithful(r)

LEMMA StillWhenUnchanged ==
    ASSUME NEW r \in Runs, pc'[r] = pc[r], status'[r] = status[r],
           intentOf'[r] = intentOf[r], via'[r] = via[r], external'[r] = external[r],
           r \in evidence' <=> r \in evidence
    PROVE  StandsStill(r)
BY DEF StandsStill, Faithful

LEMMA StillWhenOtherActs ==
    ASSUME IInv, NEW s \in Runs, NEW r \in Runs \ {s},
           \/ \E i \in Intents : Start(s, i)
           \/ TransferReturns(s)
           \/ Finish(s)
    PROVE  StandsStill(r)
<1>1. ASSUME NEW i \in Intents, Start(s, i) PROVE StandsStill(r)
    <2>1. /\ pc'[r] = pc[r]
          /\ status'[r] = status[r]
          /\ intentOf'[r] = intentOf[r]
          /\ via'[r] = via[r]
          /\ external' = external
          /\ evidence' = evidence
        BY <1>1 DEF Start, RejectCreation, StartUnresolvable, StartSettlement, IInv, TypeOK
    <2>2. QED
        BY <2>1, StillWhenUnchanged
<1>2. ASSUME AdapterTransfers(s), pc[s] = "transfer" PROVE external'[r] = external[r]
    BY <1>2, AdapterTransfersFacts
<1>3. CASE TransferReturns(s)
    BY <1>2, <1>3, StillWhenUnchanged DEF TransferReturns, IInv, TypeOK
<1>4. ASSUME FailWithoutEvidence(s), external'[r] = external[r] PROVE StandsStill(r)
    BY <1>4, StillWhenUnchanged DEF FailWithoutEvidence, IInv, TypeOK
<1>5. CASE TransferRejected(s) \/ TransferTimesOut(s) \/ LookupFails(s)
    BY <1>2, <1>4, <1>5 DEF TransferRejected, TransferTimesOut, LookupFails
<1>6. CASE LookupMismatched(s) \/ LookupUncovered(s) \/ LookupSettles(s)
    BY <1>6, StillWhenUnchanged
       DEF LookupMismatched, LookupUncovered, LookupSettles, ReceiveEvidence, IInv, TypeOK
<1>7. QED
    BY <1>1, <1>3, <1>5, <1>6 DEF Finish

LEMMA StillWhenExternalDecides ==
    ASSUME IInv, NEW s \in Runs, ConfirmExternal(s) \/ FailExternal(s), NEW r \in Runs
    PROVE  StandsStill(r)
<1>1. PICK state \in { "confirmed", "failed" } :
        external' = [ external EXCEPT ![s].status = state ]
    BY DEF ConfirmExternal, FailExternal
<1>2. /\ pc' = pc
      /\ status' = status
      /\ intentOf' = intentOf
      /\ via' = via
      /\ evidence' = evidence
    BY DEF ConfirmExternal, FailExternal
<1>3. CASE r # s
    BY <1>1, <1>2, <1>3, StillWhenUnchanged DEF IInv, TypeOK
<1>4. CASE r = s
    <2>1. external[s] \in ExternalTransactions
        BY DEF ConfirmExternal, FailExternal, Pending, IInv, TypeOK
    <2>2. /\ external'[s] \in ExternalTransactions
          /\ external'[s].from = external[s].from
          /\ external'[s].to = external[s].to
          /\ external'[s].quantity = external[s].quantity
          /\ external'[s].representation = external[s].representation
        BY <1>1, <2>1 DEF IInv, TypeOK, ExternalTransactions
    <2>3. external'[s] # None /\ external[s] # None
        BY <2>1, <2>2, NoneAssumption
    <2>4. QED
        BY <1>2, <1>4, <2>2, <2>3 DEF StandsStill, Faithful
<1>5. QED
    BY <1>3, <1>4

LEMMA RunStep ==
    ASSUME IInv, [Next]_vars, NEW r \in Runs
    PROVE  \/ StandsStill(r)
           \/ \E i \in Intents : Start(r, i)
           \/ TransferReturns(r)
           \/ Finish(r)
           \/ Crash /\ r \in InFlight
<1>1. CASE Registry \/ UNCHANGED vars
    BY <1>1, StillWhenUnchanged DEF Registry, OpenPosition, RegisterRepresentation, vars
<1>2. CASE \E s \in Runs : \/ \E i \in Intents : Start(s, i)
                           \/ TransferReturns(s)
                           \/ Finish(s)
    BY <1>2, StillWhenOtherActs
<1>3. CASE External
    BY <1>3, StillWhenExternalDecides DEF External
<1>4. CASE Crash
    BY <1>4, StillWhenUnchanged DEF Crash
<1>5. QED
    BY <1>1, <1>2, <1>3, <1>4 DEF Next

\* A run that has ended stands still for ever.
LEMMA DoneStandsStill ==
    ASSUME IInv, [Next]_vars, NEW r \in Runs, pc[r] = "done"
    PROVE  StandsStill(r)
<1>1. /\ \A i \in Intents : ~Start(r, i)
      /\ ~TransferReturns(r)
      /\ ~Finish(r)
      /\ r \notin InFlight
    BY DEF Start, RejectCreation, StartUnresolvable, StartSettlement, TransferReturns,
           Finish, TransferRejected, TransferTimesOut, LookupFails, LookupMismatched,
           LookupUncovered, LookupSettles, ReceiveEvidence, InFlight
<1>2. QED
    BY <1>1, RunStep

-----------------------------------------------------------------------------
\* OrphanExplained needs to know why a run in flight may find its position
\* short: it did not when it started, so another run has spent it since.

Contended(r) == \E s \in Runs : SpentBy(r, s)

ShortfallExplained == \A r \in InFlight : Covers(intentOf[r]) \/ Contended(r)

LEMMA ContendedStays ==
    ASSUME IInv, [Next]_vars, NEW r \in Runs, intentOf'[r] = intentOf[r], Contended(r)
    PROVE  Contended(r)'
<1>1. PICK s \in Runs : SpentBy(r, s)
    BY DEF Contended
<1>2. pc[s] = "done"
    BY <1>1, SettledDone DEF SpentBy, TerminalStatuses
<1>3. status'[s] = status[s] /\ intentOf'[s] = intentOf[s]
    BY <1>2, DoneStandsStill DEF StandsStill
<1>4. QED
    BY <1>1, <1>3 DEF SpentBy, Contended

LEMMA CoverStaysOrIsSpent ==
    ASSUME IInv, [Next]_vars, NEW r \in Runs, r \in InFlight, r \in InFlight',
           intentOf'[r] = intentOf[r], Covers(intentOf[r])
    PROVE  Covers(intentOf[r])' \/ Contended(r)'
<1> DEFINE key == Source(intentOf[r])
<1>1. /\ intentOf[r] \in Intents
      /\ key \in PositionKeys
    <2>1. intentOf[r] \in Intents /\ IntentData[intentOf[r]].asset \in Assets
        BY DEF InFlight, IInv, RunsConsistent, RunConsistent, Underway
    <2>2. QED
        BY <2>1, IntentFacts DEF Source, PositionKeys
<1>2. /\ positions \in [ PositionKeys -> Int \union {NoPosition} ]
      /\ positions[key] # NoPosition
      /\ positions[key] >= Quantity(intentOf[r])
      /\ positions[key] \in Int
      /\ Quantity(intentOf[r]) \in Nat
    BY <1>1, IntentFacts DEF IInv, TypeOK, Covers
<1>3. SUFFICES \/ positions'[key] \in Int /\ positions'[key] >= positions[key]
               \/ Contended(r)'
    BY <1>2, NoneAssumption DEF Covers
<1>4. CASE positions' = positions
    BY <1>2, <1>4
<1>5. ASSUME NEW k \in PositionKeys, NEW quantity \in OpeningQuantities,
             OpenPosition(k, quantity)
      PROVE  positions'[key] = positions[key]
    BY <1>1, <1>2, <1>5 DEF OpenPosition
<1>6. ASSUME NEW s \in Runs, LookupSettles(s)
      PROVE  \/ positions'[key] \in Int /\ positions'[key] >= positions[key]
             \/ Contended(r)'
    <2> DEFINE source == Source(intentOf[s])
               destination == Destination(intentOf[s])
               q == Quantity(intentOf[s])
    <2>1. s # r
        BY <1>6 DEF LookupSettles, ReceiveEvidence, InFlight, IInv, TypeOK
    <2>2. /\ source \in PositionKeys
          /\ destination \in PositionKeys
          /\ q \in Int
          /\ q > 0
          /\ positions[source] # NoPosition
          /\ status' = [ status EXCEPT ![s] = "settled" ]
        BY <1>6, LookupSettlesFacts
    <2>3. positions' = Transferred(positions, source, destination, q)
        BY <1>6 DEF LookupSettles
    <2>4. CASE source = key /\ destination # source
        <3>1. intentOf'[s] = intentOf[s]
            BY <1>6 DEF LookupSettles, ReceiveEvidence
        <3>2. status'[s] = "settled"
            BY <2>2 DEF IInv, TypeOK
        <3>3. SpentBy(r, s)'
            BY <2>1, <2>4, <3>1, <3>2 DEF SpentBy
        <3>4. QED
            BY <3>3 DEF Contended
    <2> HIDE DEF source, destination, q, key
    <2>5. /\ \A k \in PositionKeys : k \notin { source, destination } =>
                positions'[k] = positions[k]
          /\ source # destination =>
                /\ positions'[source] = positions[source] - q
                /\ positions'[destination] = OrZero(positions[destination]) + q
          /\ source = destination => positions'[source] = positions[source]
        BY <1>2, <2>2, <2>3, TransferredPositions
    <2>6. CASE key \notin { source, destination }
        BY <1>1, <1>2, <2>5, <2>6
    <2>7. CASE key = destination /\ destination # source
        BY <1>2, <2>2, <2>5, <2>7 DEF OrZero
    <2>8. CASE key = source /\ source = destination
        BY <1>2, <2>5, <2>8
    <2>9. QED
        BY <2>4, <2>6, <2>7, <2>8
<1>7. QED
    BY <1>2, <1>4, <1>5, <1>6, StepEffect

LEMMA ShortfallExplainedStep ==
    ASSUME IInv, ShortfallExplained, [Next]_vars
    PROVE  ShortfallExplained'
<1> SUFFICES ASSUME NEW r \in Runs, r \in InFlight'
             PROVE  Covers(intentOf[r])' \/ Contended(r)'
    BY DEF ShortfallExplained, InFlight
<1>1. CASE StandsStill(r) \/ TransferReturns(r)
    <2>1. r \in InFlight /\ intentOf'[r] = intentOf[r]
        BY <1>1 DEF StandsStill, TransferReturns, InFlight
    <2>2. Covers(intentOf[r]) \/ Contended(r)
        BY <2>1 DEF ShortfallExplained
    <2>3. QED
        BY <2>1, <2>2, ContendedStays, CoverStaysOrIsSpent
<1>2. ASSUME NEW i \in Intents, Start(r, i) PROVE Covers(intentOf[r])'
    <2>1. StartSettlement(r, i)
        BY <1>2 DEF Start, RejectCreation, StartUnresolvable, InFlight, IInv, TypeOK
    <2>2. Covers(i) /\ positions' = positions /\ intentOf'[r] = i
        BY <2>1 DEF StartSettlement, Creatable, IInv, TypeOK
    <2>3. QED
        BY <2>2 DEF Covers
<1>3. CASE Finish(r)
    BY <1>3 DEF Finish, TransferRejected, TransferTimesOut, LookupFails, LookupMismatched,
                LookupUncovered, LookupSettles, FailWithoutEvidence, ReceiveEvidence,
                InFlight, IInv, TypeOK
<1>4. CASE Crash /\ r \in InFlight
    BY <1>4 DEF Crash, InFlight
<1>5. QED
    BY <1>1, <1>2, <1>3, <1>4, RunStep

\* The reason a step that fails a transaction leaves behind.
LEMMA NewlyFailed ==
    ASSUME IInv, [Next]_vars, NEW r \in Runs, pc[r] # "done", status'[r] = "failed"
    PROVE  \/ external'[r] = None
           \/ r \notin evidence'
           \/ ~Faithful(r)'
           \/ LookupUncovered(r)
<1>1. RunConsistent(r) /\ pc[r] \in Places
    BY DEF IInv, TypeOK, RunsConsistent
<1>2. status[r] # "failed"
    BY SettledDone DEF TerminalStatuses
<1>3. CASE StandsStill(r)
    BY <1>2, <1>3 DEF StandsStill
<1>4. ASSUME NEW i \in Intents, Start(r, i) PROVE external'[r] = None
    BY <1>1, <1>4 DEF Start, RejectCreation, StartUnresolvable, StartSettlement,
                      RunConsistent, Untouched
<1>5. CASE TransferReturns(r)
    BY <1>2, <1>5 DEF TransferReturns
<1>6. CASE TransferRejected(r) \/ TransferTimesOut(r) \/ LookupFails(r)
    <2>1. FailWithoutEvidence(r) /\ pc[r] \in { "transfer", "lookup" }
        BY <1>6 DEF TransferRejected, TransferTimesOut, LookupFails
    <2>2. r \notin evidence
        BY <1>1, <2>1 DEF RunConsistent, Underway
    <2>3. QED
        BY <2>1, <2>2 DEF FailWithoutEvidence
<1>7. CASE LookupMismatched(r)
    <2>1. ~Faithful(r)
        BY <1>7, LookupMismatchedIInv
    <2>2. external' = external /\ intentOf' = intentOf /\ via' = via
        BY <1>7 DEF LookupMismatched, ReceiveEvidence
    <2>3. QED
        BY <2>1, <2>2 DEF Faithful
<1>8. CASE LookupSettles(r)
    BY <1>8, LookupSettlesFacts DEF IInv, TypeOK
<1>9. CASE Crash /\ r \in InFlight
    BY <1>9, NoneAssumption DEF Crash, TransactionStatuses
<1>10. QED
    BY <1>3, <1>4, <1>5, <1>6, <1>7, <1>8, <1>9, RunStep DEF Finish

\* A failed transaction whose external transfer stands lost its evidence, was
\* transferred wrongly, or had its position spent by another transaction while
\* it waited: nothing else makes the internal and external books part
\* (transactionExecutionEngine.ts, between its await and settleTransaction).
THEOREM OrphansExplained == Spec => []OrphanExplained
<1> DEFINE Inv == ShortfallExplained /\ OrphanExplained
<1>1. Init => Inv
    <2>1. Init => ShortfallExplained
        BY DEF Init, ShortfallExplained, InFlight
    <2>2. Init => OrphanExplained
        BY NoneAssumption DEF Init, OrphanExplained, TransactionStatuses
    <2>3. QED
        BY <2>1, <2>2
<1>2. ASSUME IInv, Inv, [Next]_vars PROVE Inv'
    <2>1. ASSUME NEW r \in Runs, status'[r] = "failed", external'[r] # None,
                 r \in evidence', Faithful(r)'
          PROVE  Contended(r)'
        <3>1. CASE pc[r] = "done"
            <4>1. StandsStill(r)
                BY <1>2, <3>1, DoneStandsStill
            <4>2. /\ status[r] = "failed"
                  /\ external[r] # None
                  /\ r \in evidence
                  /\ Faithful(r)
                  /\ intentOf'[r] = intentOf[r]
                BY <2>1, <4>1 DEF StandsStill
            <4>3. Contended(r)
                BY <1>2, <4>2 DEF OrphanExplained, Contended
            <4>4. QED
                BY <1>2, <4>2, <4>3, ContendedStays
        <3>2. CASE pc[r] # "done"
            <4>1. LookupUncovered(r)
                BY <1>2, <2>1, <3>2, NewlyFailed
            <4>2. /\ r \in InFlight
                  /\ ~Covers(intentOf[r])
                  /\ intentOf'[r] = intentOf[r]
                BY <4>1 DEF LookupUncovered, ReceiveEvidence, InFlight
            <4>3. Contended(r)
                BY <1>2, <4>2 DEF ShortfallExplained
            <4>4. QED
                BY <1>2, <4>2, <4>3, ContendedStays
        <3>3. QED
            BY <3>1, <3>2
    <2>2. OrphanExplained'
        BY <2>1 DEF OrphanExplained, Contended
    <2>3. QED
        BY <1>2, <2>2, ShortfallExplainedStep
<1>3. Inv => OrphanExplained
    OBVIOUS
<1> HIDE DEF Inv
<1>4. QED
    BY <1>1, <1>2, <1>3, Invariance, PTL DEF Spec

-----------------------------------------------------------------------------
\* The ledger of a step: unchanged, or one debit and its credit longer.
LEMMA LedgerStep ==
    ASSUME IInv, [Next]_vars
    PROVE  \/ ledger' = ledger
           \/ \E r \in Runs : LookupSettles(r) /\ ledger' = ledger \o << Debit(r), Credit(r) >>
BY StepEffect DEF OpenPosition, LookupSettles

\* The entries of a ledger extended by two.
LEMMA AppendPair ==
    ASSUME NEW S, NEW log \in Seq(S), NEW a \in S, NEW b \in S
    PROVE  LET longer == log \o << a, b >>
           IN  /\ Len(longer) = Len(log) + 2
               /\ \A n \in 1..Len(log) : longer[n] = log[n]
               /\ longer[Len(log) + 1] = a
               /\ longer[Len(log) + 2] = b
               /\ Len(log) \in Nat
<1>1. << a, b >> \in Seq(S) /\ Len(<< a, b >>) = 2
    OBVIOUS
<1>2. Len(log) \in Nat
    OBVIOUS
<1>3. QED
    BY <1>1, <1>2, ConcatProperties

\* The statuses of settled and failed transactions, and the ledger entries
\* already written, are never rewritten.
THEOREM TerminalsAreFinal == Spec => TerminalIsFinal
<1> DEFINE Final == /\ \A r \in Runs : status[r] \in TerminalStatuses => status'[r] = status[r]
                    /\ Len(ledger) <= Len(ledger')
                    /\ \A n \in 1..Len(ledger) : ledger'[n] = ledger[n]
<1>1. ASSUME IInv, [Next]_vars PROVE Final
    <2>1. ASSUME NEW r \in Runs, status[r] \in TerminalStatuses PROVE status'[r] = status[r]
        BY <1>1, <2>1, SettledDone, DoneStandsStill DEF StandsStill
    <2>2. CASE ledger' = ledger
        BY <1>1, <2>1, <2>2 DEF IInv, TypeOK
    <2>3. ASSUME NEW r \in Runs, ledger' = ledger \o << Debit(r), Credit(r) >>,
                 LookupSettles(r)
          PROVE  Final
        <3>1. ledger \in Seq(EntryType) /\ Debit(r) \in EntryType /\ Credit(r) \in EntryType
            BY <1>1, <2>3, LookupSettlesEntries DEF IInv, TypeOK, EntryType
        <3>2. /\ Len(ledger') = Len(ledger) + 2
              /\ \A n \in 1..Len(ledger) : ledger'[n] = ledger[n]
              /\ Len(ledger) \in Nat
            BY <2>3, <3>1, AppendPair
        <3>3. QED
            BY <2>1, <3>2
    <2>4. QED
        BY <1>1, <2>2, <2>3, LedgerStep
<1>2. IInv /\ [Next]_vars => [Final]_vars
    BY <1>1
<1>3. Spec => [][Final]_vars
    <2> HIDE DEF Final
    <2>1. QED
        BY <1>2, Invariance, PTL DEF Spec
<1>4. QED
    BY <1>3 DEF TerminalIsFinal

LEMMA NewlySettled ==
    ASSUME IInv, [Next]_vars, NEW r \in Runs, status[r] # "settled", status'[r] = "settled"
    PROVE  LookupSettles(r)
<1>1. CASE StandsStill(r)
    BY <1>1 DEF StandsStill
<1>2. ASSUME NEW i \in Intents, Start(r, i) PROVE FALSE
    BY <1>2, WalkStart DEF Start, RejectCreation, StartUnresolvable, StartSettlement,
                           IInv, TypeOK
<1>3. CASE TransferReturns(r)
    BY <1>3 DEF TransferReturns
<1>4. CASE TransferRejected(r) \/ TransferTimesOut(r) \/ LookupFails(r)
    <2>1. FailWithoutEvidence(r) /\ pc[r] \in { "transfer", "lookup" }
        BY <1>4 DEF TransferRejected, TransferTimesOut, LookupFails
    <2>2. status[r] = "instruction_created"
        BY <2>1 DEF IInv, RunsConsistent, RunConsistent, Underway
    <2>3. QED
        BY <2>1, <2>2, WalkFailed DEF FailWithoutEvidence, IInv, TypeOK
<1>5. CASE LookupMismatched(r) \/ LookupUncovered(r)
    BY <1>5, LookupMismatchedIInv, LookupUncoveredIInv DEF IInv, TypeOK
<1>6. CASE Crash /\ r \in InFlight
    BY <1>6, NoneAssumption DEF Crash, TransactionStatuses
<1>7. QED
    BY <1>1, <1>2, <1>3, <1>4, <1>5, <1>6, RunStep DEF Finish

\* The ledger holds the debit and the credit of a settled transaction side by
\* side and nothing of any other transaction (ledgerEngine.ts, called once per
\* settlement and from nowhere else).
THEOREM LedgerIsSettlements == Spec => []LedgerMatchesSettled
<1>1. Init => LedgerMatchesSettled
    BY NoneAssumption DEF Init, LedgerMatchesSettled
<1>2. ASSUME IInv, LedgerMatchesSettled, [Next]_vars PROVE LedgerMatchesSettled'
    <2> DEFINE Own(log, r) == { n \in 1..Len(log) : log[n].transactionId = r }
               Matched(log, r, debit, credit, state) ==
                   IF state = "settled"
                   THEN \E n \in 1..Len(log) - 1 :
                           Own(log, r) = {n, n + 1} /\ log[n] = debit /\ log[n + 1] = credit
                   ELSE Own(log, r) = {}
    <2>1. \A r \in Runs : Matched(ledger, r, Debit(r), Credit(r), status[r])
        BY <1>2 DEF LedgerMatchesSettled
    <2>2. SUFFICES ASSUME NEW r \in Runs
                   PROVE  Matched(ledger', r, Debit(r)', Credit(r)', status'[r])
        BY DEF LedgerMatchesSettled
    <2>3. ASSUME status'[r] = status[r], intentOf'[r] = intentOf[r], ledger' = ledger
          PROVE  Matched(ledger', r, Debit(r)', Credit(r)', status'[r])
        BY <2>1, <2>3 DEF Debit, Credit
    <2>4. CASE ledger' = ledger
        <3>1. status[r] # "settled" => status'[r] # "settled"
            <4>1. ASSUME LookupSettles(r) PROVE FALSE
                <5>1. /\ ledger \in Seq(EntryType)
                      /\ Debit(r) \in EntryType
                      /\ Credit(r) \in EntryType
                    BY <1>2, <4>1, LookupSettlesEntries DEF IInv, TypeOK, EntryType
                <5>2. Len(ledger') = Len(ledger) + 2 /\ Len(ledger) \in Nat
                    BY <4>1, <5>1, AppendPair DEF LookupSettles
                <5>3. QED
                    BY <2>4, <5>2
            <4>2. QED
                BY <1>2, <4>1, NewlySettled
        <3>2. CASE status[r] = "settled"
            <4>1. StandsStill(r)
                BY <1>2, <3>2, SettledDone, DoneStandsStill DEF TerminalStatuses
            <4>2. QED
                BY <2>3, <2>4, <4>1 DEF StandsStill
        <3>3. CASE status[r] # "settled"
            BY <2>1, <2>4, <3>1, <3>3
        <3>4. QED
            BY <3>2, <3>3
    <2>5. ASSUME NEW s \in Runs, LookupSettles(s), ledger' = ledger \o << Debit(s), Credit(s) >>
          PROVE  Matched(ledger', r, Debit(r)', Credit(r)', status'[r])
        <3>1. /\ ledger \in Seq(EntryType)
              /\ Debit(s) \in EntryType
              /\ Credit(s) \in EntryType
            BY <1>2, <2>5, LookupSettlesEntries DEF IInv, TypeOK, EntryType
        <3>2. /\ Len(ledger') = Len(ledger) + 2
              /\ \A n \in 1..Len(ledger) : ledger'[n] = ledger[n]
              /\ ledger'[Len(ledger) + 1] = Debit(s)
              /\ ledger'[Len(ledger) + 2] = Credit(s)
              /\ Len(ledger) \in Nat
            BY <2>5, <3>1, AppendPair
        <3>3. Debit(s).transactionId = s /\ Credit(s).transactionId = s
            BY DEF Debit, Credit, Entry
        <3>4. CASE r = s
            <4>1. status[s] # "settled" /\ status'[s] = "settled"
                BY <1>2, <2>5, LookupSettlesFacts DEF IInv, TypeOK
            <4>2. Own(ledger, s) = {}
                BY <2>1, <4>1
            <4>3. Own(ledger', s) = { Len(ledger) + 1, Len(ledger) + 2 }
                BY <3>2, <3>3, <4>2
            <4>4. Debit(s)' = Debit(s) /\ Credit(s)' = Credit(s)
                BY <2>5 DEF LookupSettles, ReceiveEvidence, Debit, Credit
            <4>5. Len(ledger) + 1 \in 1..Len(ledger') - 1
                BY <3>2
            <4>6. (Len(ledger) + 1) + 1 = Len(ledger) + 2
                BY <3>2
            <4>7. QED
                BY <3>2, <3>4, <4>1, <4>3, <4>4, <4>5, <4>6
        <3>5. CASE r # s
            <4>1. status'[r] = status[r] /\ intentOf'[r] = intentOf[r]
                BY <1>2, <2>5, <3>5, StillWhenOtherActs DEF Finish, StandsStill
            <4>2. Own(ledger', r) = Own(ledger, r)
                BY <3>2, <3>3, <3>5
            <4>3. Debit(r)' = Debit(r) /\ Credit(r)' = Credit(r)
                BY <4>1 DEF Debit, Credit
            <4>4. CASE status[r] = "settled"
                <5>1. PICK n \in 1..Len(ledger) - 1 :
                        /\ Own(ledger, r) = {n, n + 1}
                        /\ ledger[n] = Debit(r)
                        /\ ledger[n + 1] = Credit(r)
                    BY <2>1, <4>4
                <5>2. /\ n \in 1..Len(ledger') - 1
                      /\ ledger'[n] = ledger[n]
                      /\ ledger'[n + 1] = ledger[n + 1]
                    BY <3>2, <5>1
                <5>3. QED
                    BY <4>1, <4>2, <4>3, <4>4, <5>1, <5>2
            <4>5. CASE status[r] # "settled"
                BY <2>1, <4>1, <4>2, <4>5
            <4>6. QED
                BY <4>4, <4>5
        <3>6. QED
            BY <3>4, <3>5
    <2>6. QED
        BY <1>2, <2>4, <2>5, LedgerStep
<1>3. QED
    BY <1>1, <1>2, Invariance, PTL DEF Spec
-----------------------------------------------------------------------------
\* The books: positions against ledger.

\* What entry e adds to what the ledger says of a position.
Share(e, key) ==
    IF e.key # key THEN 0 ELSE IF e.type = "credit" THEN e.quantity ELSE -e.quantity

\* The net of a ledger, written with Share.
NetOf(log, key) == SumOver([ n \in 1..Len(log) |-> Share(log[n], key) ], 1..Len(log))

LEMMA NetOfLedger ==
    ASSUME NEW key
    PROVE  LedgerNet(key) = NetOf(ledger, key) /\ LedgerNet(key)' = NetOf(ledger', key)
BY DEF LedgerNet, NetOf, Share

LEMMA ShareInt ==
    ASSUME NEW e \in EntryType, NEW key
    PROVE  Share(e, key) \in Int
BY DEF Share, EntryType

\* A ledger that two entries are appended to.
LEMMA NetOfPair ==
    ASSUME NEW log \in Seq(EntryType), NEW a \in EntryType, NEW b \in EntryType, NEW key
    PROVE  /\ NetOf(log \o << a, b >>, key) = NetOf(log, key) + Share(a, key) + Share(b, key)
           /\ NetOf(log, key) \in Int
<1> DEFINE longer == log \o << a, b >>
           N == Len(log)
           f == [ n \in 1..N |-> Share(log[n], key) ]
           g == [ n \in 1..Len(longer) |-> Share(longer[n], key) ]
<1>1. /\ Len(longer) = N + 2
      /\ \A n \in 1..N : longer[n] = log[n]
      /\ longer[N + 1] = a
      /\ longer[N + 2] = b
      /\ N \in Nat
    BY AppendPair
<1>2. \A n \in 1..N : log[n] \in EntryType
    BY ElementOfSeq
<1> HIDE DEF longer, N
<1>3. 1..Len(longer) = 1..(N + 1) + 1 /\ N + 1 \in Nat
    BY <1>1
<1>4. /\ \A n \in 1..N : f[n] \in Int /\ g[n] = f[n]
      /\ g[N + 1] = Share(a, key)
      /\ g[N + 2] = Share(b, key)
    BY <1>1, <1>2, ShareInt
<1>5. Share(a, key) \in Int /\ Share(b, key) \in Int
    BY ShareInt
<1> HIDE DEF f, g
<1>6. IsFiniteSet(1..N)
    BY <1>1, FS_Interval
<1>7. SumOver(g, 1..N) = SumOver(f, 1..N) /\ SumOver(f, 1..N) \in Int
    <2>1. SumOver(g, 1..N) = SumOver(f, 1..N)
        BY <1>4, <1>6, SumSame
    <2>2. SumOver(f, 1..N) \in Int
        BY <1>4, <1>6, SumType
    <2>3. QED
        BY <2>1, <2>2
<1>8. \A n \in 1..(N + 1) + 1 : g[n] \in Int
    <2>1. \A n \in 1..(N + 1) + 1 : n \in 1..N \/ n = N + 1 \/ n = N + 2
        BY <1>1
    <2>2. QED
        BY <1>4, <1>5, <2>1
<1>9. SumOver(g, 1..N + 1) = SumOver(g, 1..N) + g[N + 1]
    <2>1. \A n \in 1..N + 1 : g[n] \in Int
        BY <1>1, <1>8
    <2>2. QED
        BY <1>1, <2>1, SumAppend
<1>10. SumOver(g, 1..(N + 1) + 1) = SumOver(g, 1..N + 1) + g[(N + 1) + 1]
    BY <1>3, <1>8, SumAppend
<1>11. (N + 1) + 1 = N + 2
    BY <1>1
<1>12. SumOver(g, 1..Len(longer)) = SumOver(f, 1..N) + Share(a, key) + Share(b, key)
    BY <1>3, <1>4, <1>5, <1>7, <1>9, <1>10, <1>11
<1>13. QED
    BY <1>7, <1>12 DEF NetOf, f, g, N, longer

\* A settlement changes what the ledger says of each position as it changes the
\* position, an account that pays itself included.
LEMMA SettlementBalances ==
    ASSUME IInv, NEW r \in Runs, LookupSettles(r), NEW key \in PositionKeys,
           NEW o \in Nat, OrZero(positions[key]) = o + LedgerNet(key)
    PROVE  OrZero(positions'[key]) = o + LedgerNet(key)'
<1> DEFINE source == Source(intentOf[r])
           destination == Destination(intentOf[r])
           q == Quantity(intentOf[r])
<1>1. /\ source \in PositionKeys
      /\ destination \in PositionKeys
      /\ q \in Nat
      /\ positions[source] # NoPosition
      /\ positions[source] \in Int
    BY LookupSettlesFacts
<1>2. /\ ledger \in Seq(EntryType)
      /\ Debit(r) \in EntryType
      /\ Credit(r) \in EntryType
    BY LookupSettlesEntries DEF IInv, TypeOK, EntryType
<1>3. ledger' = ledger \o << Debit(r), Credit(r) >>
    BY DEF LookupSettles
<1>4. /\ NetOf(ledger', key) = NetOf(ledger, key) + Share(Debit(r), key) + Share(Credit(r), key)
      /\ NetOf(ledger, key) \in Int
    BY <1>2, <1>3, NetOfPair
<1>5. /\ Share(Debit(r), key) = IF source = key THEN -q ELSE 0
      /\ Share(Credit(r), key) = IF destination = key THEN q ELSE 0
    BY DEF Share, Debit, Credit, Entry
<1>6. positions \in [ PositionKeys -> Int \union {NoPosition} ]
    BY DEF IInv, TypeOK
<1>7. positions' = Transferred(positions, source, destination, q)
    BY DEF LookupSettles
<1> HIDE DEF source, destination, q
<1>8. /\ \A k \in PositionKeys : k \notin { source, destination } => positions'[k] = positions[k]
      /\ source # destination =>
            /\ positions'[source] = positions[source] - q
            /\ positions'[destination] = OrZero(positions[destination]) + q
      /\ source = destination => positions'[source] = positions[source]
    BY <1>1, <1>6, <1>7, TransferredPositions
<1>9. OrZero(positions'[key]) = OrZero(positions[key]) + Share(Debit(r), key) + Share(Credit(r), key)
    <2>1. /\ OrZero(positions[key]) \in Int
          /\ positions[key] \in Int => OrZero(positions[key]) = positions[key]
          /\ \A k \in Int : OrZero(k) = k
        BY <1>6, NoneAssumption DEF OrZero
    <2>2. CASE key \notin { source, destination }
        BY <1>5, <1>8, <2>1, <2>2
    <2>3. CASE key = source /\ source # destination
        BY <1>1, <1>5, <1>8, <2>1, <2>3
    <2>4. CASE key = destination /\ source # destination
        BY <1>1, <1>5, <1>8, <2>1, <2>4
    <2>5. CASE key = source /\ source = destination
        BY <1>1, <1>5, <1>8, <2>1, <2>5
    <2>6. QED
        BY <2>2, <2>3, <2>4, <2>5
<1>10. Share(Debit(r), key) \in Int /\ Share(Credit(r), key) \in Int
    BY <1>2, ShareInt
<1>11. QED
    BY <1>4, <1>9, <1>10, NetOfLedger

LEMMA NetOfType ==
    ASSUME NEW log \in Seq(EntryType), NEW key
    PROVE  NetOf(log, key) \in Int
<1> DEFINE f == [ n \in 1..Len(log) |-> Share(log[n], key) ]
<1>1. \A n \in 1..Len(log) : f[n] \in Int
    BY ElementOfSeq, ShareInt
<1>2. IsFiniteSet(1..Len(log))
    BY FS_Interval
<1> HIDE DEF f
<1>3. QED
    BY <1>1, <1>2, SumType DEF NetOf, f

\* Nothing has opened a position that is not there.
Unopened == \A key \in PositionKeys : positions[key] = NoPosition => opened[key] = 0

LEMMA UnopenedStep ==
    ASSUME IInv, Unopened, [Next]_vars
    PROVE  Unopened'
<1>1. CASE positions' = positions /\ opened' = opened
    BY <1>1 DEF Unopened
<1>2. ASSUME NEW k \in PositionKeys, NEW quantity \in OpeningQuantities,
             OpenPosition(k, quantity)
      PROVE  Unopened'
    <2>1. quantity # NoPosition
        BY DataAssumption, NoneAssumption
    <2>2. QED
        BY <1>2, <2>1 DEF Unopened, OpenPosition, IInv, TypeOK
<1>3. ASSUME NEW r \in Runs, LookupSettles(r), NEW key \in PositionKeys,
             positions'[key] = NoPosition
      PROVE  opened'[key] = 0
    <2> DEFINE source == Source(intentOf[r])
               destination == Destination(intentOf[r])
               q == Quantity(intentOf[r])
    <2>1. /\ source \in PositionKeys
          /\ destination \in PositionKeys
          /\ q \in Nat
          /\ positions[source] # NoPosition
          /\ positions[source] \in Int
        BY <1>3, LookupSettlesFacts
    <2>2. positions \in [ PositionKeys -> Int \union {NoPosition} ]
        BY DEF IInv, TypeOK
    <2>3. positions' = Transferred(positions, source, destination, q) /\ opened' = opened
        BY <1>3 DEF LookupSettles, ReceiveEvidence
    <2> HIDE DEF source, destination, q
    <2>4. /\ \A k \in PositionKeys : k \notin { source, destination } =>
                positions'[k] = positions[k]
          /\ source # destination =>
                /\ positions'[source] = positions[source] - q
                /\ positions'[destination] = OrZero(positions[destination]) + q
          /\ source = destination => positions'[source] = positions[source]
        BY <2>1, <2>2, <2>3, TransferredPositions
    <2>5. positions[source] - q \in Int /\ OrZero(positions[destination]) + q \in Int
        BY <2>1, <2>2 DEF OrZero
    <2>6. positions[key] = NoPosition
        BY <1>3, <2>1, <2>4, <2>5, NoneAssumption
    <2>7. QED
        BY <2>3, <2>6 DEF Unopened
<1>4. QED
    BY <1>1, <1>2, <1>3, StepEffect DEF Unopened

\* Every position is its opening quantity plus what the ledger records of it,
\* whatever runs interleave, fail or are lost at an await (settlementEngine.ts and
\* ledgerEngine.ts, which update the one and the other).
THEOREM PositionsAreBooked == Spec => []PositionsMatchLedger
<1>1. Init => PositionsMatchLedger
    <2> SUFFICES ASSUME Init, NEW key \in PositionKeys
                 PROVE  OrZero(positions[key]) = opened[key] + LedgerNet(key)
        BY DEF PositionsMatchLedger
    <2>1. 1..Len(ledger) = {}
        BY DEF Init
    <2>2. LedgerNet(key) = 0
        BY <2>1, SumEmpty DEF LedgerNet
    <2>3. QED
        BY <2>2 DEF Init, OrZero
<1>2. Init => Unopened
    BY DEF Init, Unopened
<1>3. ASSUME IInv, Unopened, PositionsMatchLedger, [Next]_vars PROVE PositionsMatchLedger'
    <2> SUFFICES ASSUME NEW key \in PositionKeys
                 PROVE  OrZero(positions'[key]) = opened'[key] + LedgerNet(key)'
        BY DEF PositionsMatchLedger, OrZero
    <2>1. OrZero(positions[key]) = opened[key] + LedgerNet(key)
        BY <1>3 DEF PositionsMatchLedger
    <2>2. CASE UNCHANGED << positions, ledger, opened >>
        BY <2>1, <2>2, NetOfLedger
    <2>3. ASSUME NEW k \in PositionKeys, NEW quantity \in OpeningQuantities,
                 OpenPosition(k, quantity)
          PROVE  OrZero(positions'[key]) = opened'[key] + LedgerNet(key)'
        <3>1. LedgerNet(key)' = LedgerNet(key)
            BY <2>3, NetOfLedger DEF OpenPosition
        <3>2. CASE key # k
            BY <1>3, <2>1, <2>3, <3>1, <3>2 DEF OpenPosition, IInv, TypeOK
        <3>3. CASE key = k
            <4>1. OrZero(positions[key]) = 0 /\ opened[key] = 0
                BY <1>3, <2>3, <3>3 DEF Unopened, OpenPosition, OrZero
            <4>2. LedgerNet(key) \in Int
                <5>1. ledger \in Seq(EntryType)
                    BY <1>3 DEF IInv, TypeOK, EntryType
                <5>2. QED
                    BY <5>1, NetOfType, NetOfLedger
            <4>3. quantity \in Nat /\ quantity # NoPosition
                BY DataAssumption, NoneAssumption
            <4>4. positions'[key] = quantity /\ opened'[key] = quantity
                BY <1>3, <2>3, <3>3 DEF OpenPosition, IInv, TypeOK
            <4>5. QED
                BY <2>1, <3>1, <4>1, <4>2, <4>3, <4>4 DEF OrZero
        <3>4. QED
            BY <3>2, <3>3
    <2>4. ASSUME NEW r \in Runs, LookupSettles(r)
          PROVE  OrZero(positions'[key]) = opened'[key] + LedgerNet(key)'
        <3>1. opened' = opened /\ opened[key] \in Nat
            BY <1>3, <2>4 DEF LookupSettles, ReceiveEvidence, IInv, TypeOK
        <3>2. QED
            BY <1>3, <2>1, <2>4, <3>1, SettlementBalances
    <2>5. QED
        BY <1>3, <2>2, <2>3, <2>4, StepEffect
<1>4. IInv /\ Unopened /\ [Next]_vars => Unopened'
    BY UnopenedStep
<1>5. IInv /\ Unopened /\ PositionsMatchLedger /\ [Next]_vars => PositionsMatchLedger'
    BY <1>3
<1>6. QED
    BY <1>1, <1>2, <1>4, <1>5, Invariance, PTL DEF Spec

-----------------------------------------------------------------------------
\* IntentApi.

\* Two runs in flight execute two intents.
OneAttempt ==
    \A r, s \in InFlight : intentOf[r] = intentOf[s] => r = s

\* What the place of run r says of the intent it executes.
Tied(r) ==
    /\ r \in InFlight => ~Consumed(intentOf[r])
    /\ pc[r] = "done" => /\ Consumed(intentOf[r])
                         /\ intents[intentOf[r]].transactionId = r

\* Intent i was decided by an ended run of its own.
DecidedBy(i, r) ==
    /\ pc[r] = "done"
    /\ intentOf[r] = i
    /\ status[r] = IF intents[i].status = "executed" THEN "settled" ELSE "failed"

Decided(i) ==
    Consumed(i) => /\ intents[i].transactionId \in Runs
                   /\ DecidedBy(i, intents[i].transactionId)

ApiIInv ==
    /\ IInv
    /\ ApiTypeOK
    /\ OneAttempt
    /\ \A r \in Runs : Tied(r)
    /\ \A i \in Intents : Decided(i)

-----------------------------------------------------------------------------
LEMMA IntentTransitionsFromPending ==
    /\ IntentAfter("pending", "executed") = "executed"
    /\ IntentAfter("pending", "failed") = "failed"
BY DEF IntentAfter, CanTransitionIntent, IntentTransitions

\* Posting an intent leaves every run where it was.
LEMMA PostIntentIInv ==
    ASSUME IInv, NEW i \in Intents, PostIntent(i)
    PROVE  IInv'
<1>1. TypeOK'
    BY DEF IInv, TypeOK, PostIntent, InFlight
<1>2. RunsConsistent'
    BY Frame DEF IInv, RunsConsistent, PostIntent
<1>3. QED
    BY <1>1, <1>2 DEF IInv

LEMMA InitApiIInv == ApiInit => ApiIInv
<1> SUFFICES ASSUME ApiInit PROVE ApiIInv
    OBVIOUS
<1>1. IInv
    BY InitIInv DEF ApiInit
<1>2. /\ \A r \in Runs : pc[r] = "idle"
      /\ \A i \in Intents : intents[i] = None
    BY DEF ApiInit, Init
<1>3. ApiTypeOK
    BY DEF ApiInit, ApiTypeOK
<1>4. QED
    BY <1>1, <1>2, <1>3 DEF ApiIInv, OneAttempt, Tied, Decided, Consumed, InFlight

\* A decision that is not rewritten keeps naming the run it came from.
LEMMA DecisionStays ==
    ASSUME ApiIInv, [Next]_vars, NEW i \in Intents, intents'[i] = intents[i]
    PROVE  Decided(i)'
<1>1. SUFFICES ASSUME Consumed(i)
               PROVE  /\ intents[i].transactionId \in Runs
                      /\ DecidedBy(i, intents[i].transactionId)'
    BY DEF Decided, Consumed, DecidedBy
<1> DEFINE r == intents[i].transactionId
<1>2. r \in Runs /\ DecidedBy(i, r)
    BY <1>1 DEF ApiIInv, Decided
<1>3. StandsStill(r)
    BY <1>2, DoneStandsStill DEF ApiIInv, DecidedBy
<1>4. QED
    BY <1>2, <1>3 DEF StandsStill, DecidedBy

\* A step in which nothing but intents, and nothing of a run but its way
\* through the adapter, changes.
LEMMA QuietStep ==
    ASSUME ApiIInv, [Next]_vars, intents' = intents,
           \A r \in Runs : /\ intentOf'[r] = intentOf[r]
                           /\ r \in InFlight' => r \in InFlight
                           /\ pc'[r] = "done" => pc[r] = "done"
    PROVE  ApiIInv'
<1>1. IInv'
    BY NextIInv DEF ApiIInv
<1>2. ApiTypeOK'
    BY DEF ApiIInv, ApiTypeOK
<1>3. OneAttempt'
    BY DEF ApiIInv, OneAttempt, InFlight
<1>4. ASSUME NEW r \in Runs PROVE Tied(r)'
    <2>1. Tied(r)
        BY DEF ApiIInv
    <2>2. intentOf'[r] = intentOf[r]
        OBVIOUS
    <2>3. Consumed(intentOf[r])' <=> Consumed(intentOf[r])
        BY <2>2 DEF Consumed
    <2>4. QED
        BY <2>1, <2>2, <2>3 DEF Tied
<1>5. \A i \in Intents : Decided(i)'
    BY DecisionStays
<1>6. QED
    BY <1>1, <1>2, <1>3, <1>4, <1>5 DEF ApiIInv

\* Run r takes an undecided intent that no other run is executing.
LEMMA StartSettlementTies ==
    ASSUME ApiIInv, NEW r \in Runs, NEW i \in Intents, StartSettlement(r, i),
           Executable(i), Executing(i) = {}, intents' = intents
    PROVE  ApiIInv'
<1>1. [Next]_vars
    BY DEF Next, Start
<1>2. IInv'
    BY <1>1, NextIInv DEF ApiIInv
<1>3. ApiTypeOK'
    BY DEF ApiIInv, ApiTypeOK
<1>4. ~Consumed(i)
    BY DEF Executable, Consumed, ApiIInv, ApiTypeOK, StoredIntents, IntentStatuses
<1>5. /\ pc'[r] = "transfer"
      /\ intentOf'[r] = i
      /\ \A s \in Runs \ {r} : StandsStill(s)
    BY StillWhenOtherActs DEF Start, StartSettlement, ApiIInv, IInv, TypeOK
<1>6. \A s \in InFlight : intentOf[s] # i
    BY DEF Executing
<1>7. OneAttempt'
    BY <1>5, <1>6 DEF ApiIInv, OneAttempt, InFlight, StandsStill
<1>8. ASSUME NEW s \in Runs PROVE Tied(s)'
    <2>1. CASE s = r
        BY <1>4, <1>5, <2>1 DEF Tied, Consumed
    <2>2. CASE s # r
        <3>1. Tied(s) /\ StandsStill(s)
            BY <1>5, <2>2 DEF ApiIInv
        <3>2. QED
            BY <3>1 DEF Tied, Consumed, StandsStill, InFlight
    <2>3. QED
        BY <2>1, <2>2
<1>9. \A j \in Intents : Decided(j)'
    BY <1>1, DecisionStays
<1>10. QED
    BY <1>2, <1>3, <1>7, <1>8, <1>9 DEF ApiIInv

\* Run r ends and writes its outcome into an undecided intent that no other run
\* is executing.
LEMMA ConsumeTies ==
    ASSUME ApiIInv, [Next]_vars, NEW r \in Runs, NEW i \in Intents,
           intentOf'[r] = i, pc'[r] = "done", Consume(r), ~Consumed(i),
           \A s \in InFlight \ {r} : intentOf[s] # i,
           \A s \in Runs \ {r} : StandsStill(s)
    PROVE  ApiIInv'
<1>1. IInv'
    BY NextIInv DEF ApiIInv
<1>2. status'[r] \in { "settled", "failed" }
    BY <1>1 DEF IInv, RunsConsistent, RunConsistent, Ended
<1>3. /\ intents'[i].status = IF status'[r] = "settled" THEN "executed" ELSE "failed"
      /\ intents'[i].transactionId = r
      /\ intents'[i] # None
      /\ \A j \in Intents \ {i} : intents'[j] = intents[j]
      /\ ApiTypeOK'
    <2>1. PICK outcome \in { "executed", "failed" } :
              /\ outcome = IF status'[r] = "settled" THEN "executed" ELSE "failed"
              /\ intents' = [ intents EXCEPT ![i] =
                                [ status |-> outcome, transactionId |-> r ] ]
        BY IntentTransitionsFromPending DEF Consume
    <2>2. [ status |-> outcome, transactionId |-> r ] \in StoredIntents
        BY DEF StoredIntents, IntentStatuses
    <2>3. [ status |-> outcome, transactionId |-> r ] # None
        BY <2>2, NoIntentAssumption
    <2>4. QED
        BY <2>1, <2>2, <2>3 DEF ApiIInv, ApiTypeOK
<1>4. Consumed(i)'
    BY <1>2, <1>3 DEF Consumed
<1>5. OneAttempt'
    BY DEF ApiIInv, OneAttempt, InFlight, StandsStill
<1>6. ASSUME NEW s \in Runs PROVE Tied(s)'
    <2>1. CASE s = r
        BY <1>3, <1>4, <2>1 DEF Tied, InFlight, Consumed
    <2>2. CASE s # r
        <3>1. Tied(s) /\ StandsStill(s)
            BY <2>2 DEF ApiIInv
        <3>2. s \in InFlight \/ pc[s] = "done" => intentOf[s] # i
            BY <2>2, <3>1 DEF Tied
        <3>3. s \in InFlight \/ pc[s] = "done" => intentOf[s] \in Intents
            BY DEF ApiIInv, IInv, RunsConsistent, RunConsistent, InFlight
        <3>4. QED
            BY <1>3, <3>1, <3>2, <3>3 DEF Tied, Consumed, StandsStill, InFlight
    <2>3. QED
        BY <2>1, <2>2
<1>7. ASSUME NEW j \in Intents PROVE Decided(j)'
    <2>1. CASE j = i
        BY <1>2, <1>3, <2>1 DEF Decided, DecidedBy
    <2>2. CASE j # i
        BY <1>3, <2>2, DecisionStays
    <2>3. QED
        BY <2>1, <2>2
<1>8. QED
    BY <1>1, <1>3, <1>5, <1>6, <1>7 DEF ApiIInv

-----------------------------------------------------------------------------
\* Every step of the intent routes keeps the invariant.
LEMMA PostIntentApiIInv ==
    ASSUME ApiIInv, NEW i \in Intents, PostIntent(i)
    PROVE  ApiIInv'
<1>1. IInv'
    BY PostIntentIInv DEF ApiIInv
<1>2. ApiTypeOK'
    BY DEF PostIntent, ApiIInv, ApiTypeOK, StoredIntents, IntentStatuses
<1>3. /\ pc' = pc
      /\ intentOf' = intentOf
      /\ status' = status
    BY DEF PostIntent
<1>4. \A j \in Intents : /\ Consumed(j)' <=> Consumed(j)
                         /\ Consumed(j) => intents'[j] = intents[j]
    BY DEF PostIntent, Consumed, ApiIInv, ApiTypeOK
<1>5. OneAttempt'
    BY <1>3 DEF ApiIInv, OneAttempt, InFlight
<1>6. ASSUME NEW r \in Runs PROVE Tied(r)'
    <2>1. r \in InFlight \/ pc[r] = "done" => intentOf[r] \in Intents
        BY DEF ApiIInv, IInv, RunsConsistent, RunConsistent, InFlight
    <2>2. QED
        BY <1>3, <1>4, <2>1 DEF ApiIInv, Tied, InFlight, Consumed
<1>7. \A j \in Intents : Decided(j)'
    BY <1>3, <1>4 DEF ApiIInv, Decided, DecidedBy
<1>8. QED
    BY <1>1, <1>2, <1>5, <1>6, <1>7 DEF ApiIInv

LEMMA ExecuteIntentApiIInv ==
    ASSUME ApiIInv, NEW r \in Runs, NEW i \in Intents, ExecuteIntent(r, i),
           OverlappingExecutes = FALSE
    PROVE  ApiIInv'
<1>1. Executable(i) /\ Executing(i) = {} /\ pc[r] = "idle"
    BY DEF ExecuteIntent, RejectCreation, StartSettlement, StartUnresolvable
<1>2. [Next]_vars
    BY DEF ExecuteIntent, Next, Start
<1>3. \A s \in Runs \ {r} : StandsStill(s)
    BY StillWhenOtherActs DEF ExecuteIntent, Start, ApiIInv
<1>4. CASE RejectCreation(r, i) /\ UNCHANGED intents
    <2>1. pc'[r] = "rejected" /\ intentOf'[r] = i
        BY <1>4 DEF RejectCreation, ApiIInv, IInv, TypeOK
    <2>2. OneAttempt'
        BY <1>3, <2>1 DEF ApiIInv, OneAttempt, InFlight, StandsStill
    <2>3. \A s \in Runs : Tied(s)'
        BY <1>3, <1>4, <2>1 DEF ApiIInv, Tied, Consumed, InFlight, StandsStill
    <2>4. IInv' /\ ApiTypeOK' /\ \A j \in Intents : Decided(j)'
        BY <1>2, <1>4, NextIInv, DecisionStays DEF ApiIInv, ApiTypeOK
    <2>5. QED
        BY <2>2, <2>3, <2>4 DEF ApiIInv
<1>5. CASE StartSettlement(r, i) /\ UNCHANGED intents
    BY <1>1, <1>5, StartSettlementTies
<1>6. CASE StartUnresolvable(r, i) /\ Consume(r)
    <2>1. pc'[r] = "done" /\ intentOf'[r] = i
        BY <1>6 DEF StartUnresolvable, ApiIInv, IInv, TypeOK
    <2>2. ~Consumed(i)
        BY <1>1 DEF Executable, Consumed, ApiIInv, ApiTypeOK, StoredIntents, IntentStatuses
    <2>3. \A s \in InFlight : intentOf[s] # i
        BY <1>1 DEF Executing
    <2>4. QED
        BY <1>2, <1>3, <1>6, <2>1, <2>2, <2>3, ConsumeTies
<1>7. QED
    BY <1>4, <1>5, <1>6 DEF ExecuteIntent

LEMMA FinishIntentApiIInv ==
    ASSUME ApiIInv, NEW r \in Runs, FinishIntent(r)
    PROVE  ApiIInv'
<1>1. [Next]_vars
    BY DEF FinishIntent, Next
<1>2. \A s \in Runs \ {r} : StandsStill(s)
    BY StillWhenOtherActs DEF FinishIntent, ApiIInv
<1>3. /\ r \in InFlight
      /\ pc'[r] = "done"
      /\ intentOf' = intentOf
    BY DEF FinishIntent, Finish, TransferRejected, TransferTimesOut, LookupFails,
           LookupMismatched, LookupUncovered, LookupSettles, ReceiveEvidence,
           FailWithoutEvidence, InFlight, ApiIInv, IInv, TypeOK
<1>4. intentOf[r] \in Intents
    BY <1>3 DEF InFlight, ApiIInv, IInv, RunsConsistent, RunConsistent
<1>5. ~Consumed(intentOf[r])
    BY <1>3 DEF ApiIInv, Tied, InFlight
<1>6. \A s \in InFlight \ {r} : intentOf[s] # intentOf[r]
    BY <1>3 DEF ApiIInv, OneAttempt
<1>7. QED
    BY <1>1, <1>2, <1>3, <1>4, <1>5, <1>6, ConsumeTies DEF FinishIntent

LEMMA ApiNextIInv ==
    ASSUME ApiIInv, [ApiNext]_apiVars, OverlappingExecutes = FALSE
    PROVE  ApiIInv'
<1>1. ASSUME NEW i \in Intents, PostIntent(i) PROVE ApiIInv'
    BY <1>1, PostIntentApiIInv
<1>2. ASSUME NEW r \in Runs, NEW i \in Intents, ExecuteIntent(r, i) PROVE ApiIInv'
    BY <1>2, ExecuteIntentApiIInv
<1>3. ASSUME NEW r \in Runs, FinishIntent(r) PROVE ApiIInv'
    BY <1>3, FinishIntentApiIInv
<1>4. ASSUME NEW r \in Runs, TransferReturns(r), UNCHANGED intents PROVE ApiIInv'
    <2>1. [Next]_vars
        BY <1>4 DEF Next
    <2>2. pc' = [ pc EXCEPT ![r] = "lookup" ] /\ pc[r] = "transfer" /\ intentOf' = intentOf
        BY <1>4 DEF TransferReturns
    <2>3. QED
        BY <1>4, <2>1, <2>2, QuietStep DEF InFlight, ApiIInv, IInv, TypeOK
<1>5. CASE Registry /\ UNCHANGED intents
    <2>1. pc' = pc /\ intentOf' = intentOf /\ [Next]_vars
        BY <1>5 DEF Registry, OpenPosition, RegisterRepresentation, Next
    <2>2. QED
        BY <1>5, <2>1, QuietStep DEF InFlight
<1>6. CASE External /\ UNCHANGED intents
    <2>1. pc' = pc /\ intentOf' = intentOf /\ [Next]_vars
        BY <1>6 DEF External, ConfirmExternal, FailExternal, Next
    <2>2. QED
        BY <1>6, <2>1, QuietStep DEF InFlight
<1>7. CASE Crash /\ UNCHANGED intents
    <2>1. /\ \A r \in Runs : pc'[r] \in { pc[r], "lost" }
          /\ intentOf' = intentOf
          /\ [Next]_vars
        BY <1>7 DEF Crash, Next
    <2>2. QED
        BY <1>7, <2>1, QuietStep DEF InFlight
<1>8. CASE UNCHANGED apiVars
    <2>1. pc' = pc /\ intentOf' = intentOf /\ [Next]_vars /\ intents' = intents
        BY <1>8 DEF apiVars, vars
    <2>2. QED
        BY <2>1, QuietStep DEF InFlight
<1>9. QED
    BY <1>1, <1>2, <1>3, <1>4, <1>5, <1>6, <1>7, <1>8 DEF ApiNext

LEMMA ApiInvariance ==
    ASSUME OverlappingExecutes = FALSE
    PROVE  ApiSpec => []ApiIInv
<1>1. ApiIInv /\ [ApiNext]_apiVars => ApiIInv'
    BY ApiNextIInv
<1>2. QED
    BY <1>1, InitApiIInv, PTL DEF ApiSpec

-----------------------------------------------------------------------------
\* A decided intent points at the ended transaction that decided it and says of
\* it what its status says, and an undecided one has no ended transaction
\* (intentExecutionEngine.ts writes the intent in the segment that ends the run).
THEOREM IntentsMatchTransactions ==
    ASSUME OverlappingExecutes = FALSE
    PROVE  ApiSpec => []ConsumedConsistent
<1>1. ApiIInv => ConsumedConsistent
    <2> SUFFICES ASSUME ApiIInv, NEW i \in Intents
                 PROVE  IF Consumed(i)
                        THEN /\ intents[i].transactionId \in Runs
                             /\ intentOf[intents[i].transactionId] = i
                             /\ status[intents[i].transactionId]
                                  = IF intents[i].status = "executed" THEN "settled" ELSE "failed"
                        ELSE \A r \in Runs : intentOf[r] = i => pc[r] # "done"
        BY DEF ConsumedConsistent
    <2>1. CASE Consumed(i)
        BY <2>1 DEF ApiIInv, Decided, DecidedBy
    <2>2. CASE ~Consumed(i)
        BY <2>2 DEF ApiIInv, Tied
    <2>3. QED
        BY <2>1, <2>2
<1>2. QED
    BY <1>1, ApiInvariance, PTL

\* No intent is settled by two transactions, whatever retries, lost answers and
\* crashes at awaits lie between them.  The segments of a run are saved as a whole in
\* this specification; for crashes and failing saves inside them, which do let a retry
\* settle again, see RepeatsAreExplained of DurableSettlementProofs.
THEOREM IntentsExecuteOnce ==
    ASSUME OverlappingExecutes = FALSE
    PROVE  ApiSpec => []IntentExecutedOnce
<1>1. ASSUME ApiIInv, NEW r \in Runs, status[r] = "settled"
      PROVE  intents[intentOf[r]].transactionId = r
    BY <1>1, SettledDone DEF ApiIInv, Tied, TerminalStatuses
<1>2. ApiIInv => IntentExecutedOnce
    BY <1>1 DEF IntentExecutedOnce
<1>3. QED
    BY <1>2, ApiInvariance, PTL

\* Two external transfers made for one intent mean that a crash lost the run of
\* one of them, as long as every save succeeds.
THEOREM DuplicatesNeedCrashes ==
    ASSUME OverlappingExecutes = FALSE
    PROVE  ApiSpec => []DuplicateNeedsCrash
<1>1. ASSUME ApiIInv, NEW r \in Runs, external[r] # None
      PROVE  r \in InFlight \/ pc[r] \in { "done", "lost" }
    BY <1>1 DEF ApiIInv, IInv, TypeOK, Places, RunsConsistent, RunConsistent, Untouched,
                InFlight
<1>2. ASSUME ApiIInv, NEW r \in Runs, NEW s \in Runs, r # s, intentOf[r] = intentOf[s],
             r \in InFlight \/ pc[r] = "done", s \in InFlight \/ pc[s] = "done"
      PROVE  FALSE
    <2>1. Tied(r) /\ Tied(s)
        BY <1>2 DEF ApiIInv
    <2>2. CASE r \in InFlight /\ s \in InFlight
        BY <1>2, <2>2 DEF ApiIInv, OneAttempt
    <2>3. CASE pc[r] = "done" \/ pc[s] = "done"
        BY <1>2, <2>1, <2>3 DEF Tied
    <2>4. QED
        BY <1>2, <2>2, <2>3
<1>3. ApiIInv => DuplicateNeedsCrash
    BY <1>1, <1>2 DEF DuplicateNeedsCrash
<1>4. QED
    BY <1>3, ApiInvariance, PTL
-----------------------------------------------------------------------------
\* IntentApi implements AtomicIntent.  Two more facts tie the abstract state to
\* the runs: the intent of a run in flight was posted, and every ledger entry
\* belongs to a run that has ended, so that its intent is not rewritten.

AttemptsPosted == \A r \in InFlight : intents[intentOf[r]] # None

EntriesEnded == \A n \in 1..Len(ledger) : pc[ledger[n].transactionId] = "done"

PromiseIInv == ApiIInv /\ AttemptsPosted /\ EntriesEnded

JournalEntry(i, type) == [ intent |-> i, type |-> type ]

LEMMA EntryFacts ==
    ASSUME IInv, NEW n \in 1..Len(ledger)
    PROVE  ledger[n].transactionId \in Runs /\ ledger[n].type \in { "debit", "credit" }
<1>1. ledger \in Seq(EntryType)
    BY DEF IInv, TypeOK, EntryType
<1>2. ledger[n] \in EntryType
    BY <1>1
<1>3. QED
    BY <1>2 DEF EntryType

LEMMA JournalStays ==
    ASSUME IInv, EntriesEnded, ledger' = ledger,
           \A r \in Runs : pc[r] = "done" => intentOf'[r] = intentOf[r]
    PROVE  Journal' = Journal
<1>1. \A n \in 1..Len(ledger) :
        intentOf'[ledger[n].transactionId] = intentOf[ledger[n].transactionId]
    BY EntryFacts DEF EntriesEnded
<1>2. QED
    BY <1>1 DEF Journal

\* A function on 1..k is a sequence of length k.
LEMMA FunctionIsSeq ==
    ASSUME NEW S, NEW k \in Nat, NEW f \in [ 1..k -> S ]
    PROVE  f \in Seq(S) /\ Len(f) = k
<1>1. f \in Seq(S)
    OBVIOUS
<1>2. DOMAIN f = 1..k /\ DOMAIN f = 1..Len(f) /\ Len(f) \in Nat
    BY <1>1
<1>3. QED
    BY <1>1, <1>2

\* The debit and the credit of run r name its intent in the journal.
LEMMA JournalGrows ==
    ASSUME IInv, EntriesEnded, NEW r \in Runs, LookupSettles(r)
    PROVE  Journal' = Journal \o << JournalEntry(intentOf[r], "debit"),
                                    JournalEntry(intentOf[r], "credit") >>
<1> DEFINE i == intentOf[r]
           S == [ intent : Intents \union {None}, type : { "debit", "credit" } ]
           pair == << JournalEntry(i, "debit"), JournalEntry(i, "credit") >>
<1>1. /\ intentOf' = intentOf
      /\ ledger' = ledger \o << Debit(r), Credit(r) >>
      /\ intentOf \in [ Runs -> Intents \union {None} ]
    BY DEF LookupSettles, ReceiveEvidence, IInv, TypeOK
<1>2. /\ ledger \in Seq(EntryType)
      /\ Debit(r) \in EntryType
      /\ Credit(r) \in EntryType
    BY LookupSettlesEntries DEF IInv, TypeOK, EntryType
<1>3. /\ Len(ledger') = Len(ledger) + 2
      /\ \A n \in 1..Len(ledger) : ledger'[n] = ledger[n]
      /\ ledger'[Len(ledger) + 1] = Debit(r)
      /\ ledger'[Len(ledger) + 2] = Credit(r)
      /\ Len(ledger) \in Nat
    BY <1>1, <1>2, AppendPair
<1>4. JournalEntry(i, "debit") \in S /\ JournalEntry(i, "credit") \in S
    BY <1>1 DEF JournalEntry
<1>5. Journal \in Seq(S) /\ Len(Journal) = Len(ledger)
    <2>1. \A n \in 1..Len(ledger) :
            [ intent |-> intentOf[ledger[n].transactionId], type |-> ledger[n].type ] \in S
        BY <1>1, EntryFacts
    <2>2. Journal \in [ 1..Len(ledger) -> S ]
        BY <2>1 DEF Journal
    <2> HIDE DEF S
    <2>3. QED
        BY <1>3, <2>2, FunctionIsSeq
<1>6. /\ Journal \o pair \in Seq(S)
      /\ Len(Journal \o pair) = Len(ledger) + 2
      /\ \A n \in 1..Len(ledger) : (Journal \o pair)[n] = Journal[n]
      /\ (Journal \o pair)[Len(ledger) + 1] = JournalEntry(i, "debit")
      /\ (Journal \o pair)[Len(ledger) + 2] = JournalEntry(i, "credit")
    <2> HIDE DEF S
    <2>1. pair \in Seq(S)
        BY <1>4
    <2>2. QED
        BY <1>4, <1>5, <2>1, AppendPair, ConcatProperties
<1>7. \A n \in 1..Len(ledger') :
        Journal'[n] = [ intent |-> intentOf[ledger'[n].transactionId],
                        type |-> ledger'[n].type ]
    BY <1>1 DEF Journal
<1>8. /\ Journal'[Len(ledger) + 1] = JournalEntry(i, "debit")
      /\ Journal'[Len(ledger) + 2] = JournalEntry(i, "credit")
    BY <1>3, <1>7 DEF JournalEntry, Debit, Credit, Entry
<1>9. \A n \in 1..Len(ledger) : Journal'[n] = Journal[n]
    <2>1. \A n \in 1..Len(ledger) : n \in 1..Len(ledger') /\ ledger'[n] = ledger[n]
        BY <1>3
    <2>2. \A n \in 1..Len(ledger) :
            Journal[n] = [ intent |-> intentOf[ledger[n].transactionId],
                           type |-> ledger[n].type ]
        BY DEF Journal
    <2>3. QED
        BY <1>7, <2>1, <2>2
<1>10. \A n \in 1..Len(ledger) + 2 : Journal'[n] = (Journal \o pair)[n]
    <2>1. \A n \in 1..Len(ledger) + 2 :
            n \in 1..Len(ledger) \/ n = Len(ledger) + 1 \/ n = Len(ledger) + 2
        BY <1>3
    <2> HIDE DEF pair
    <2>2. QED
        BY <1>6, <1>8, <1>9, <2>1
<1>11. Journal' \in Seq(S) /\ Len(Journal') = Len(ledger) + 2
    <2> HIDE DEF S, pair
    <2>1. \A n \in 1..Len(ledger) + 2 : (Journal \o pair)[n] \in S
        BY <1>6
    <2>2. Journal' \in [ 1..Len(ledger) + 2 -> S ]
        BY <1>3, <1>10, <2>1 DEF Journal
    <2>3. QED
        BY <1>3, <2>2, FunctionIsSeq
<1>12. QED
    <2> HIDE DEF S, pair
    <2>1. Journal' = Journal \o pair
        BY <1>6, <1>10, <1>11, SeqEqual
    <2>2. QED
        BY <2>1 DEF pair

\* What the abstract state makes of the intent's side of a step.
LEMMA UndecidedIsPending ==
    ASSUME ApiTypeOK, NEW i \in Intents, intents[i] # None, ~Consumed(i)
    PROVE  Outcome[i] = "pending"
BY DEF Consumed, Outcome

LEMMA OutcomeStays == intents' = intents => Outcome' = Outcome
BY DEF Outcome

LEMMA OutcomeWritten ==
    ASSUME ApiIInv, [Next]_vars, NEW r \in Runs, NEW i \in Intents,
           intentOf'[r] = i, pc'[r] = "done", Consume(r)
    PROVE  /\ Outcome' = [ Outcome EXCEPT ![i] =
                             IF status'[r] = "settled" THEN "executed" ELSE "failed" ]
           /\ \A j \in Intents : intents[j] # None => intents'[j] # None
<1>1. PICK outcome \in { "executed", "failed" } :
        /\ outcome = IF status'[r] = "settled" THEN "executed" ELSE "failed"
        /\ intents' = [ intents EXCEPT ![i] =
                          [ status |-> outcome, transactionId |-> r ] ]
    BY IntentTransitionsFromPending DEF Consume
<1>2. [ status |-> outcome, transactionId |-> r ] # None
    BY NoIntentAssumption DEF StoredIntents, IntentStatuses
<1>3. /\ intents'[i] = [ status |-> outcome, transactionId |-> r ]
      /\ intents'[i].status = outcome
      /\ \A j \in Intents \ {i} : intents'[j] = intents[j]
    BY <1>1 DEF ApiIInv, ApiTypeOK
<1>4. \A j \in Intents : Outcome'[j] = IF j = i THEN outcome ELSE Outcome[j]
    BY <1>2, <1>3 DEF Outcome
<1>5. Outcome' = [ Outcome EXCEPT ![i] = outcome ]
    BY <1>4 DEF Outcome
<1>6. QED
    BY <1>1, <1>2, <1>3, <1>5

-----------------------------------------------------------------------------
\* PromiseIInv is inductive.
LEMMA InitPromise == ApiInit => PromiseIInv
<1> SUFFICES ASSUME ApiInit PROVE PromiseIInv
    OBVIOUS
<1>1. InFlight = {} /\ Len(ledger) = 0
    BY DEF ApiInit, Init, InFlight
<1>2. QED
    BY <1>1, InitApiIInv DEF PromiseIInv, AttemptsPosted, EntriesEnded

\* The step of a run or of the world around it keeps the ledger's runs ended.
LEMMA EntriesStayEnded ==
    ASSUME IInv, EntriesEnded, [Next]_vars
    PROVE  EntriesEnded'
<1>1. \A n \in 1..Len(ledger) : pc'[ledger[n].transactionId] = "done"
    BY EntryFacts, DoneStandsStill DEF EntriesEnded, StandsStill
<1>2. CASE ledger' = ledger
    BY <1>1, <1>2 DEF EntriesEnded
<1>3. ASSUME NEW r \in Runs, LookupSettles(r),
             ledger' = ledger \o << Debit(r), Credit(r) >>
      PROVE  EntriesEnded'
    <2>1. /\ ledger \in Seq(EntryType)
          /\ Debit(r) \in EntryType
          /\ Credit(r) \in EntryType
        BY <1>3, LookupSettlesEntries DEF IInv, TypeOK, EntryType
    <2>2. /\ Len(ledger') = Len(ledger) + 2
          /\ \A n \in 1..Len(ledger) : ledger'[n] = ledger[n]
          /\ ledger'[Len(ledger) + 1] = Debit(r)
          /\ ledger'[Len(ledger) + 2] = Credit(r)
          /\ Len(ledger) \in Nat
        BY <1>3, <2>1, AppendPair
    <2>3. pc'[r] = "done"
        BY <1>3 DEF LookupSettles, ReceiveEvidence, IInv, TypeOK
    <2>4. Debit(r).transactionId = r /\ Credit(r).transactionId = r
        BY DEF Debit, Credit, Entry
    <2>5. \A n \in 1..Len(ledger') :
            n \in 1..Len(ledger) \/ n = Len(ledger) + 1 \/ n = Len(ledger) + 2
        BY <2>2
    <2>6. QED
        BY <1>1, <2>2, <2>3, <2>4, <2>5 DEF EntriesEnded
<1>4. QED
    BY <1>2, <1>3, LedgerStep

\* No step takes a posted intent away, and a run takes off only for a posted one.
LEMMA PostedStays ==
    ASSUME ApiIInv, AttemptsPosted,
           \A i \in Intents : intents[i] # None => intents'[i] # None,
           \A r \in InFlight' :
                \/ r \in InFlight /\ intentOf'[r] = intentOf[r]
                \/ intentOf'[r] \in Intents /\ intents[intentOf'[r]] # None
    PROVE  AttemptsPosted'
<1>1. \A r \in InFlight : intentOf[r] \in Intents
    BY DEF InFlight, ApiIInv, IInv, RunsConsistent, RunConsistent
<1>2. QED
    BY <1>1 DEF AttemptsPosted

-----------------------------------------------------------------------------
\* Every step is a step of AtomicIntent or leaves its state alone.

LEMMA InitIsAtomicInit == ApiInit => Atomic!Init
<1> SUFFICES ASSUME ApiInit PROVE Atomic!Init
    OBVIOUS
<1>1. Journal = << >>
    BY DEF ApiInit, Init, Journal
<1>2. Outcome = [ i \in Intents |-> None ]
    BY DEF ApiInit, Outcome
<1>3. QED
    BY <1>1, <1>2 DEF ApiInit, Init, PositionKeys, Atomic!Init

\* A step in which no intent and no position changes is a stutter.
LEMMA SilentStep ==
    ASSUME PromiseIInv, [Next]_vars, intents' = intents, positions' = positions,
           ledger' = ledger, ApiIInv',
           \A r \in InFlight' :
                \/ r \in InFlight /\ intentOf'[r] = intentOf[r]
                \/ intentOf'[r] \in Intents /\ intents[intentOf'[r]] # None
    PROVE  PromiseIInv' /\ UNCHANGED Atomic!vars
<1>1. AttemptsPosted' /\ EntriesEnded'
    BY PostedStays, EntriesStayEnded DEF PromiseIInv, ApiIInv
<1>2. \A r \in Runs : pc[r] = "done" => intentOf'[r] = intentOf[r]
    BY DoneStandsStill DEF PromiseIInv, ApiIInv, StandsStill
<1>3. Journal' = Journal /\ Outcome' = Outcome
    BY <1>2, JournalStays, OutcomeStays DEF PromiseIInv, ApiIInv
<1>4. QED
    BY <1>1, <1>3 DEF PromiseIInv, Atomic!vars

LEMMA PostIntentIsPost ==
    ASSUME PromiseIInv, NEW i \in Intents, PostIntent(i)
    PROVE  PromiseIInv' /\ Atomic!Post(i)
<1>1. /\ ApiIInv /\ ApiIInv'
      /\ pc' = pc /\ intentOf' = intentOf /\ ledger' = ledger /\ positions' = positions
    BY PostIntentApiIInv DEF PromiseIInv, PostIntent
<1> DEFINE posted == [ status |-> "pending", transactionId |-> None ]
<1>2. posted # None
    BY NoIntentAssumption DEF StoredIntents, IntentStatuses
<1>3. /\ intents[i] = None
      /\ intents' = [ intents EXCEPT ![i] = posted ]
      /\ intents \in [ Intents -> {None} \union StoredIntents ]
    BY <1>1 DEF PostIntent, ApiIInv, ApiTypeOK
<1>4. EntriesEnded'
    BY <1>1 DEF PromiseIInv, EntriesEnded
<1>5. AttemptsPosted'
    <2>1. \A j \in Intents : intents[j] # None => intents'[j] # None
        BY <1>2, <1>3
    <2>2. QED
        BY <1>1, <2>1, PostedStays DEF PromiseIInv, InFlight
<1>6. Journal' = Journal
    BY <1>1, JournalStays DEF PromiseIInv, ApiIInv
<1>7. Outcome[i] = None /\ Outcome' = [ Outcome EXCEPT ![i] = "pending" ]
    <2>1. \A j \in Intents : Outcome'[j] = IF j = i THEN "pending" ELSE Outcome[j]
        BY <1>2, <1>3 DEF Outcome
    <2>2. QED
        BY <1>3, <2>1 DEF Outcome
<1>8. QED
    BY <1>1, <1>4, <1>5, <1>6, <1>7 DEF PromiseIInv, Atomic!Post

\* A run that ends without settling fails its intent and nothing else.
LEMMA ConsumeFails ==
    ASSUME PromiseIInv, [Next]_vars, ApiIInv', NEW r \in Runs, NEW i \in Intents,
           intentOf'[r] = i, pc'[r] = "done", Consume(r),
           intents[i] # None, ~Consumed(i), status'[r] # "settled",
           positions' = positions, ledger' = ledger,
           \A s \in Runs \ {r} : StandsStill(s)
    PROVE  PromiseIInv' /\ Atomic!Fail(i)
<1>1. /\ Outcome' = [ Outcome EXCEPT ![i] = "failed" ]
      /\ \A j \in Intents : intents[j] # None => intents'[j] # None
    BY OutcomeWritten DEF PromiseIInv
<1>2. Outcome[i] = "pending"
    BY UndecidedIsPending DEF PromiseIInv, ApiIInv
<1>3. \A s \in Runs : pc[s] = "done" => intentOf'[s] = intentOf[s]
    BY DoneStandsStill DEF PromiseIInv, ApiIInv, StandsStill
<1>4. Journal' = Journal
    BY <1>3, JournalStays DEF PromiseIInv, ApiIInv
<1>5. AttemptsPosted' /\ EntriesEnded'
    <2>1. \A s \in InFlight' : s \in InFlight /\ intentOf'[s] = intentOf[s]
        BY DEF InFlight, StandsStill
    <2>2. QED
        BY <1>1, <2>1, PostedStays, EntriesStayEnded DEF PromiseIInv, ApiIInv
<1>6. QED
    BY <1>1, <1>2, <1>4, <1>5 DEF PromiseIInv, Atomic!Fail

\* The settlement of a run executes its intent: its positions, its two journal
\* entries and its outcome change in the one step.
LEMMA SettlementExecutes ==
    ASSUME PromiseIInv, ApiIInv', NEW r \in Runs, LookupSettles(r), Consume(r)
    PROVE  PromiseIInv' /\ Atomic!Execute(intentOf[r])
<1> DEFINE i == intentOf[r]
<1>1. /\ ApiIInv /\ IInv /\ EntriesEnded /\ AttemptsPosted
      /\ [Next]_vars /\ Finish(r)
    BY DEF PromiseIInv, ApiIInv, Next, Finish
<1>2. /\ r \in InFlight
      /\ pc'[r] = "done"
      /\ intentOf' = intentOf
    BY <1>1 DEF LookupSettles, ReceiveEvidence, InFlight, IInv, TypeOK
<1>3. i \in Intents /\ intents[i] # None /\ ~Consumed(i)
    BY <1>1, <1>2 DEF ApiIInv, IInv, RunsConsistent, RunConsistent, InFlight, Tied, AttemptsPosted
<1>4. status'[r] = "settled"
    BY <1>1, LookupSettlesFacts DEF IInv, TypeOK
<1>5. /\ Outcome' = [ Outcome EXCEPT ![i] = "executed" ]
      /\ \A j \in Intents : intents[j] # None => intents'[j] # None
    BY <1>1, <1>2, <1>3, <1>4, OutcomeWritten
<1>6. Outcome[i] = "pending"
    BY <1>1, <1>3, UndecidedIsPending DEF ApiIInv
<1>7. Journal' = Journal \o << JournalEntry(i, "debit"), JournalEntry(i, "credit") >>
    BY <1>1, JournalGrows
<1>8. /\ positions[Source(i)] # NoPosition
      /\ positions[Source(i)] >= Quantity(i)
      /\ positions' = Transferred(positions, Source(i), Destination(i), Quantity(i))
    BY DEF LookupSettles, Covers
<1>9. AttemptsPosted' /\ EntriesEnded'
    <2>1. \A s \in Runs \ {r} : StandsStill(s)
        BY <1>1, StillWhenOtherActs
    <2>2. \A s \in InFlight' : s \in InFlight /\ intentOf'[s] = intentOf[s]
        BY <1>2, <2>1 DEF InFlight, StandsStill
    <2>3. QED
        BY <1>1, <1>5, <2>2, PostedStays, EntriesStayEnded
<1>10. Atomic!Execute(i)
    <2> HIDE DEF i
    <2>1. QED
        BY <1>5, <1>6, <1>7, <1>8
           DEF Atomic!Execute, Atomic!Key, Atomic!Held, Transferred, OrZero, Source,
               Destination, Quantity, JournalEntry
<1>11. QED
    BY <1>9, <1>10 DEF PromiseIInv

LEMMA ExecuteIntentImplements ==
    ASSUME PromiseIInv, NEW r \in Runs, NEW i \in Intents, ExecuteIntent(r, i),
           OverlappingExecutes = FALSE
    PROVE  PromiseIInv' /\ (Atomic!Fail(i) \/ UNCHANGED Atomic!vars)
<1>1. ApiIInv /\ IInv /\ ApiIInv'
    BY ExecuteIntentApiIInv DEF PromiseIInv, ApiIInv
<1>2. [Next]_vars /\ Start(r, i)
    BY DEF ExecuteIntent, Next, Start
<1>3. \A s \in Runs \ {r} : StandsStill(s)
    BY <1>1, <1>2, StillWhenOtherActs
<1>4. /\ intents[i] # None
      /\ ~Consumed(i)
    BY <1>1 DEF ExecuteIntent, Executable, Consumed, ApiIInv, ApiTypeOK, StoredIntents,
                IntentStatuses
<1>5. intentOf'[r] = i /\ positions' = positions /\ ledger' = ledger
    BY <1>1, <1>2 DEF Start, RejectCreation, StartUnresolvable, StartSettlement, IInv, TypeOK
<1>6. CASE intents' = intents
    <2>1. \A s \in InFlight' :
            \/ s \in InFlight /\ intentOf'[s] = intentOf[s]
            \/ intentOf'[s] \in Intents /\ intents[intentOf'[s]] # None
        BY <1>3, <1>4, <1>5 DEF InFlight, StandsStill
    <2>2. QED
        BY <1>1, <1>2, <1>5, <1>6, <2>1, SilentStep
<1>7. CASE StartUnresolvable(r, i) /\ Consume(r)
    <2>1. pc'[r] = "done" /\ status'[r] = "failed"
        BY <1>1, <1>7, WalkStart DEF StartUnresolvable, IInv, TypeOK
    <2>2. QED
        BY <1>1, <1>2, <1>3, <1>4, <1>5, <1>7, <2>1, ConsumeFails
<1>8. QED
    BY <1>6, <1>7 DEF ExecuteIntent

LEMMA FinishIntentImplements ==
    ASSUME PromiseIInv, NEW r \in Runs, FinishIntent(r)
    PROVE  /\ PromiseIInv'
           /\ Atomic!Fail(intentOf[r]) \/ Atomic!Execute(intentOf[r])
           /\ intentOf[r] \in Intents
<1>1. /\ ApiIInv /\ IInv /\ AttemptsPosted /\ ApiIInv'
      /\ [Next]_vars /\ Finish(r) /\ Consume(r)
    BY FinishIntentApiIInv DEF PromiseIInv, ApiIInv, FinishIntent, Next
<1>2. /\ r \in InFlight
      /\ pc'[r] = "done"
      /\ intentOf' = intentOf
    BY <1>1 DEF Finish, TransferRejected, TransferTimesOut, LookupFails,
           LookupMismatched, LookupUncovered, LookupSettles, ReceiveEvidence,
           FailWithoutEvidence, InFlight, IInv, TypeOK
<1>3. /\ intentOf[r] \in Intents
      /\ intents[intentOf[r]] # None
      /\ ~Consumed(intentOf[r])
    BY <1>1, <1>2 DEF ApiIInv, IInv, RunsConsistent, RunConsistent, InFlight, Tied, AttemptsPosted
<1>4. CASE LookupSettles(r)
    BY <1>1, <1>3, <1>4, SettlementExecutes
<1>5. CASE ~LookupSettles(r)
    <2>1. positions' = positions /\ ledger' = ledger
        BY <1>1, <1>5 DEF Finish, TransferRejected, TransferTimesOut, LookupFails,
           LookupMismatched, LookupUncovered, ReceiveEvidence, FailWithoutEvidence
    <2>2. status'[r] # "settled"
        <3>1. status[r] # "settled"
            BY <1>1, <1>2, SettledDone DEF InFlight, TerminalStatuses
        <3>2. QED
            BY <1>1, <1>5, <3>1, NewlySettled
    <2>3. \A s \in Runs \ {r} : StandsStill(s)
        BY <1>1, StillWhenOtherActs
    <2>4. QED
        BY <1>1, <1>2, <1>3, <2>1, <2>2, <2>3, ConsumeFails
<1>6. QED
    BY <1>4, <1>5

\* A position is opened for the engine as it is for the abstract specification.
LEMMA RegistryImplements ==
    ASSUME PromiseIInv, ApiIInv', Registry, intents' = intents
    PROVE  PromiseIInv' /\ (Atomic!Next \/ UNCHANGED Atomic!vars)
<1>1. /\ ApiIInv /\ IInv
      /\ [Next]_vars
      /\ pc' = pc /\ intentOf' = intentOf /\ ledger' = ledger
    BY DEF PromiseIInv, ApiIInv, Next, Registry, OpenPosition, RegisterRepresentation
<1>2. AttemptsPosted' /\ EntriesEnded' /\ Journal' = Journal /\ Outcome' = Outcome
    BY <1>1, JournalStays, OutcomeStays DEF PromiseIInv, AttemptsPosted, EntriesEnded, InFlight
<1>3. ASSUME NEW key \in PositionKeys, NEW quantity \in OpeningQuantities,
             OpenPosition(key, quantity)
      PROVE  Atomic!Next
    <2>1. Atomic!Open(key, quantity)
        BY <1>2, <1>3 DEF OpenPosition, Atomic!Open
    <2>2. QED
        BY <2>1 DEF Atomic!Next, PositionKeys
<1>4. PromiseIInv'
    BY <1>2 DEF PromiseIInv
<1>5. CASE \E rep \in Representations : RegisterRepresentation(rep)
    BY <1>2, <1>4, <1>5 DEF RegisterRepresentation, Atomic!vars
<1>6. QED
    BY <1>3, <1>4, <1>5 DEF Registry

LEMMA ApiNextImplements ==
    ASSUME PromiseIInv, [ApiNext]_apiVars, OverlappingExecutes = FALSE
    PROVE  PromiseIInv' /\ (Atomic!Next \/ UNCHANGED Atomic!vars)
<1>1. ApiIInv /\ IInv /\ ApiIInv'
    BY ApiNextIInv DEF PromiseIInv, ApiIInv
<1>2. ASSUME NEW i \in Intents, PostIntent(i)
      PROVE  PromiseIInv' /\ Atomic!Next
    BY <1>2, PostIntentIsPost DEF Atomic!Next
<1>3. ASSUME NEW r \in Runs, NEW i \in Intents, ExecuteIntent(r, i)
      PROVE  PromiseIInv' /\ (Atomic!Next \/ UNCHANGED Atomic!vars)
    BY <1>3, ExecuteIntentImplements DEF Atomic!Next
<1>4. ASSUME NEW r \in Runs, FinishIntent(r)
      PROVE  PromiseIInv' /\ Atomic!Next
    BY <1>4, FinishIntentImplements DEF Atomic!Next
<1>5. CASE Registry /\ UNCHANGED intents
    BY <1>1, <1>5, RegistryImplements
<1>6. ASSUME [Next]_vars, intents' = intents, positions' = positions, ledger' = ledger,
             \A r \in Runs : r \in InFlight' => r \in InFlight, intentOf' = intentOf
      PROVE  PromiseIInv' /\ UNCHANGED Atomic!vars
    BY <1>1, <1>6, SilentStep DEF InFlight
<1>7. ASSUME NEW r \in Runs, TransferReturns(r), UNCHANGED intents
      PROVE  PromiseIInv' /\ UNCHANGED Atomic!vars
    <2>1. [Next]_vars /\ pc[r] = "transfer" /\ pc' = [ pc EXCEPT ![r] = "lookup" ]
        BY <1>7 DEF Next, TransferReturns
    <2>2. \A s \in Runs : s \in InFlight' => s \in InFlight
        BY <1>1, <2>1 DEF InFlight, IInv, TypeOK
    <2>3. QED
        BY <1>6, <1>7, <2>1, <2>2 DEF TransferReturns
<1>8. CASE External /\ UNCHANGED intents
    BY <1>6, <1>8 DEF Next, External, ConfirmExternal, FailExternal, InFlight
<1>9. CASE Crash /\ UNCHANGED intents
    <2>1. \A r \in Runs : pc'[r] \in { pc[r], "lost" }
        BY <1>9 DEF Crash
    <2>2. \A r \in Runs : r \in InFlight' => r \in InFlight
        BY <2>1 DEF InFlight
    <2>3. QED
        BY <1>6, <1>9, <2>2 DEF Next, Crash
<1>10. CASE UNCHANGED apiVars
    BY <1>6, <1>10 DEF apiVars, vars, InFlight
<1>11. QED
    BY <1>2, <1>3, <1>4, <1>5, <1>7, <1>8, <1>9, <1>10 DEF ApiNext

\* Executing intents through the API implements AtomicIntent: whatever crashes at
\* awaits, refusals and lost answers lie on the way, positions, journal and outcome of an
\* intent change together in one step and once (intentExecutionEngine.ts writes
\* the intent in the segment in which settlementEngine.ts moves the positions).
THEOREM IntentsAreAtomic ==
    ASSUME OverlappingExecutes = FALSE
    PROVE  ApiSpec => ImplementsAtomicIntent
<1>1. PromiseIInv /\ [ApiNext]_apiVars => PromiseIInv'
    BY ApiNextImplements
<1>2. PromiseIInv /\ [ApiNext]_apiVars => [Atomic!Next]_(Atomic!vars)
    BY ApiNextImplements
<1>3. ApiInit => PromiseIInv /\ Atomic!Init
    BY InitPromise, InitIsAtomicInit
<1>4. QED
    BY <1>1, <1>2, <1>3, PTL DEF ApiSpec, ImplementsAtomicIntent, Atomic!Spec

-----------------------------------------------------------------------------
\* The transactions routes beside the intents route.

\* The routes that start runs.
Routes == { "POST /transactions", "POST /transactions/:id/execute", "POST /intents/:id/execute" }

\* Run r has made a transaction.
Begun(r) == pc[r] \notin { "idle", "rejected" }

\* What the place of run r says of its intent and of the record of its intent.
RouteTied(r) ==
    /\ pc[r] # "lost"
    /\ pc[r] # "idle" => intents[intentOf[r]] # None
    /\ (caller[r] = "POST /transactions" /\ r \in InFlight) =>
            records[intentOf[r]] = [ status |-> "created", run |-> None ]
    /\ (caller[r] = "POST /transactions" /\ pc[r] = "done") =>
            records[intentOf[r]] = [ status |-> status[r], run |-> r ]
    /\ (caller[r] = "POST /intents/:id/execute" /\ pc[r] = "done") => Consumed(intentOf[r])

\* A record was made by a run of POST /transactions.
Recorder(i) ==
    records[i] # None =>
        \E r \in Runs : Begun(r) /\ caller[r] = "POST /transactions" /\ intentOf[r] = i

\* What keeps run s, of the intent of run r, from settling it once more.
Kept(r, s) ==
    /\ ~(caller[r] = "POST /transactions" /\ caller[s] = "POST /transactions")
    /\ (caller[r] = "POST /intents/:id/execute" /\ caller[s] = "POST /intents/:id/execute")
            => Overlapped(r, s)
    /\ (caller[r] = "POST /transactions" /\ caller[s] = "POST /transactions/:id/execute")
            => r \in beside[s] \/ status[r] = "failed"

RivalsKept ==
    \A r, s \in Runs : (r # s /\ Begun(r) /\ Begun(s) /\ intentOf[r] = intentOf[s]) => Kept(r, s)

RouteTypeOK ==
    /\ ApiTypeOK
    /\ records = [ i \in Intents |-> records[i] ]
    /\ caller \in [ Runs -> Routes \union {None} ]
    /\ beside \in [ Runs -> SUBSET Runs ]
    /\ \A r \in Runs : pc[r] # "idle" => caller[r] \in Routes

RouteIInv ==
    /\ IInv
    /\ RouteTypeOK
    /\ \A r \in Runs : RouteTied(r)
    /\ \A i \in Intents : Recorder(i)
    /\ RivalsKept

-----------------------------------------------------------------------------
\* What starting and ending a run do to it; the other runs stand still.

LEMMA StartFacts ==
    ASSUME IInv, NEW r \in Runs, NEW i \in Intents, Start(r, i)
    PROVE  /\ [Next]_vars
           /\ pc[r] = "idle"
           /\ intentOf'[r] = i
           /\ \A s \in Runs \ {r} : StandsStill(s)
           /\ \/ RejectCreation(r, i) /\ pc'[r] = "rejected"
              \/ StartUnresolvable(r, i) /\ pc'[r] = "done" /\ status'[r] = "failed"
              \/ StartSettlement(r, i) /\ pc'[r] = "transfer"
<1>1. [Next]_vars
    BY DEF Next
<1>2. pc[r] = "idle" /\ intentOf'[r] = i
    BY DEF Start, RejectCreation, StartUnresolvable, StartSettlement, IInv, TypeOK
<1>3. \A s \in Runs \ {r} : StandsStill(s)
    BY StillWhenOtherActs
<1>4. \/ RejectCreation(r, i) /\ pc'[r] = "rejected"
      \/ StartUnresolvable(r, i) /\ pc'[r] = "done" /\ status'[r] = "failed"
      \/ StartSettlement(r, i) /\ pc'[r] = "transfer"
    BY WalkStart DEF Start, RejectCreation, StartUnresolvable, StartSettlement, IInv, TypeOK
<1>5. QED
    BY <1>1, <1>2, <1>3, <1>4

LEMMA FinishFacts ==
    ASSUME IInv, NEW r \in Runs, Finish(r)
    PROVE  /\ [Next]_vars
           /\ r \in InFlight
           /\ pc'[r] = "done"
           /\ status[r] = "instruction_created"
           /\ status'[r] \in { "failed", "settled" }
           /\ intentOf' = intentOf
           /\ \A s \in Runs \ {r} : StandsStill(s)
<1>1. [Next]_vars
    BY DEF Next
<1>2. r \in InFlight /\ pc'[r] = "done" /\ intentOf' = intentOf
    BY DEF Finish, TransferRejected, TransferTimesOut, LookupFails, LookupMismatched,
           LookupUncovered, LookupSettles, FailWithoutEvidence, ReceiveEvidence, InFlight,
           IInv, TypeOK
<1>3. \A s \in Runs \ {r} : StandsStill(s)
    BY StillWhenOtherActs
<1>4. status[r] = "instruction_created"
    BY <1>2 DEF InFlight, IInv, RunsConsistent, RunConsistent, Underway
<1>5. status'[r] \in { "failed", "settled" }
    <2>1. IInv'
        BY <1>1, NextIInv
    <2>2. QED
        BY <1>2, <2>1 DEF IInv, RunsConsistent, RunConsistent, Ended
<1>6. QED
    BY <1>1, <1>2, <1>3, <1>4, <1>5

-----------------------------------------------------------------------------
\* Run r keeps what its rivals are judged by.
Steady(r) ==
    /\ intentOf'[r] = intentOf[r]
    /\ caller'[r] = caller[r]
    /\ beside'[r] = beside[r]
    /\ Begun(r)' => Begun(r)
    /\ status[r] = "failed" => status'[r] = "failed"

LEMMA SteadyRivals ==
    ASSUME RivalsKept, NEW r \in Runs, NEW s \in Runs, Steady(r), Steady(s),
           r # s, Begun(r)', Begun(s)', intentOf'[r] = intentOf'[s]
    PROVE  Kept(r, s)'
<1>1. Kept(r, s)
    BY DEF RivalsKept, Steady
<1>2. QED
    BY <1>1 DEF Kept, Overlapped, Steady

\* Run r stands still, and so do its intent and its record.
LEMMA TiedStays ==
    ASSUME NEW r \in Runs, RouteTied(r), StandsStill(r), caller'[r] = caller[r],
           intents[intentOf[r]] # None => intents'[intentOf[r]] # None,
           Consumed(intentOf[r]) => Consumed(intentOf[r])',
           (Begun(r) /\ caller[r] = "POST /transactions") =>
                records'[intentOf[r]] = records[intentOf[r]]
    PROVE  RouteTied(r)'
<1>1. /\ pc'[r] = pc[r]
      /\ status'[r] = status[r]
      /\ intentOf'[r] = intentOf[r]
    BY DEF StandsStill
<1>2. r \in InFlight' <=> r \in InFlight
    BY <1>1 DEF InFlight
<1>3. (r \in InFlight \/ pc[r] = "done") => Begun(r)
    BY DEF InFlight, Begun
<1>4. QED
    BY <1>1, <1>2, <1>3 DEF RouteTied

\* An intent that is there stays there, and a decision is not taken back.
IntentsGrow ==
    \A i \in Intents : /\ intents[i] # None => intents'[i] # None
                       /\ Consumed(i) => Consumed(i)'

\* A step that starts and ends no run, and leaves the records alone.
LEMMA QuietRouteStep ==
    ASSUME RouteIInv, IInv', ApiTypeOK', IntentsGrow, UNCHANGED << records, callVars >>,
           \A r \in Runs : /\ intentOf'[r] = intentOf[r]
                           /\ status'[r] = status[r]
                           /\ pc'[r] = pc[r] \/ { pc[r], pc'[r] } \subseteq { "transfer", "lookup" }
    PROVE  RouteIInv'
<1>1. \A r \in Runs : /\ Begun(r)' <=> Begun(r)
                      /\ r \in InFlight' <=> r \in InFlight
                      /\ pc'[r] = "done" <=> pc[r] = "done"
                      /\ pc'[r] = "idle" <=> pc[r] = "idle"
                      /\ pc'[r] = "lost" <=> pc[r] = "lost"
    BY DEF Begun, InFlight
<1>2. RouteTypeOK'
    BY <1>1 DEF RouteIInv, RouteTypeOK, callVars
<1>3. ASSUME NEW r \in Runs PROVE RouteTied(r)'
    <2>1. RouteTied(r)
        BY DEF RouteIInv
    <2>2. pc[r] # "idle" => intentOf[r] \in Intents
        BY DEF RouteIInv, IInv, RunsConsistent, RunConsistent
    <2>3. pc[r] # "idle" =>
            /\ intents[intentOf[r]] # None => intents'[intentOf[r]] # None
            /\ Consumed(intentOf[r]) => Consumed(intentOf[r])'
        BY <2>2 DEF IntentsGrow, Consumed
    <2>4. QED
        BY <1>1, <2>1, <2>3 DEF RouteTied, callVars
<1>4. ASSUME NEW i \in Intents PROVE Recorder(i)'
    <2>1. Recorder(i) /\ caller' = caller /\ records' = records
        BY DEF RouteIInv, callVars
    <2>2. QED
        BY <1>1, <2>1 DEF Recorder
<1>5. RivalsKept'
    <2>1. \A r \in Runs : Steady(r)
        BY <1>1 DEF Steady, callVars
    <2>2. QED
        BY <2>1, SteadyRivals DEF RouteIInv, RivalsKept
<1>6. QED
    BY <1>2, <1>3, <1>4, <1>5 DEF RouteIInv

\* Run r is started; what is left to show is about r alone.
LEMMA StartRoute ==
    ASSUME RouteIInv, NEW r \in Runs, NEW i \in Intents, Start(r, i), ApiTypeOK', IntentsGrow,
           NEW route \in Routes, CalledBy(r, i, route),
           records' = [ j \in Intents |-> IF j = i THEN records'[i] ELSE records[j] ],
           \A s \in Runs : (Begun(s) /\ intentOf[s] = i) => records'[i] = records[i],
           RouteTied(r)', Recorder(i)',
           \A s \in Runs \ {r} : (Begun(r)' /\ Begun(s) /\ intentOf[s] = i) =>
                Kept(r, s)' /\ Kept(s, r)'
    PROVE  RouteIInv'
<1>1. /\ [Next]_vars
      /\ pc[r] = "idle"
      /\ intentOf'[r] = i
      /\ \A s \in Runs \ {r} : StandsStill(s)
    BY StartFacts DEF RouteIInv
<1>2. IInv'
    BY <1>1, NextIInv DEF RouteIInv
<1>3. /\ caller' = [ caller EXCEPT ![r] = route ]
      /\ beside' = [ beside EXCEPT ![r] = Executing(i) ]
    BY DEF CalledBy
<1>4. \A s \in Runs \ {r} : caller'[s] = caller[s] /\ beside'[s] = beside[s]
    BY <1>3 DEF RouteIInv, RouteTypeOK
<1>5. RouteTypeOK'
    <2>1. Executing(i) \in SUBSET Runs
        BY DEF Executing, InFlight
    <2>2. \A s \in Runs : pc'[s] # "idle" => caller'[s] \in Routes
        BY <1>1, <1>3 DEF RouteIInv, RouteTypeOK, StandsStill
    <2>3. QED
        BY <1>3, <2>1, <2>2 DEF RouteIInv, RouteTypeOK
<1>6. ASSUME NEW s \in Runs \ {r} PROVE RouteTied(s)'
    <2>1. RouteTied(s) /\ StandsStill(s) /\ caller'[s] = caller[s]
        BY <1>1, <1>4 DEF RouteIInv
    <2>2. pc[s] # "idle" => intentOf[s] \in Intents
        BY DEF RouteIInv, IInv, RunsConsistent, RunConsistent
    <2>3. CASE pc[s] = "idle"
        BY <2>1, <2>3 DEF RouteTied, StandsStill, InFlight
    <2>4. CASE pc[s] # "idle"
        <3>1. Begun(s) => records'[intentOf[s]] = records[intentOf[s]]
            BY <2>2, <2>4
        <3>2. /\ intents[intentOf[s]] # None => intents'[intentOf[s]] # None
              /\ Consumed(intentOf[s]) => Consumed(intentOf[s])'
            BY <2>1, <2>2, <2>4 DEF IntentsGrow, Consumed, StandsStill
        <3>3. QED
            BY <2>1, <3>1, <3>2, TiedStays
    <2>5. QED
        BY <2>3, <2>4
<1>7. ASSUME NEW j \in Intents \ {i} PROVE Recorder(j)'
    <2>1. records'[j] = records[j]
        OBVIOUS
    <2>2. ASSUME NEW s \in Runs, Begun(s), caller[s] = "POST /transactions", intentOf[s] = j
          PROVE  Begun(s)' /\ caller'[s] = "POST /transactions" /\ intentOf'[s] = j
        BY <1>1, <1>4, <2>2 DEF Begun, StandsStill
    <2>3. QED
        BY <2>1, <2>2 DEF RouteIInv, Recorder
<1>8. RivalsKept'
    <2> SUFFICES ASSUME NEW s \in Runs, NEW t \in Runs, s # t, Begun(s)', Begun(t)',
                        intentOf'[s] = intentOf'[t]
                 PROVE  Kept(s, t)'
        BY DEF RivalsKept
    <2>1. \A u \in Runs \ {r} : Steady(u)
        BY <1>1, <1>4 DEF Steady, StandsStill, Begun
    <2>2. CASE s # r /\ t # r
        BY <2>1, <2>2, SteadyRivals DEF RouteIInv
    <2>3. ASSUME NEW u \in Runs \ {r}, Begun(u)', intentOf'[u] = i, Begun(r)'
          PROVE  Kept(r, u)' /\ Kept(u, r)'
        BY <2>1, <2>3 DEF Steady
    <2>4. QED
        BY <1>1, <2>2, <2>3
<1>9. QED
    BY <1>2, <1>5, <1>6, <1>7, <1>8 DEF RouteIInv

\* Run r ends.  Its route writes the record of its intent only if it is the run
\* the record was made for.
LEMMA FinishRoute ==
    ASSUME RouteIInv, NEW r \in Runs, Finish(r), ApiTypeOK', IntentsGrow, UNCHANGED callVars,
           records' = [ j \in Intents |->
                            IF j = intentOf[r] THEN records'[intentOf[r]] ELSE records[j] ],
           records' = records \/ caller[r] = "POST /transactions",
           RouteTied(r)'
    PROVE  RouteIInv'
<1>1. /\ [Next]_vars
      /\ r \in InFlight
      /\ pc'[r] = "done"
      /\ status[r] = "instruction_created"
      /\ intentOf' = intentOf
      /\ \A s \in Runs \ {r} : StandsStill(s)
    BY FinishFacts DEF RouteIInv
<1>2. IInv'
    BY <1>1, NextIInv DEF RouteIInv
<1>3. /\ Begun(r) /\ Begun(r)'
      /\ \A s \in Runs \ {r} : Begun(s)' <=> Begun(s)
    BY <1>1 DEF Begun, InFlight, StandsStill
<1>4. RouteTypeOK'
    BY <1>1, <1>3 DEF RouteIInv, RouteTypeOK, callVars, StandsStill, InFlight
<1>5. ASSUME NEW s \in Runs \ {r} PROVE RouteTied(s)'
    <2>1. RouteTied(s) /\ StandsStill(s) /\ caller'[s] = caller[s]
        BY <1>1 DEF RouteIInv, callVars
    <2>2. pc[s] # "idle" => intentOf[s] \in Intents
        BY DEF RouteIInv, IInv, RunsConsistent, RunConsistent
    <2>3. CASE pc[s] = "idle"
        BY <2>1, <2>3 DEF RouteTied, StandsStill, InFlight
    <2>4. CASE pc[s] # "idle"
        <3>1. (Begun(s) /\ caller[s] = "POST /transactions") =>
                    records'[intentOf[s]] = records[intentOf[s]]
            <4>1. CASE records' = records
                BY <4>1
            <4>2. CASE intentOf[s] # intentOf[r]
                BY <2>2, <2>4, <4>2
            <4>3. CASE intentOf[s] = intentOf[r] /\ caller[r] = "POST /transactions"
                BY <1>3, <4>3 DEF RouteIInv, RivalsKept, Kept
            <4>4. QED
                BY <4>1, <4>2, <4>3
        <3>2. /\ intents[intentOf[s]] # None => intents'[intentOf[s]] # None
              /\ Consumed(intentOf[s]) => Consumed(intentOf[s])'
            BY <2>1, <2>2, <2>4 DEF IntentsGrow, Consumed, StandsStill
        <3>3. QED
            BY <2>1, <3>1, <3>2, TiedStays
    <2>5. QED
        BY <2>3, <2>4
<1>6. ASSUME NEW j \in Intents PROVE Recorder(j)'
    <2>1. \A s \in Runs : Begun(s) => Begun(s)'
        BY <1>3
    <2>2. CASE records'[j] = records[j]
        BY <1>1, <2>1, <2>2 DEF RouteIInv, Recorder, callVars
    <2>3. CASE records'[j] # records[j]
        <3>1. j = intentOf[r] /\ caller[r] = "POST /transactions"
            BY <2>3
        <3>2. QED
            BY <1>1, <1>3, <3>1 DEF Recorder, callVars
    <2>4. QED
        BY <2>2, <2>3
<1>7. RivalsKept'
    <2>1. \A u \in Runs : Steady(u)
        BY <1>1, <1>3 DEF Steady, StandsStill, callVars
    <2>2. QED
        BY <2>1, SteadyRivals DEF RouteIInv, RivalsKept
<1>8. QED
    BY <1>2, <1>4, <1>5, <1>6, <1>7 DEF RouteIInv

\* The outcome of a run decides its intent.
LEMMA ConsumeFacts ==
    ASSUME ApiTypeOK, NEW r \in Runs, NEW i \in Intents, intentOf'[r] = i, Consume(r)
    PROVE  ApiTypeOK' /\ IntentsGrow /\ Consumed(i)'
<1>1. PICK outcome \in { "executed", "failed" } :
        intents' = [ intents EXCEPT ![i] = [ status |-> outcome, transactionId |-> r ] ]
    BY IntentTransitionsFromPending DEF Consume
<1> DEFINE decided == [ status |-> outcome, transactionId |-> r ]
<1>2. decided \in StoredIntents /\ decided.status = outcome
    BY DEF StoredIntents, IntentStatuses
<1>3. decided # None
    BY <1>2, NoIntentAssumption
<1> HIDE DEF decided
<1>4. intents' = [ intents EXCEPT ![i] = decided ]
    BY <1>1 DEF decided
<1>5. QED
    BY <1>2, <1>3, <1>4 DEF ApiTypeOK, IntentsGrow, Consumed

LEMMA UnchangedIntents ==
    ASSUME ApiTypeOK, intents' = intents
    PROVE  ApiTypeOK' /\ IntentsGrow
BY DEF ApiTypeOK, IntentsGrow, Consumed

LEMMA PostFacts ==
    ASSUME ApiTypeOK, NEW i \in Intents, intents[i] = None,
           intents' = [ intents EXCEPT ![i] = [ status |-> "pending", transactionId |-> None ] ]
    PROVE  ApiTypeOK' /\ IntentsGrow /\ intents'[i] # None
<1> DEFINE posted == [ status |-> "pending", transactionId |-> None ]
<1>1. posted \in StoredIntents
    BY DEF StoredIntents, IntentStatuses
<1>2. posted # None
    BY <1>1, NoIntentAssumption
<1> HIDE DEF posted
<1>3. intents' = [ intents EXCEPT ![i] = posted ]
    BY DEF posted
<1>4. QED
    BY <1>1, <1>2, <1>3 DEF ApiTypeOK, IntentsGrow, Consumed

-----------------------------------------------------------------------------
\* RouteIInv holds initially and every action keeps it.

LEMMA InitRouteIInv == RouteInit => RouteIInv
<1> SUFFICES ASSUME RouteInit PROVE RouteIInv
    OBVIOUS
<1>1. IInv /\ ApiTypeOK
    BY InitApiIInv DEF RouteInit, ApiIInv
<1>2. /\ \A r \in Runs : pc[r] = "idle"
      /\ \A i \in Intents : records[i] = None
    BY DEF RouteInit, ApiInit, Init
<1>3. RouteTypeOK
    BY <1>1, <1>2 DEF RouteInit, RouteTypeOK
<1>4. QED
    BY <1>1, <1>2, <1>3 DEF RouteIInv, RouteTied, Recorder, RivalsKept, Begun, InFlight

\* An intent that is not there has no run and no record.
LEMMA AbsentIntent ==
    ASSUME RouteIInv, NEW i \in Intents, intents[i] = None
    PROVE  /\ \A s \in Runs : ~(Begun(s) /\ intentOf[s] = i)
           /\ records[i] = None
<1>1. \A s \in Runs : ~(Begun(s) /\ intentOf[s] = i)
    BY DEF RouteIInv, RouteTied, Begun
<1>2. QED
    BY <1>1 DEF RouteIInv, Recorder

LEMMA PostTransactionRoute ==
    ASSUME RouteIInv, NEW r \in Runs, NEW i \in Intents, PostTransaction(r, i)
    PROVE  RouteIInv'
<1>1. Start(r, i) /\ intents[i] = None /\ CalledBy(r, i, "POST /transactions")
    BY DEF PostTransaction, Start
<1>2. intentOf'[r] = i /\ pc[r] = "idle"
    BY <1>1, StartFacts DEF RouteIInv
<1>3. /\ \A s \in Runs : ~(Begun(s) /\ intentOf[s] = i)
      /\ records[i] = None
    BY <1>1, AbsentIntent
<1>4. ApiTypeOK' /\ IntentsGrow /\ intents'[i] # None
    BY <1>1, PostFacts DEF PostTransaction, RouteIInv, RouteTypeOK
<1>5. records = [ j \in Intents |-> records[j] ] /\ caller'[r] = "POST /transactions"
    BY <1>1 DEF RouteIInv, RouteTypeOK, CalledBy
<1>6. \/ pc'[r] = "rejected" /\ records' = records
      \/ /\ pc'[r] = "done"
         /\ records' = [ records EXCEPT ![i] = [ status |-> status'[r], run |-> r ] ]
      \/ /\ pc'[r] = "transfer"
         /\ records' = [ records EXCEPT ![i] = [ status |-> "created", run |-> None ] ]
    BY <1>2 DEF PostTransaction, RejectCreation, StartUnresolvable, StartSettlement, Record,
                RouteIInv, IInv, TypeOK
<1>7. records' = [ j \in Intents |-> IF j = i THEN records'[i] ELSE records[j] ]
    BY <1>5, <1>6
<1>8. RouteTied(r)'
    BY <1>2, <1>4, <1>5, <1>6 DEF RouteTied, InFlight
<1>9. Recorder(i)'
    BY <1>2, <1>3, <1>5, <1>6 DEF Recorder, Begun
<1>10. QED
    BY <1>1, <1>3, <1>4, <1>7, <1>8, <1>9, StartRoute DEF Routes

LEMMA ReexecuteRoute ==
    ASSUME RouteIInv, NEW r \in Runs, NEW i \in Intents, Reexecute(r, i)
    PROVE  RouteIInv'
<1>1. /\ Start(r, i)
      /\ CalledBy(r, i, "POST /transactions/:id/execute")
      /\ intents' = intents
      /\ records' = records
      /\ records[i] # None
      /\ records[i].status # "settled"
    BY DEF Reexecute, Reexecutable
<1>2. /\ intentOf'[r] = i
      /\ pc[r] = "idle"
      /\ pc'[r] # "lost"
      /\ \A s \in Runs \ {r} : StandsStill(s)
    BY <1>1, StartFacts DEF RouteIInv
<1>3. /\ caller'[r] = "POST /transactions/:id/execute"
      /\ beside'[r] = Executing(i)
      /\ \A s \in Runs \ {r} : caller'[s] = caller[s] /\ beside'[s] = beside[s]
    BY <1>1 DEF RouteIInv, RouteTypeOK, CalledBy
<1>4. PICK p \in Runs : Begun(p) /\ caller[p] = "POST /transactions" /\ intentOf[p] = i
    BY <1>1 DEF RouteIInv, Recorder
<1>5. intents[i] # None
    BY <1>4 DEF RouteIInv, RouteTied, Begun
<1>6. ApiTypeOK' /\ IntentsGrow
    BY <1>1, UnchangedIntents DEF RouteIInv, RouteTypeOK
<1>7. records' = [ j \in Intents |-> IF j = i THEN records'[i] ELSE records[j] ]
    BY <1>1 DEF RouteIInv, RouteTypeOK
<1>8. RouteTied(r)'
    BY <1>1, <1>2, <1>3, <1>5 DEF RouteTied
<1>9. Recorder(i)'
    <2>1. p # r
        BY <1>2, <1>4 DEF Begun
    <2>2. Begun(p)' /\ caller'[p] = "POST /transactions" /\ intentOf'[p] = i
        BY <1>2, <1>3, <1>4, <2>1 DEF Begun, StandsStill
    <2>3. QED
        BY <2>2 DEF Recorder
<1>10. ASSUME NEW s \in Runs \ {r}, Begun(s), intentOf[s] = i
       PROVE  Kept(r, s)' /\ Kept(s, r)'
    <2>1. ASSUME caller[s] = "POST /transactions", s \notin InFlight PROVE status'[s] = "failed"
        <3>1. pc[s] = "done" /\ RunConsistent(s)
            BY <1>10, <2>1 DEF RouteIInv, RouteTied, IInv, TypeOK, Places, RunsConsistent,
                               Begun, InFlight
        <3>2. records[i] = [ status |-> status[s], run |-> s ]
            BY <1>10, <2>1, <3>1 DEF RouteIInv, RouteTied
        <3>3. status[s] # "settled"
            <4>1. records[i].status = status[s]
                BY <3>2
            <4>2. QED
                BY <1>1, <4>1
        <3>4. QED
            BY <1>2, <3>1, <3>3 DEF RunConsistent, Ended, StandsStill
    <2>2. s \in InFlight => s \in beside'[r]
        BY <1>3, <1>10 DEF Executing
    <2>3. QED
        BY <1>3, <2>1, <2>2 DEF Kept
<1>11. QED
    BY <1>1, <1>6, <1>7, <1>8, <1>9, <1>10, StartRoute DEF Routes

LEMMA ExecutePostedRoute ==
    ASSUME RouteIInv, NEW r \in Runs, NEW i \in Intents, ExecutePosted(r, i)
    PROVE  RouteIInv'
<1>1. /\ Start(r, i)
      /\ CalledBy(r, i, "POST /intents/:id/execute")
      /\ records' = records
      /\ Executable(i)
      /\ pc'[r] = "done" => Consume(r)
      /\ intents' = intents \/ Consume(r)
    BY DEF ExecutePosted, ExecuteIntent, Start, RejectCreation, StartSettlement, RouteIInv,
           IInv, TypeOK
<1>2. /\ intentOf'[r] = i
      /\ pc[r] = "idle"
      /\ pc'[r] # "lost"
      /\ \A s \in Runs \ {r} : StandsStill(s)
    BY <1>1, StartFacts DEF RouteIInv
<1>3. /\ caller'[r] = "POST /intents/:id/execute"
      /\ beside'[r] = Executing(i)
      /\ \A s \in Runs \ {r} : caller'[s] = caller[s] /\ beside'[s] = beside[s]
    BY <1>1 DEF RouteIInv, RouteTypeOK, CalledBy
<1>4. /\ ApiTypeOK'
      /\ IntentsGrow
      /\ pc'[r] = "done" => Consumed(i)'
    BY <1>1, <1>2, ConsumeFacts, UnchangedIntents DEF RouteIInv, RouteTypeOK
<1>5. intents'[i] # None
    BY <1>1, <1>4 DEF Executable, IntentsGrow
<1>6. records' = [ j \in Intents |-> IF j = i THEN records'[i] ELSE records[j] ]
    BY <1>1 DEF RouteIInv, RouteTypeOK
<1>7. RouteTied(r)'
    BY <1>2, <1>3, <1>4, <1>5 DEF RouteTied, Consumed
<1>8. Recorder(i)'
    <2>1. ASSUME NEW p \in Runs, Begun(p), caller[p] = "POST /transactions", intentOf[p] = i
          PROVE  Begun(p)' /\ caller'[p] = "POST /transactions" /\ intentOf'[p] = i
        BY <1>2, <1>3, <2>1 DEF Begun, StandsStill
    <2>2. QED
        BY <1>1, <2>1 DEF RouteIInv, Recorder
<1>9. ASSUME NEW s \in Runs \ {r}, Begun(s), intentOf[s] = i
      PROVE  Kept(r, s)' /\ Kept(s, r)'
    <2>1. caller[s] = "POST /intents/:id/execute" => s \in InFlight
        <3>1. ~Consumed(i)
            BY <1>1 DEF Executable, Consumed, RouteIInv, RouteTypeOK, ApiTypeOK, StoredIntents,
                        IntentStatuses
        <3>2. QED
            BY <1>9, <3>1 DEF RouteIInv, RouteTied, IInv, TypeOK, Places, Begun, InFlight
    <2>2. s \in InFlight => s \in beside'[r]
        BY <1>3, <1>9 DEF Executing
    <2>3. QED
        BY <1>3, <2>1, <2>2 DEF Kept, Overlapped
<1>10. QED
    BY <1>1, <1>4, <1>6, <1>7, <1>8, <1>9, StartRoute DEF Routes

LEMMA FinishPostRoute ==
    ASSUME RouteIInv, NEW r \in Runs, FinishPost(r)
    PROVE  RouteIInv'
<1>1. /\ Finish(r)
      /\ caller[r] = "POST /transactions"
      /\ caller' = caller /\ beside' = beside
      /\ intents' = intents
      /\ Record(r)
    BY DEF FinishPost, callVars
<1>2. r \in InFlight /\ pc'[r] = "done" /\ intentOf' = intentOf
    BY <1>1, FinishFacts DEF RouteIInv
<1>3. intentOf[r] \in Intents /\ RouteTied(r)
    BY <1>2 DEF RouteIInv, IInv, RunsConsistent, RunConsistent, InFlight
<1>4. ApiTypeOK' /\ IntentsGrow
    BY <1>1, UnchangedIntents DEF RouteIInv, RouteTypeOK
<1>5. records' = [ records EXCEPT ![intentOf[r]] = [ status |-> status'[r], run |-> r ] ]
    BY <1>1, <1>2 DEF Record
<1>6. /\ records' = [ j \in Intents |->
                        IF j = intentOf[r] THEN records'[intentOf[r]] ELSE records[j] ]
      /\ records'[intentOf[r]] = [ status |-> status'[r], run |-> r ]
    BY <1>3, <1>5 DEF RouteIInv, RouteTypeOK
<1>7. RouteTied(r)'
    BY <1>1, <1>2, <1>3, <1>6 DEF RouteTied, InFlight
<1>8. QED
    BY <1>1, <1>4, <1>6, <1>7, FinishRoute DEF callVars

LEMMA FinishReexecutionRoute ==
    ASSUME RouteIInv, NEW r \in Runs, FinishReexecution(r)
    PROVE  RouteIInv'
<1>1. /\ Finish(r)
      /\ caller[r] = "POST /transactions/:id/execute"
      /\ UNCHANGED << caller, beside, intents, records >>
    BY DEF FinishReexecution, callVars
<1>2. r \in InFlight /\ pc'[r] = "done" /\ intentOf' = intentOf
    BY <1>1, FinishFacts DEF RouteIInv
<1>3. intentOf[r] \in Intents /\ RouteTied(r)
    BY <1>2 DEF RouteIInv, IInv, RunsConsistent, RunConsistent, InFlight
<1>4. ApiTypeOK' /\ IntentsGrow
    BY <1>1, UnchangedIntents DEF RouteIInv, RouteTypeOK
<1>5. records' = [ j \in Intents |->
                        IF j = intentOf[r] THEN records'[intentOf[r]] ELSE records[j] ]
    BY <1>1 DEF RouteIInv, RouteTypeOK
<1>6. RouteTied(r)'
    BY <1>1, <1>2, <1>3 DEF RouteTied, InFlight
<1>7. QED
    BY <1>1, <1>4, <1>5, <1>6, FinishRoute DEF callVars

LEMMA FinishPostedRoute ==
    ASSUME RouteIInv, NEW r \in Runs, FinishPosted(r)
    PROVE  RouteIInv'
<1>1. /\ Finish(r) /\ Consume(r)
      /\ caller[r] = "POST /intents/:id/execute"
      /\ UNCHANGED << caller, beside, records >>
    BY DEF FinishPosted, FinishIntent, callVars
<1>2. r \in InFlight /\ pc'[r] = "done" /\ intentOf' = intentOf
    BY <1>1, FinishFacts DEF RouteIInv
<1>3. intentOf[r] \in Intents /\ RouteTied(r)
    BY <1>2 DEF RouteIInv, IInv, RunsConsistent, RunConsistent, InFlight
<1>4. ApiTypeOK' /\ IntentsGrow /\ Consumed(intentOf[r])'
    <2>1. PICK i \in Intents : intentOf[r] = i /\ intentOf'[r] = i
        BY <1>2, <1>3
    <2>2. ApiTypeOK
        BY DEF RouteIInv, RouteTypeOK
    <2>3. ApiTypeOK' /\ IntentsGrow /\ Consumed(i)'
        BY <1>1, <2>1, <2>2, ConsumeFacts
    <2>4. QED
        BY <2>1, <2>3 DEF Consumed
<1>5. records' = [ j \in Intents |->
                        IF j = intentOf[r] THEN records'[intentOf[r]] ELSE records[j] ]
    BY <1>1 DEF RouteIInv, RouteTypeOK
<1>6. RouteTied(r)'
    BY <1>1, <1>2, <1>3, <1>4 DEF RouteTied, InFlight, Consumed
<1>7. QED
    BY <1>1, <1>4, <1>5, <1>6, FinishRoute DEF callVars

\* The steps of IntentApi and of the engine that start and end no run.
LEMMA QuietRoute ==
    ASSUME RouteIInv, UNCHANGED << records, callVars >>,
           \/ \E i \in Intents : PostIntent(i)
           \/ \E r \in Runs : TransferReturns(r) /\ UNCHANGED intents
           \/ Registry /\ UNCHANGED intents
           \/ External /\ UNCHANGED intents
    PROVE  RouteIInv'
<1>1. IInv /\ ApiTypeOK
    BY DEF RouteIInv, RouteTypeOK
<1>2. ASSUME NEW i \in Intents, PostIntent(i) PROVE RouteIInv'
    <2>1. IInv'
        BY <1>1, <1>2, PostIntentIInv
    <2>2. ApiTypeOK' /\ IntentsGrow
        BY <1>1, <1>2, PostFacts DEF PostIntent
    <2>3. pc' = pc /\ status' = status /\ intentOf' = intentOf
        BY <1>2 DEF PostIntent
    <2>4. QED
        BY <2>1, <2>2, <2>3, QuietRouteStep
<1>3. ASSUME NEW r \in Runs, TransferReturns(r), intents' = intents PROVE RouteIInv'
    <2>1. IInv'
        BY <1>1, <1>3, NextIInv DEF Next
    <2>2. ApiTypeOK' /\ IntentsGrow
        BY <1>1, <1>3, UnchangedIntents
    <2>3. \A s \in Runs : pc'[s] = pc[s] \/ { pc[s], pc'[s] } \subseteq { "transfer", "lookup" }
        BY <1>1, <1>3 DEF TransferReturns, IInv, TypeOK
    <2>4. QED
        BY <1>3, <2>1, <2>2, <2>3, QuietRouteStep DEF TransferReturns
<1>4. ASSUME Registry \/ External, intents' = intents PROVE RouteIInv'
    <2>1. IInv'
        BY <1>1, <1>4, NextIInv DEF Next
    <2>2. ApiTypeOK' /\ IntentsGrow
        BY <1>1, <1>4, UnchangedIntents
    <2>3. pc' = pc /\ status' = status /\ intentOf' = intentOf
        BY <1>4 DEF Registry, OpenPosition, RegisterRepresentation, External, ConfirmExternal,
                    FailExternal
    <2>4. QED
        BY <2>1, <2>2, <2>3, QuietRouteStep
<1>5. QED
    BY <1>2, <1>3, <1>4

LEMMA UnchangedRoute ==
    ASSUME RouteIInv, UNCHANGED routeVars
    PROVE  RouteIInv'
<1>1. /\ UNCHANGED << records, callVars >>
      /\ [Next]_vars
      /\ intents' = intents
      /\ pc' = pc /\ status' = status /\ intentOf' = intentOf
    BY DEF routeVars, apiVars, vars
<1>2. IInv'
    BY <1>1, NextIInv DEF RouteIInv
<1>3. ApiTypeOK' /\ IntentsGrow
    BY <1>1, UnchangedIntents DEF RouteIInv, RouteTypeOK
<1>4. QED
    BY <1>1, <1>2, <1>3, QuietRouteStep

LEMMA RouteNextIInv == RouteIInv /\ [RouteNext]_routeVars => RouteIInv'
<1> SUFFICES ASSUME RouteIInv, [RouteNext]_routeVars PROVE RouteIInv'
    OBVIOUS
<1>1. ASSUME NEW r \in Runs, NEW i \in Intents,
             PostTransaction(r, i) \/ Reexecute(r, i) \/ ExecutePosted(r, i)
      PROVE  RouteIInv'
    BY <1>1, PostTransactionRoute, ReexecuteRoute, ExecutePostedRoute
<1>2. ASSUME NEW r \in Runs, FinishPost(r) \/ FinishReexecution(r) \/ FinishPosted(r)
      PROVE  RouteIInv'
    BY <1>2, FinishPostRoute, FinishReexecutionRoute, FinishPostedRoute
<1>3. QED
    BY <1>1, <1>2, QuietRoute, UnchangedRoute DEF RouteNext

LEMMA RouteInvariance == RouteSpec => []RouteIInv
BY InitRouteIInv, RouteNextIInv, PTL DEF RouteSpec

LEMMA RecordsTell == RouteIInv => RecordTellsItsRun
<1> SUFFICES ASSUME RouteIInv, NEW i \in Intents, records[i] # None
             PROVE  IF records[i].run = None
                    THEN \E r \in InFlight : /\ caller[r] = "POST /transactions"
                                             /\ intentOf[r] = i
                    ELSE /\ intentOf[records[i].run] = i
                         /\ caller[records[i].run] = "POST /transactions"
                         /\ records[i].status = status[records[i].run]
    BY DEF RecordTellsItsRun
<1>1. PICK r \in Runs : Begun(r) /\ caller[r] = "POST /transactions" /\ intentOf[r] = i
    BY DEF RouteIInv, Recorder
<1>2. RouteTied(r) /\ r # None
    BY NoneAssumption DEF RouteIInv
<1>3. CASE r \in InFlight
    <2>1. records[i] = [ status |-> "created", run |-> None ]
        BY <1>1, <1>2, <1>3 DEF RouteTied
    <2>2. records[i].run = None
        BY <2>1
    <2>3. QED
        BY <1>1, <1>3, <2>2
<1>4. CASE pc[r] = "done"
    <2>1. records[i] = [ status |-> status[r], run |-> r ]
        BY <1>1, <1>2, <1>4 DEF RouteTied
    <2>2. records[i].run = r /\ records[i].status = status[r]
        BY <2>1
    <2>3. QED
        BY <1>1, <1>2, <2>2
<1>5. QED
    BY <1>1, <1>2, <1>3, <1>4 DEF RouteIInv, RouteTied, IInv, TypeOK, Places, Begun, InFlight

LEMMA SettledTwice == RouteIInv => SettledAgainExplained
<1> SUFFICES ASSUME RouteIInv, NEW r \in Runs, NEW s \in Runs, r # s,
                    status[r] = "settled", status[s] = "settled", intentOf[r] = intentOf[s]
             PROVE  \/ Overlapped(r, s)
                    \/ Family(r) # Family(s)
                    \/ { caller[r], caller[s] } = { "POST /transactions/:id/execute" }
    BY DEF SettledAgainExplained
<1>1. pc[r] = "done" /\ pc[s] = "done"
    BY SettledDone DEF RouteIInv, TerminalStatuses
<1>2. Kept(r, s) /\ Kept(s, r)
    BY <1>1 DEF RouteIInv, RivalsKept, Begun
<1>3. caller[r] \in Routes /\ caller[s] \in Routes
    BY <1>1 DEF RouteIInv, RouteTypeOK
<1>4. QED
    BY <1>2, <1>3 DEF Kept, Routes, Overlapped, Family

-----------------------------------------------------------------------------
\* An instruction made by hand, and how far its execution has come.
Progress(made) ==
    /\ made = [ intent |-> made.intent, run |-> made.run, status |-> made.status,
                calls |-> made.calls, transfers |-> made.transfers ]
    /\ made.calls \in Nat
    /\ made.transfers \in Nat
    /\ made.calls + made.transfers <= 1
    /\ made.status = "pending" => made.calls = 0 /\ made.transfers = 0
    /\ made.intent \in Intents
    /\ made.run = None

HandInv ==
    /\ RouteIInv
    /\ standalone = [ k \in Instructions |-> standalone[k] ]
    /\ \A k \in Instructions : standalone[k] # None => Progress(standalone[k])

\* A record whose transaction is undecided has not been given its run.
LEMMA UndecidedRecord ==
    ASSUME RouteIInv, NEW i \in Intents, records[i] # None
    PROVE  records[i].status \notin TerminalStatuses <=> records[i].run = None
<1>1. PICK r \in Runs : Begun(r) /\ caller[r] = "POST /transactions" /\ intentOf[r] = i
    BY DEF RouteIInv, Recorder
<1>2. RouteTied(r) /\ r # None
    BY NoneAssumption DEF RouteIInv
<1>3. CASE r \in InFlight
    <2>1. records[i] = [ status |-> "created", run |-> None ]
        BY <1>1, <1>2, <1>3 DEF RouteTied
    <2>2. records[i].run = None /\ records[i].status = "created"
        BY <2>1
    <2>3. QED
        BY <2>2 DEF TerminalStatuses
<1>4. CASE pc[r] = "done"
    <2>1. records[i] = [ status |-> status[r], run |-> r ]
        BY <1>1, <1>2, <1>4 DEF RouteTied
    <2>2. records[i].run = r /\ records[i].status = status[r]
        BY <2>1
    <2>3. status[r] \in { "failed", "settled" }
        BY <1>4 DEF RouteIInv, IInv, RunsConsistent, RunConsistent, Ended
    <2>4. QED
        BY <1>2, <2>2, <2>3 DEF TerminalStatuses
<1>5. QED
    BY <1>1, <1>2, <1>3, <1>4 DEF RouteIInv, RouteTied, IInv, TypeOK, Places, Begun, InFlight

\* What the steps of an instruction do to everything else: they may move balances
\* at the adapter, and save.
Aside ==
    /\ balances' \in [ ExternalKeys -> Int ]
    /\ unsaved' = None
    /\ UNCHANGED << positions, opened, ledger, representations, pc, intentOf, status,
                    instruction, via, external, evidence, crashes, intents, records,
                    callVars >>

LEMMA AsideRoute ==
    ASSUME RouteIInv, Aside
    PROVE  RouteIInv'
<1>1. IInv'
    <2>1. TypeOK'
        BY DEF RouteIInv, IInv, TypeOK, Aside, InFlight
    <2>2. RunsConsistent'
        BY Frame DEF RouteIInv, IInv, RunsConsistent, Aside
    <2>3. QED
        BY <2>1, <2>2 DEF IInv
<1>2. ApiTypeOK' /\ IntentsGrow
    BY UnchangedIntents DEF RouteIInv, RouteTypeOK, Aside
<1>3. QED
    BY <1>1, <1>2, QuietRouteStep DEF Aside

LEMMA CreateHandInv ==
    ASSUME HandInv, NEW k \in Instructions, NEW i \in Intents, CreateInstruction(k, i)
    PROVE  HandInv'
<1> DEFINE made == [ intent |-> i, run |-> records[i].run, status |-> "pending",
                     calls |-> 0, transfers |-> 0 ]
<1>1. records[i].run = None
    BY UndecidedRecord DEF CreateInstruction, HandInv, TerminalStatuses
<1>2. Progress(made)
    BY <1>1 DEF Progress
<1>3. standalone' = [ standalone EXCEPT ![k] = made ]
    BY DEF CreateInstruction
<1>4. RouteIInv'
    BY AsideRoute DEF CreateInstruction, Aside, HandInv, RouteIInv, IInv, TypeOK
<1> HIDE DEF made
<1>5. QED
    BY <1>2, <1>3, <1>4 DEF HandInv

LEMMA ExecuteHandInv ==
    ASSUME HandInv, NEW k \in Instructions, ExecuteInstruction(k)
    PROVE  HandInv'
<1> DEFINE made == standalone[k]
<1>1. standalone[k] # None /\ made.status = "pending" /\ Progress(made)
    BY DEF ExecuteInstruction, Found, HandInv
<1>2. PICK after :
        /\ standalone' = [ standalone EXCEPT ![k] = after ]
        /\ \/ after = [ made EXCEPT !.status = "failed" ]
           \/ after = [ made EXCEPT !.status = "executing", !.calls = @ + 1 ]
    BY DEF ExecuteInstruction, Mark
<1>3. Progress(after)
    <2>1. CASE after = [ made EXCEPT !.status = "failed" ]
        BY <1>1, <2>1 DEF Progress
    <2>2. CASE after = [ made EXCEPT !.status = "executing", !.calls = @ + 1 ]
        <3>1. /\ after.status = "executing"
              /\ after.calls = made.calls + 1
              /\ after.transfers = made.transfers
              /\ after.intent = made.intent
              /\ after.run = made.run
              /\ after = [ intent |-> after.intent, run |-> after.run, status |-> after.status,
                           calls |-> after.calls, transfers |-> after.transfers ]
            BY <1>1, <2>2 DEF Progress
        <3>2. QED
            BY <1>1, <3>1 DEF Progress
    <2>3. QED
        BY <1>2, <2>1, <2>2
<1>4. RouteIInv'
    BY AsideRoute DEF ExecuteInstruction, Aside, HandInv, RouteIInv, IInv, TypeOK
<1>5. QED
    BY <1>2, <1>3, <1>4 DEF HandInv

\* A transfer for an instruction moves whole quantities between accounts the
\* adapter knows.
LEMMA PerformsFacts ==
    ASSUME IInv, NEW i \in Intents, AdapterPerforms(i)
    PROVE  balances' \in [ ExternalKeys -> Int ]
<1>1. balances \in [ ExternalKeys -> Int ]
    BY DEF IInv, TypeOK
<1>2. PICK rep \in representations :
        \/ balances' = balances
        \/ balances' = Transferred(balances, AdapterKey(rep, IntentData[i].from),
                                   AdapterKey(rep, IntentData[i].to), Quantity(i))
    BY DEF AdapterPerforms, RepresentationsOf
<1>3. rep.id \in RepresentationIds
    BY <1>2, RepresentationId DEF IInv, TypeOK
<1>4. /\ AdapterKey(rep, IntentData[i].from) \in ExternalKeys
      /\ AdapterKey(rep, IntentData[i].to) \in ExternalKeys
      /\ Quantity(i) \in Int
    BY <1>3, IntentFacts DEF AdapterKey, ExternalKeys
<1>5. QED
    BY <1>1, <1>2, <1>4, TransferredInt

LEMMA FinishHandInv ==
    ASSUME HandInv, NEW k \in Instructions, FinishInstruction(k)
    PROVE  HandInv' /\ standalone'[k].calls = standalone[k].calls - 1
<1> DEFINE made == standalone[k]
<1>1. standalone[k] # None /\ made.calls > 0 /\ Progress(made)
    BY DEF FinishInstruction, HandInv
<1>2. PICK outcome \in { "settled", "failed" }, performed \in { 0, 1 } :
        Answered(k, outcome, performed)
    BY DEF FinishInstruction
<1>3. PICK after :
        /\ standalone' = [ standalone EXCEPT ![k] = after ]
        /\ after = [ made EXCEPT !.status = outcome, !.calls = @ - 1,
                                 !.transfers = @ + performed ]
    BY <1>2 DEF Answered
<1>4. Progress(after)
    <2>1. /\ after.status = outcome
          /\ after.calls = made.calls - 1
          /\ after.transfers = made.transfers + performed
          /\ after.intent = made.intent
          /\ after.run = made.run
          /\ after = [ intent |-> after.intent, run |-> after.run, status |-> after.status,
                       calls |-> after.calls, transfers |-> after.transfers ]
        BY <1>1, <1>3 DEF Progress
    <2>2. QED
        BY <1>1, <2>1 DEF Progress
<1>5. balances' \in [ ExternalKeys -> Int ]
    <2>1. IInv /\ Posted(k) \in Intents
        BY <1>1 DEF HandInv, RouteIInv, Progress, Posted
    <2>2. AdapterPerforms(Posted(k)) \/ balances' = balances
        BY DEF FinishInstruction
    <2>3. QED
        BY <2>1, <2>2, PerformsFacts DEF IInv, TypeOK
<1>6. RouteIInv'
    <2>1. Aside
        BY <1>5, SMT DEF FinishInstruction, Aside
    <2>2. QED
        BY <2>1, AsideRoute DEF HandInv
<1>7. standalone'[k] = after /\ after.calls = made.calls - 1
    BY <1>1, <1>3 DEF HandInv, Progress
<1>8. QED
    BY <1>3, <1>4, <1>6, <1>7 DEF HandInv

\* A step changes one instruction at most.
LEMMA HandStep ==
    ASSUME HandInv, [InstructionNext]_instructionVars, NEW k \in Instructions,
           standalone'[k] # standalone[k]
    PROVE  \/ \E i \in Intents : CreateInstruction(k, i)
           \/ ExecuteInstruction(k)
           \/ FinishInstruction(k)
<1>1. ASSUME NEW j \in Instructions, NEW after, standalone' = [ standalone EXCEPT ![j] = after ]
      PROVE  j = k
    BY <1>1 DEF HandInv
<1>2. ASSUME NEW j \in Instructions, NEW i \in Intents, CreateInstruction(j, i) PROVE j = k
    BY <1>1, <1>2 DEF CreateInstruction
<1>3. ASSUME NEW j \in Instructions, ExecuteInstruction(j) PROVE j = k
    <2>1. PICK after : standalone' = [ standalone EXCEPT ![j] = after ]
        BY <1>3 DEF ExecuteInstruction, Mark
    <2>2. QED
        BY <1>1, <2>1
<1>4. ASSUME NEW j \in Instructions, FinishInstruction(j) PROVE j = k
    <2>1. PICK outcome, performed : Answered(j, outcome, performed)
        BY <1>4 DEF FinishInstruction
    <2>2. PICK after : standalone' = [ standalone EXCEPT ![j] = after ]
        BY <2>1 DEF Answered
    <2>3. QED
        BY <1>1, <2>2
<1>5. QED
    BY <1>2, <1>3, <1>4 DEF InstructionNext, instructionVars

LEMMA InstructionNextHandInv == HandInv /\ [InstructionNext]_instructionVars => HandInv'
<1> SUFFICES ASSUME HandInv, [InstructionNext]_instructionVars PROVE HandInv'
    OBVIOUS
<1>1. CASE \E k \in Instructions, i \in Intents : CreateInstruction(k, i)
    BY <1>1, CreateHandInv
<1>2. CASE \E k \in Instructions : ExecuteInstruction(k) \/ FinishInstruction(k)
    BY <1>2, ExecuteHandInv, FinishHandInv
<1>3. CASE UNCHANGED standalone /\ [RouteNext]_routeVars
    BY <1>3, RouteNextIInv DEF HandInv
<1>4. QED
    BY <1>1, <1>2, <1>3 DEF InstructionNext, instructionVars

LEMMA HandInvariance == InstructionSpec => []HandInv /\ []RouteIInv
<1>1. InstructionInit => HandInv
    BY InitRouteIInv DEF InstructionInit, HandInv
<1>2. HandInv => RouteIInv
    BY DEF HandInv
<1>3. QED
    BY <1>1, <1>2, InstructionNextHandInv, PTL DEF InstructionSpec

\* An instruction made by hand leads to one external transfer at most, although
\* POST /settlement-instructions/:id/execute awaits the adapter and other executes
\* of it may come meanwhile (settlementInstructionExecutionEngine.ts marks it first).
THEOREM InstructionsTransferOnce == InstructionSpec => []InstructionTransfersOnce
<1>1. HandInv => InstructionTransfersOnce
    BY DEF HandInv, Progress, InstructionTransfersOnce
<1>2. QED
    BY <1>1, HandInvariance, PTL

\* An instruction goes to the adapter only while POST /transactions is still
\* waiting for its own transfer: once that transaction has ended its record has
\* another identifier, and the instruction finds none
\* (settlementInstructionExecutionEngine.ts).
THEOREM InstructionsAreNotLate == InstructionSpec => NoLateInstruction
<1> DEFINE Timely == \A k \in Instructions :
                (standalone[k] # None /\ standalone'[k].calls > standalone[k].calls)
                    => records[Posted(k)].status \notin TerminalStatuses
<1>1. ASSUME HandInv, [InstructionNext]_instructionVars PROVE Timely
    <2> SUFFICES ASSUME NEW k \in Instructions, standalone[k] # None,
                        standalone'[k].calls > standalone[k].calls
                 PROVE  records[Posted(k)].status \notin TerminalStatuses
        OBVIOUS
    <2>1. Progress(standalone[k])
        BY <1>1 DEF HandInv
    <2>2. standalone'[k] # standalone[k]
        BY <2>1 DEF Progress
    <2>3. ~\E i \in Intents : CreateInstruction(k, i)
        BY DEF CreateInstruction
    <2>4. ~FinishInstruction(k)
        BY <1>1, <2>1, FinishHandInv DEF Progress
    <2>5. ExecuteInstruction(k)
        BY <1>1, <2>2, <2>3, <2>4, HandStep
    <2>6. /\ Posted(k) \in Intents
          /\ records[Posted(k)] # None
          /\ records[Posted(k)].run = None
        BY <2>1, <2>5 DEF ExecuteInstruction, Found, Progress, Posted
    <2>7. QED
        BY <1>1, <2>6, UndecidedRecord DEF HandInv
<1>2. HandInv /\ [InstructionNext]_instructionVars => [Timely]_instructionVars
    BY <1>1
<1>3. InstructionSpec => [][Timely]_instructionVars
    <2> HIDE DEF Timely
    <2>1. QED
        BY <1>2, HandInvariance, PTL DEF InstructionSpec
<1>4. QED
    BY <1>3 DEF NoLateInstruction

\* A stored transaction tells what became of the run it shows, and before it shows
\* one its first execution is under way (api/routes/transactions.ts), whichever
\* other executions of the same intent come and go.
THEOREM RecordsTellTheirRuns ==
    /\ RouteSpec => []RecordTellsItsRun
    /\ InstructionSpec => []RecordTellsItsRun
BY RouteInvariance, HandInvariance, RecordsTell, PTL

\* An intent is settled a second time only for the reasons SettledAgainExplained
\* lists: overlap, the two families of routes, or two re-executions.
THEOREM SecondSettlementsAreExplained ==
    /\ RouteSpec => []SettledAgainExplained
    /\ InstructionSpec => []SettledAgainExplained
BY RouteInvariance, HandInvariance, SettledTwice, PTL
=============================================================================
