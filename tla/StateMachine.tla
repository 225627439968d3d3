---------------------------- MODULE StateMachine ----------------------------
(***************************************************************************)
(* The two status machines of the system (engines/stateMachine.ts) and the *)
(* lifecycle rule that moves a transaction to its outcome                  *)
(* (engines/transactionLifecycleEngine.ts).  No variables: the other       *)
(* modules apply these operators to the statuses they keep.                *)
(***************************************************************************)
LOCAL INSTANCE Naturals
LOCAL INSTANCE Sequences

TransactionStatuses ==
    { "created", "pending", "instruction_created", "externally_settled",
      "reconciled", "internally_settled", "settled", "failed" }

IntentStatuses == { "pending", "executed", "failed" }

TerminalStatuses == { "settled", "failed" }

TransactionTransitions ==
    [ created             |-> { "pending", "instruction_created", "failed" },
      pending             |-> { "instruction_created", "failed" },
      instruction_created |-> { "externally_settled", "pending", "failed" },
      externally_settled  |-> { "reconciled", "pending", "failed" },
      reconciled          |-> { "internally_settled", "failed" },
      internally_settled  |-> { "settled", "failed" },
      settled             |-> {},
      failed              |-> {} ]

IntentTransitions ==
    [ pending |-> { "executed", "failed" }, executed |-> {}, failed |-> {} ]

CanTransitionTransaction(from, to) == to \in TransactionTransitions[from]

CanTransitionIntent(from, to) == to \in IntentTransitions[from]

\* The intent status after transitionIntent(from, to); a refused transition
\* throws and the caller leaves the status alone.
IntentAfter(from, to) == IF CanTransitionIntent(from, to) THEN to ELSE from

\* The positions of `path` that transitionTransaction refuses when the path is
\* taken one status at a time from `from`.
RefusedSteps(from, path) ==
    { k \in 1..Len(path) :
        ~CanTransitionTransaction(IF k = 1 THEN from ELSE path[k - 1], path[k]) }

CanWalk(from, path) == RefusedSteps(from, path) = {}

\* The status a transaction ends with when its owner calls
\* setTransactionStatus for each status of `path` in turn and returns at the
\* first refusal, which leaves the status as the step before it did.
Walk(from, path) ==
    IF CanWalk(from, path)
    THEN IF path = << >> THEN from ELSE path[Len(path)]
    ELSE LET first == CHOOSE k \in RefusedSteps(from, path) :
                          \A j \in RefusedSteps(from, path) : k <= j
         IN  IF first = 1 THEN from ELSE path[first - 1]

\* The statuses applySettlementResult steps through on a local variable before
\* it assigns the last one.
MatchedPath(current) ==
    CASE current = "pending" ->
            << "instruction_created", "externally_settled", "reconciled",
               "internally_settled", "settled" >>
      [] current = "externally_settled" ->
            << "reconciled", "internally_settled", "settled" >>
      [] current = "reconciled" -> << "internally_settled", "settled" >>
      [] OTHER -> << "settled" >>

\* The status after applySettlementResult for a settled settlement of this
\* transaction.  The matched path is all or nothing; an incomplete
\* reconciliation writes "pending" without asking the state machine.
ApplySettlementResult(current, reconciliation) ==
    IF current \in TerminalStatuses THEN current
    ELSE CASE reconciliation = "matched" ->
                IF CanWalk(current, MatchedPath(current)) THEN "settled" ELSE current
           [] reconciliation = "mismatched" -> Walk(current, << "failed" >>)
           [] OTHER -> "pending"
=============================================================================
