--------------------------- MODULE Reconciliation ---------------------------
(***************************************************************************)
(* Comparison of what a transaction asked for with what the external       *)
(* system reports: engines/reconciliationEngine.ts and                     *)
(* engines/reconciliationCoordinator.ts as operators.                      *)
(*                                                                         *)
(* A movement is [from, to, asset, quantity]; an external movement is      *)
(* [from, to, representation, quantity]; a representation is               *)
(* [id, asset, type]; an external settlement pairs a movement with the set *)
(* of external movements of the external transaction observed for it.      *)
(***************************************************************************)
LOCAL INSTANCE Naturals
LOCAL INSTANCE Sequences

RepresentationsOf(asset, representations) ==
    { rep \in representations : rep.asset = asset }

\* Mutant of Matches: the quantity is not compared.
MatchesAnyQuantity(movement, external, representations) ==
    /\ external.from = movement.from
    /\ external.to = movement.to
    /\ \E rep \in RepresentationsOf(movement.asset, representations) :
            external.representation = rep.id

Matches(movement, external, representations) ==
    /\ external.from = movement.from
    /\ external.to = movement.to
    /\ external.quantity = movement.quantity
    /\ \E rep \in RepresentationsOf(movement.asset, representations) :
            external.representation = rep.id

\* reconcileSettlement.  The status of the external transaction is not looked at.
ReconcileSettlement(settlement, representations) ==
    CASE RepresentationsOf(settlement.movement.asset, representations) = {} ->
            "unresolved"
      [] \E external \in settlement.externalMovements :
            Matches(settlement.movement, external, representations) -> "matched"
      [] OTHER -> "mismatched"

\* reconcileSettlements: the verdict on all the settlements of a transaction
\* with `movements` movements.
ReconcileSettlements(movements, settlements, representations) ==
    LET verdicts == { ReconcileSettlement(settlements[n], representations) :
                        n \in 1..Len(settlements) }
    IN  CASE "mismatched" \in verdicts -> "mismatched"
          [] "mismatched" \notin verdicts /\ (verdicts = {} \/ "unresolved" \in verdicts) ->
                "unresolved"
          [] OTHER -> IF Len(settlements) < movements THEN "partial" ELSE "matched"

Unrepresented(movements, representations) ==
    \E n \in 1..Len(movements) : RepresentationsOf(movements[n].asset, representations) = {}

\* Mutant of ReconcileTransaction: a movement is looked for for each external one.
ReconcileTransactionBackwards(movements, externals, representations) ==
    IF Unrepresented(movements, representations) THEN "unresolved"
    ELSE IF /\ Len(movements) = Len(externals)
            /\ \A k \in 1..Len(externals) : \E n \in 1..Len(movements) :
                    Matches(movements[n], externals[k], representations)
         THEN "matched"
         ELSE "mismatched"

\* reconcileTransaction: all the movements of a transaction against all those of one
\* external transaction.  Two movements may be matched by one external movement.
ReconcileTransaction(movements, externals, representations) ==
    IF Unrepresented(movements, representations) THEN "unresolved"
    ELSE IF /\ Len(movements) = Len(externals)
            /\ \A n \in 1..Len(movements) : \E k \in 1..Len(externals) :
                    Matches(movements[n], externals[k], representations)
         THEN "matched"
         ELSE "mismatched"
=============================================================================
