---------------------- MODULE SettlementInstructionApi ----------------------
(***************************************************************************)
(* api/routes/settlementInstructions.ts beside the transactions and        *)
(* intents routes: settlement instructions made and executed by hand.      *)
(*                                                                         *)
(* Such an instruction goes to the adapter past the transaction engine.    *)
(* Nothing of the execution is kept but the instruction's own status: no   *)
(* evidence, no reconciliation, no position, no ledger entry.  It can be   *)
(* made only for a stored transaction that is not decided yet, so only     *)
(* while POST /transactions, which stored it, waits for its own transfer.  *)
(*                                                                         *)
(* The instruction comes out of a proxy here, so that its marks are saved. *)
(***************************************************************************)
EXTENDS TransactionApi

CONSTANT Instructions       \* identifiers of instructions made by hand

VARIABLE standalone         \* instruction -> [intent, run, status, calls, transfers], or
                            \* None: the transaction it is for, as the intent of its
                            \* record and the run the record showed; executions that
                            \* wait for the adapter; history: transfers performed

instructionVars == << routeVars, standalone >>

InstructionInit == RouteInit /\ standalone = [ k \in Instructions |-> None ]

Posted(k) == standalone[k].intent

\* POST /settlement-instructions: the transaction is stored and, for
\* createSettlementInstruction, created or pending.
CreateInstruction(k, i) ==
    /\ standalone[k] = None
    /\ records[i] # None
    /\ records[i].status \in { "created", "pending" }
    /\ standalone' = [ standalone EXCEPT ![k] =
                        [ intent |-> i, run |-> records[i].run, status |-> "pending",
                          calls |-> 0, transfers |-> 0 ] ]
    /\ unsaved' = None
    /\ UNCHANGED << positions, opened, ledger, representations, pc, intentOf, status,
                    instruction, via, external, balances, evidence, crashes, intents,
                    records, callVars >>

\* Mutant of Found: the transaction is found by its intent, whatever its identifier.
FoundByIntent(k) == standalone[k] # None /\ records[Posted(k)] # None

\* The record of the instruction's transaction is still stored under its identifier.
Found(k) == /\ standalone[k] # None
            /\ records[Posted(k)] # None
            /\ records[Posted(k)].run = standalone[k].run

\* Mutant of Mark: the instruction is marked when the adapter has answered.
MarkLate(k) == standalone' = [ standalone EXCEPT ![k].calls = @ + 1 ]

\* The instruction is executing before the adapter is called.
Mark(k) == standalone' = [ standalone EXCEPT ![k].status = "executing",
                                             ![k].calls = @ + 1 ]

\* POST /settlement-instructions/:id/execute up to its first await, or to its end
\* when no adapter can be told.  settleExternally asks for the status of the
\* transaction once more (externalSettlementEngine.ts:38-49) and never refuses here: a
\* record that is Found shows an undecided transaction.  NoLateInstruction shows that
\* without this second guard.
ExecuteInstruction(k) ==
    /\ Found(k)
    /\ standalone[k].status = "pending"
    /\ IF Route(Posted(k)) = {}
       THEN standalone' = [ standalone EXCEPT ![k].status = "failed" ]
       ELSE Mark(k)
    /\ unsaved' = None
    /\ UNCHANGED << positions, opened, ledger, representations, pc, intentOf, status,
                    instruction, via, external, balances, evidence, crashes, intents,
                    records, callVars >>

AdapterKey(rep, account) == << rep.id, account >>

\* The adapter performs the transfer, now or when it confirms it.
AdapterPerforms(i) ==
    \E rep \in RepresentationsOf(IntentData[i].asset, representations),
       mode \in SettlementModes :
        LET from == AdapterKey(rep, IntentData[i].from)
            to   == AdapterKey(rep, IntentData[i].to)
        IN  /\ balances[from] >= Quantity(i)
            /\ balances' = IF mode = "immediate"
                           THEN Transferred(balances, from, to, Quantity(i))
                           ELSE balances

Answered(k, outcome, performed) ==
    standalone' = [ standalone EXCEPT ![k].status = outcome,
                                      ![k].calls = @ - 1,
                                      ![k].transfers = @ + performed ]

\* The adapter has answered both calls; nothing is read or written between the two.
\* Whatever came back is dropped.
FinishInstruction(k) ==
    /\ standalone[k] # None
    /\ standalone[k].calls > 0
    /\ \/ AdapterPerforms(Posted(k)) /\ Answered(k, "settled", 1)
       \/ /\ Faults \intersect { "timeout", "lookup" } # {}
          /\ AdapterPerforms(Posted(k))
          /\ Answered(k, "failed", 1)
       \/ /\ \/ "reject" \in Faults
             \/ \A rep \in RepresentationsOf(IntentData[Posted(k)].asset, representations) :
                    balances[AdapterKey(rep, IntentData[Posted(k)].from)] < Quantity(Posted(k))
          /\ Answered(k, "failed", 0)
          /\ UNCHANGED balances
    /\ unsaved' = None
    /\ UNCHANGED << positions, opened, ledger, representations, pc, intentOf, status,
                    instruction, via, external, evidence, crashes, intents, records,
                    callVars >>

InstructionNext ==
    \/ \E k \in Instructions, i \in Intents : CreateInstruction(k, i)
    \/ \E k \in Instructions : ExecuteInstruction(k) \/ FinishInstruction(k)
    \/ RouteNext /\ UNCHANGED standalone

InstructionSpec == InstructionInit /\ [][InstructionNext]_instructionVars

-----------------------------------------------------------------------------
\* Properties.

\* However many executes of one instruction overlap, and however they end, the
\* adapter performs one transfer for it at most: the mark "executing" is made
\* before the await.
InstructionTransfersOnce ==
    \A k \in Instructions : standalone[k] # None =>
        standalone[k].calls + standalone[k].transfers <= 1

\* An instruction goes to the adapter only while the transaction it was made for is
\* undecided; once POST /transactions has settled or failed it, the instruction left
\* behind can no longer move anything.
NoLateInstruction ==
    [][ \A k \in Instructions :
            (standalone[k] # None /\ standalone'[k].calls > standalone[k].calls)
                => records[Posted(k)].status \notin TerminalStatuses ]_instructionVars
=============================================================================
