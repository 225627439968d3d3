------------------------- MODULE DurableSettlement --------------------------
(***************************************************************************)
(* POST /intents/:id/execute write by write: what the settlement engine,   *)
(* the ledger and the intent execution engine leave in memory and in the   *)
(* storage file when the process dies, or a write of the storage throws,   *)
(* between two of their assignments.                                       *)
(*                                                                         *)
(* The collections of store/memoryStore.ts are proxies                     *)
(* (storage/persistentCollection.ts).  An assignment through one changes   *)
(* memory and then saves all of memory, whatever collection it is made     *)
(* to.  An assignment to an object that did not come out of a proxy, as    *)
(* the destination position the engine has just made or the instruction    *)
(* it holds, changes memory alone and is saved by the next write.          *)
(*                                                                         *)
(* TransactionExecution takes all the writes of a run after its last await *)
(* as one; this module says what that leaves out.  Positions are of one    *)
(* asset, and one request executes an intent at a time.                    *)
(***************************************************************************)
EXTENDS Integers, Sequences, FiniteSets, Sums, StateMachine

CONSTANTS
    Accounts,
    Intents,
    IntentData,        \* [Intents -> [from, to, quantity]]
    Runs,              \* identifiers of calls of executeIntent that create a transaction
    Opening,           \* the quantity of each account's position, or NoPosition
    MaxFaults,         \* bound on the runs that a crash or a failing write interrupts
    NoPosition, None

ASSUME DurableAssumption ==
    /\ IsFiniteSet(Accounts)
    /\ \A i \in Intents : /\ IntentData[i].from \in Accounts
                          /\ IntentData[i].to \in Accounts
                          /\ IntentData[i].quantity \in Nat \ {0}
    /\ Opening \in [ Accounts -> Nat \union {NoPosition} ]
    /\ NoPosition \notin Int
    /\ None \notin Intents
    /\ None \notin Runs
    /\ MaxFaults \in Nat

VARIABLES
    memory,            \* [positions, ledger, instructions, intents]
    disk,              \* the same, as the storage file has it
    pc,                \* the next write of the run under way, "rest" when there is none
    running,           \* that run
    intentOf,          \* the intent each run executes
    raw,               \* the destination of the run is an object it made itself
    torn,              \* the last write failed: memory has it, the disk has not
    interrupted        \* history: runs ended by a crash or by a failing write

vars == << memory, disk, pc, running, intentOf, raw, torn, interrupted >>

Source(r) == IntentData[intentOf[r]].from

Destination(r) == IntentData[intentOf[r]].to

Quantity(r) == IntentData[intentOf[r]].quantity

Entry(r, type, account) ==
    [ transactionId |-> r, type |-> type, account |-> account, quantity |-> Quantity(r) ]

Debit(r) == Entry(r, "debit", Source(r))

Credit(r) == Entry(r, "credit", Destination(r))

Start ==
    [ positions    |-> Opening,
      ledger       |-> << >>,
      instructions |-> [ r \in Runs |-> None ],
      intents      |-> [ i \in Intents |-> [ status |-> "pending", transactionId |-> None ] ] ]

Init ==
    /\ memory = Start
    /\ disk = Start
    /\ pc = "rest"
    /\ running = None
    /\ intentOf = [ r \in Runs |-> None ]
    /\ raw = FALSE
    /\ torn = FALSE
    /\ interrupted = {}

-----------------------------------------------------------------------------
\* How a change of memory reaches the disk.

\* The set trap of a proxy: the change is made and all of memory is saved.
Saved(after, next) ==
    /\ memory' = after
    /\ disk' = after
    /\ pc' = next
    /\ torn' = FALSE
    /\ UNCHANGED interrupted

\* persist throws: the change stays in memory, nothing more of the request is written,
\* and it is answered with an error.  Nothing between the write and the router catches
\* it, except around the intent's status, the last write, which executeIntent turns
\* into a refusal (intentExecutionEngine.ts:79-90, 100-111).
NotSaved(after, r) ==
    /\ Cardinality(interrupted) < MaxFaults
    /\ memory' = after
    /\ pc' = "rest"
    /\ torn' = TRUE
    /\ interrupted' = interrupted \union {r}
    /\ UNCHANGED disk

Assign(after, next, r) == Saved(after, next) \/ NotSaved(after, r)

\* push saves the same state three times: for the index, for the length and once
\* more at its end.  When one of the later writes throws, the element is saved.
Push(after, next, r) ==
    \/ Assign(after, next, r)
    \/ /\ Cardinality(interrupted) < MaxFaults
       /\ memory' = after
       /\ disk' = after
       /\ pc' = "rest"
       /\ torn' = FALSE
       /\ interrupted' = interrupted \union {r}

\* An assignment to an object that is not a proxy.
Unsaved(after, next) ==
    /\ memory' = after
    /\ pc' = next
    /\ UNCHANGED << disk, torn, interrupted >>

-----------------------------------------------------------------------------
\* One execution of an intent.

\* Mutant of Executable: the intent's status is not asked for.
ExecutableAlways(i) == i \in Intents

Executable(i) == memory.intents[i].status \notin { "executed", "failed" }

Covers(i) ==
    LET held == memory.positions[IntentData[i].from]
    IN  held # NoPosition /\ held >= IntentData[i].quantity

\* executeIntent and executeTransaction up to the await: the instruction is
\* pushed.
Instruct(r, i) ==
    /\ pc = "rest"
    /\ intentOf[r] = None
    /\ Executable(i)
    /\ Covers(i)
    /\ running' = r
    /\ intentOf' = [ intentOf EXCEPT ![r] = i ]
    /\ raw' = FALSE
    /\ Push([ memory EXCEPT !.instructions[r] = "pending" ], "transfer", r)

\* The adapter refuses: the instruction fails, in memory, and so will the intent.
TransferFails(r) ==
    /\ pc = "transfer" /\ r = running
    /\ Unsaved([ memory EXCEPT !.instructions[r] = "failed" ], "transaction id")
    /\ UNCHANGED << running, intentOf, raw >>

\* Mutant of TransferSucceeds: the intent is executed once the transfer is.
TransferSucceedsEarly(r) ==
    /\ pc = "transfer" /\ r = running
    /\ Unsaved([ memory EXCEPT !.instructions[r] = "settled",
                               !.intents[intentOf[r]] =
                                    [ status |-> "executed", transactionId |-> r ] ],
               IF memory.positions[Destination(r)] = NoPosition
               THEN "destination" ELSE "debit")
    /\ UNCHANGED << running, intentOf, raw >>

\* The transfer is done and reconciles: the instruction is settled, in memory, and
\* settleTransaction looks for the two positions.  Nobody spent the source since
\* Instruct looked at it.  A transfer that does not reconcile writes what
\* TransferFails writes, but for the instruction's status, and moves nothing.  The
\* list of external settlements the engine pushes to is one the route makes for the
\* call (intents.ts:303), no collection of the store.
TransferSucceeds(r) ==
    /\ pc = "transfer" /\ r = running
    /\ Unsaved([ memory EXCEPT !.instructions[r] = "settled" ],
               IF memory.positions[Destination(r)] = NoPosition
               THEN "destination" ELSE "debit")
    /\ UNCHANGED << running, intentOf, raw >>

\* Mutant of CreateDestination: the position is made with the quantity it is to
\* receive.
CreateDestinationFilled(r) ==
    /\ pc = "destination" /\ r = running
    /\ Push([ memory EXCEPT !.positions[Destination(r)] = Quantity(r) ], "debit", r)
    /\ raw' = TRUE
    /\ UNCHANGED << running, intentOf >>

CreateDestination(r) ==
    /\ pc = "destination" /\ r = running
    /\ Push([ memory EXCEPT !.positions[Destination(r)] = 0 ], "debit", r)
    /\ raw' = TRUE
    /\ UNCHANGED << running, intentOf >>

DebitSource(r) ==
    /\ pc = "debit" /\ r = running
    /\ Assign([ memory EXCEPT !.positions[Source(r)] = @ - Quantity(r) ], "credit", r)
    /\ UNCHANGED << running, intentOf, raw >>

\* Mutant of CreditDestination: a new destination is a copy of the one stored.
CreditCopy(r) ==
    /\ pc = "credit" /\ r = running
    /\ IF raw THEN Unsaved(memory, "debit entry")
       ELSE Assign([ memory EXCEPT !.positions[Destination(r)] = @ + Quantity(r) ],
                   "debit entry", r)
    /\ UNCHANGED << running, intentOf, raw >>

CreditDestination(r) ==
    /\ pc = "credit" /\ r = running
    /\ LET after == [ memory EXCEPT !.positions[Destination(r)] = @ + Quantity(r) ]
       IN  IF raw THEN Unsaved(after, "debit entry") ELSE Assign(after, "debit entry", r)
    /\ UNCHANGED << running, intentOf, raw >>

\* ledger.push(debit, credit) saves after the first element and after the second.
RecordDebit(r) ==
    /\ pc = "debit entry" /\ r = running
    /\ Assign([ memory EXCEPT !.ledger = Append(@, Debit(r)) ], "credit entry", r)
    /\ UNCHANGED << running, intentOf, raw >>

RecordCredit(r) ==
    /\ pc = "credit entry" /\ r = running
    /\ Push([ memory EXCEPT !.ledger = Append(@, Credit(r)) ], "transaction id", r)
    /\ UNCHANGED << running, intentOf, raw >>

\* intent.transactionId, and intent.executedAt after it.
WriteTransactionId(r) ==
    /\ pc = "transaction id" /\ r = running
    /\ Push([ memory EXCEPT !.intents[intentOf[r]].transactionId = r ], "status", r)
    /\ UNCHANGED << running, intentOf, raw >>

Outcome(r) == IF memory.instructions[r] = "settled" THEN "executed" ELSE "failed"

\* Mutant of WriteStatus: the intent did not come out of a proxy.
WriteStatusRaw(r) ==
    /\ pc = "status" /\ r = running
    /\ Unsaved([ memory EXCEPT !.intents[intentOf[r]].status = IntentAfter("pending", Outcome(r)) ],
               "rest")
    /\ UNCHANGED << running, intentOf, raw >>

WriteStatus(r) ==
    /\ pc = "status" /\ r = running
    /\ Assign([ memory EXCEPT !.intents[intentOf[r]].status = IntentAfter("pending", Outcome(r)) ],
              "rest", r)
    /\ UNCHANGED << running, intentOf, raw >>

\* Any other request writes something: all of memory is saved with it.
OtherWrite ==
    /\ pc = "rest" /\ torn
    /\ disk' = memory
    /\ torn' = FALSE
    /\ UNCHANGED << memory, pc, running, intentOf, raw, interrupted >>

\* The process dies and starts again: memory is what the disk holds.
Crash ==
    /\ Cardinality(interrupted) < MaxFaults
    /\ pc # "rest" \/ torn
    /\ memory' = disk
    /\ pc' = "rest"
    /\ torn' = FALSE
    /\ interrupted' = interrupted \union (IF pc = "rest" THEN {} ELSE {running})
    /\ UNCHANGED << disk, running, intentOf, raw >>

Settle(r) ==
    \/ CreateDestination(r) \/ DebitSource(r) \/ CreditDestination(r)
    \/ RecordDebit(r) \/ RecordCredit(r)

Next ==
    \/ \E r \in Runs, i \in Intents : Instruct(r, i)
    \/ \E r \in Runs : TransferFails(r) \/ TransferSucceeds(r) \/ Settle(r)
    \/ \E r \in Runs : WriteTransactionId(r) \/ WriteStatus(r)
    \/ OtherWrite
    \/ Crash

Spec == Init /\ [][Next]_vars

-----------------------------------------------------------------------------
\* Properties.

States == { memory, disk }

Held(positions, a) == IF positions[a] = NoPosition THEN 0 ELSE positions[a]

Total(positions) ==
    SumOver([ a \in Accounts |-> Held(positions, a) ], Accounts)

Net(ledger, a) ==
    SumOver([ n \in 1..Len(ledger) |->
                IF ledger[n].account # a THEN 0
                ELSE IF ledger[n].type = "credit" THEN ledger[n].quantity
                ELSE -ledger[n].quantity ],
            1..Len(ledger))

\* What position a has beyond its opening and the entries about it.
Gap(state, a) ==
    Held(state.positions, a) - Held(Opening, a) - Net(state.ledger, a)

OnlyPays(a) == \A i \in Intents : IntentData[i].to # a

OnlyReceives(a) == \A i \in Intents : IntentData[i].from # a

\* Interruptions may lose quantity and never make any: the source is debited and
\* saved before the destination is credited, in memory as on the disk.
NeverInflated == \A state \in States : Total(state.positions) <= Total(Opening)

\* The ledger is never ahead of the positions: an entry is in memory or on the disk
\* only if the change of quantity it records is there too, wherever runs are
\* interrupted.
NothingBookedUnmoved ==
    \A state \in States, a \in Accounts :
        /\ OnlyPays(a) => Gap(state, a) <= 0
        /\ OnlyReceives(a) => Gap(state, a) >= 0

Booked(state, r) ==
    \E n \in 1..Len(state.ledger) - 1 :
        state.ledger[n] = Debit(r) /\ state.ledger[n + 1] = Credit(r)

\* An intent says executed, in memory or on the disk, only when debit and credit of
\* its transaction are there: a restart never finds a payment done and not booked.
ExecutedIsBooked ==
    \A state \in States, i \in Intents :
        state.intents[i].status = "executed" =>
            LET r == state.intents[i].transactionId
            IN  r \in Runs /\ intentOf[r] = i /\ Booked(state, r)

\* Between requests everything in memory is on the disk unless the last write
\* failed, changes made to objects that are no proxies included; and as long as
\* nothing was interrupted the positions are what the ledger says.
SavedAtRest ==
    /\ (pc = "rest" /\ ~torn) => disk = memory
    /\ (pc = "rest" /\ interrupted = {}) => \A a \in Accounts : Gap(disk, a) = 0

BookedRuns(state) == { state.ledger[n].transactionId : n \in 1..Len(state.ledger) }

\* An intent is in the ledger twice only when one of the runs was interrupted
\* between its first entry and the intent's status.
RepeatExplained ==
    \A state \in States : \A r, s \in BookedRuns(state) :
        (r # s /\ intentOf[r] = intentOf[s]) => { r, s } \intersect interrupted # {}

\* Positions and ledger change together ("Atomic commit: positions, ledger,
\* settlement", README.md): what a request finds when it starts agrees.
AtomicCommit == pc = "rest" => \A a \in Accounts : Gap(memory, a) = 0
=============================================================================
