---------------------- MODULE DurableSettlementProofs -----------------------
(***************************************************************************)
(* Theorems about DurableSettlement, for every number of accounts,         *)
(* intents, runs, crashes and failing writes.                              *)
(*                                                                         *)
(* Memory and disk are each a state the writes of some run led to, and     *)
(* what IInv claims of them is claimed of any such state: the argument     *)
(* never has to relate the two.  IInv adds what the place of the run under *)
(* way says of the entries it has written.                                 *)
(*                                                                         *)
(* BInv, on top of it, keeps the books: what every write leaves of the     *)
(* positions together and of the gap between positions and entries.        *)
(***************************************************************************)
EXTENDS DurableSettlement, SumLemmas, SequenceTheorems, TLAPS

Entries == [ transactionId : Runs, type : { "debit", "credit" }, account : Accounts,
             quantity : Nat ]

\* A state of the store.
Shape(state) ==
    /\ state = [ positions |-> state.positions, ledger |-> state.ledger,
                 instructions |-> state.instructions, intents |-> state.intents ]
    /\ state.ledger \in Seq(Entries)
    /\ state.instructions \in [ Runs -> { None, "pending", "failed", "settled" } ]
    /\ state.intents \in [ Intents -> [ status : IntentStatuses,
                                        transactionId : Runs \union {None} ] ]

\* The entries of run r when `owner` tells the intent of each run.
DebitOf(owner, r) ==
    [ transactionId |-> r, type |-> "debit", account |-> IntentData[owner[r]].from,
      quantity |-> IntentData[owner[r]].quantity ]

CreditOf(owner, r) ==
    [ transactionId |-> r, type |-> "credit", account |-> IntentData[owner[r]].to,
      quantity |-> IntentData[owner[r]].quantity ]

BookedIn(ledger, owner, r) ==
    \E n \in 1..Len(ledger) - 1 :
        ledger[n] = DebitOf(owner, r) /\ ledger[n + 1] = CreditOf(owner, r)

\* Every executed intent of the state has its entries.
Honest(state, owner) ==
    \A i \in Intents : state.intents[i].status = "executed" =>
        /\ state.intents[i].transactionId \in Runs
        /\ owner[state.intents[i].transactionId] = i
        /\ BookedIn(state.ledger, owner, state.intents[i].transactionId)

Sound(state, owner) == Shape(state) /\ Honest(state, owner)

\* What the next write of run r, which executes intent i, says of the state.
At(place, state, owner, r) ==
    /\ r \in Runs
    /\ owner[r] \in Intents
    /\ state.intents[owner[r]].status = "pending"
    /\ place = "credit entry" =>
            /\ Len(state.ledger) > 0
            /\ state.ledger[Len(state.ledger)] = DebitOf(owner, r)
    /\ (place \in { "transaction id", "status" } /\ state.instructions[r] = "settled") =>
            BookedIn(state.ledger, owner, r)
    /\ place = "status" => state.intents[owner[r]].transactionId = r

\* What a write makes of a state, named so that lemmas can speak of it.
Marked(state, r, mark) == [ state EXCEPT !.instructions[r] = mark ]

Named(state, i, r) == [ state EXCEPT !.intents[i].transactionId = r ]

Decide(state, i, decision) == [ state EXCEPT !.intents[i].status = decision ]

IInv ==
    /\ intentOf \in [ Runs -> Intents \union {None} ]
    /\ Sound(memory, intentOf)
    /\ Sound(disk, intentOf)
    /\ pc # "rest" => At(pc, memory, intentOf, running)

-----------------------------------------------------------------------------
\* Ledgers.

LEMMA EntriesOf ==
    ASSUME NEW owner, NEW r \in Runs, owner[r] \in Intents
    PROVE  DebitOf(owner, r) \in Entries /\ CreditOf(owner, r) \in Entries
BY DurableAssumption DEF DebitOf, CreditOf, Entries

LEMMA Appended ==
    ASSUME NEW ledger \in Seq(Entries), NEW entry \in Entries
    PROVE  /\ Append(ledger, entry) \in Seq(Entries)
           /\ Len(Append(ledger, entry)) = Len(ledger) + 1
           /\ Append(ledger, entry)[Len(ledger) + 1] = entry
           /\ \A n \in 1..Len(ledger) : Append(ledger, entry)[n] = ledger[n]
           /\ Len(ledger) \in Nat
OBVIOUS

LEMMA BookedStays ==
    ASSUME NEW ledger \in Seq(Entries), NEW entry \in Entries, NEW owner, NEW r,
           BookedIn(ledger, owner, r)
    PROVE  BookedIn(Append(ledger, entry), owner, r)
<1>1. PICK n \in 1..Len(ledger) - 1 :
        ledger[n] = DebitOf(owner, r) /\ ledger[n + 1] = CreditOf(owner, r)
    BY DEF BookedIn
<1> DEFINE longer == Append(ledger, entry)
<1>2. /\ n \in 1..Len(longer) - 1
      /\ longer[n] = ledger[n]
      /\ longer[n + 1] = ledger[n + 1]
    BY <1>1, Appended
<1> HIDE DEF longer
<1>3. QED
    BY <1>1, <1>2 DEF BookedIn, longer

LEMMA BookedByCredit ==
    ASSUME NEW ledger \in Seq(Entries), NEW owner, NEW r \in Runs, owner[r] \in Intents,
           Len(ledger) > 0, ledger[Len(ledger)] = DebitOf(owner, r)
    PROVE  BookedIn(Append(ledger, CreditOf(owner, r)), owner, r)
<1> DEFINE longer == Append(ledger, CreditOf(owner, r))
<1>1. /\ Len(ledger) \in 1..Len(longer) - 1
      /\ longer[Len(ledger)] = DebitOf(owner, r)
      /\ longer[Len(ledger) + 1] = CreditOf(owner, r)
    BY Appended, EntriesOf
<1> HIDE DEF longer
<1>2. QED
    BY <1>1 DEF BookedIn, longer

-----------------------------------------------------------------------------
\* A write leaves the state it makes in memory, and on the disk that state or the
\* one before; the run goes on or ends.
LEMMA WriteKeeps ==
    ASSUME IInv, NEW after, NEW next, NEW r \in Runs,
           Assign(after, next, r) \/ Push(after, next, r) \/ Unsaved(after, next),
           intentOf' = intentOf, running' = running, running = r,
           Sound(after, intentOf), At(next, after, intentOf, r) \/ next = "rest"
    PROVE  IInv'
<1>1. /\ memory' = after
      /\ disk' \in { disk, after }
      /\ pc' \in { next, "rest" }
    BY DEF Assign, Push, Unsaved, Saved, NotSaved
<1>2. QED
    BY <1>1 DEF IInv

\* A change of positions or of an instruction.
LEMMA BesideLedger ==
    ASSUME NEW state, NEW after, NEW owner, Sound(state, owner), Shape(after),
           after.ledger = state.ledger, after.intents = state.intents
    PROVE  Sound(after, owner)
BY DEF Sound, Honest

\* The mark of an instruction.
LEMMA InstructionWrite ==
    ASSUME NEW state, NEW owner, NEW r \in Runs,
           NEW mark \in { "pending", "failed", "settled" }, Sound(state, owner)
    PROVE  /\ Sound(Marked(state, r, mark), owner)
           /\ Marked(state, r, mark).ledger = state.ledger
           /\ Marked(state, r, mark).intents = state.intents
           /\ Marked(state, r, mark).instructions[r] = mark
<1> PICK after : after = Marked(state, r, mark) /\ after = [ state EXCEPT !.instructions[r] = mark ]
    BY DEF Marked
<1>1. Shape(state)
    BY DEF Sound
<1>2. DOMAIN state = { "positions", "ledger", "instructions", "intents" }
    BY <1>1 DEF Shape
<1>3. DOMAIN after = DOMAIN state
    OBVIOUS
<1>4. /\ after.positions = state.positions
      /\ after.ledger = state.ledger
      /\ after.intents = state.intents
      /\ after.instructions = [ state.instructions EXCEPT ![r] = mark ]
    BY <1>2
<1>5. after = [ positions |-> after.positions, ledger |-> after.ledger,
                instructions |-> after.instructions, intents |-> after.intents ]
    <2>1. after = [ state EXCEPT !.instructions = after.instructions ]
        BY <1>4
    <2>2. QED
        BY <1>1, <1>4, <2>1 DEF Shape
<1>6. after.instructions[r] = mark /\ Shape(after)
    BY <1>1, <1>4, <1>5 DEF Shape
<1>7. QED
    BY <1>4, <1>6, BesideLedger

\* The transaction of an intent.
LEMMA IdWrite ==
    ASSUME NEW state, NEW i \in Intents, NEW r \in Runs, Shape(state)
    PROVE  /\ Shape(Named(state, i, r))
           /\ Named(state, i, r).ledger = state.ledger
           /\ Named(state, i, r).instructions = state.instructions
           /\ Named(state, i, r).intents[i].status = state.intents[i].status
           /\ Named(state, i, r).intents[i].transactionId = r
           /\ \A j \in Intents \ {i} : Named(state, i, r).intents[j] = state.intents[j]
<1> PICK after : /\ after = Named(state, i, r)
                 /\ after = [ state EXCEPT !.intents[i].transactionId = r ]
    BY DEF Named
<1> DEFINE written == [ state.intents[i] EXCEPT !.transactionId = r ]
<1>1. DOMAIN state = { "positions", "ledger", "instructions", "intents" }
    BY DEF Shape
<1>2. DOMAIN after = DOMAIN state
    OBVIOUS
<1>3. /\ after.positions = state.positions
      /\ after.ledger = state.ledger
      /\ after.instructions = state.instructions
      /\ after.intents = [ state.intents EXCEPT ![i] = written ]
    BY <1>1
<1>4. after = [ positions |-> after.positions, ledger |-> after.ledger,
                instructions |-> after.instructions, intents |-> after.intents ]
    <2>1. after = [ state EXCEPT !.intents = after.intents ]
        BY <1>3
    <2>2. QED
        BY <1>3, <2>1 DEF Shape
<1>5. /\ written \in [ status : IntentStatuses, transactionId : Runs \union {None} ]
      /\ written.status = state.intents[i].status
      /\ written.transactionId = r
    BY DEF Shape
<1> HIDE DEF written
<1>6. after.intents[i] = written /\ \A j \in Intents \ {i} : after.intents[j] = state.intents[j]
    BY <1>3 DEF Shape
<1>7. Shape(after)
    BY <1>3, <1>4, <1>5 DEF Shape
<1>8. QED
    BY <1>3, <1>5, <1>6, <1>7

\* The status of an intent.
LEMMA StatusWrite ==
    ASSUME NEW state, NEW i \in Intents, NEW decision \in IntentStatuses, Shape(state)
    PROVE  /\ Shape(Decide(state, i, decision))
           /\ Decide(state, i, decision).ledger = state.ledger
           /\ Decide(state, i, decision).instructions = state.instructions
           /\ Decide(state, i, decision).intents[i].status = decision
           /\ Decide(state, i, decision).intents[i].transactionId = state.intents[i].transactionId
           /\ \A j \in Intents \ {i} : Decide(state, i, decision).intents[j] = state.intents[j]
<1> PICK after : /\ after = Decide(state, i, decision)
                 /\ after = [ state EXCEPT !.intents[i].status = decision ]
    BY DEF Decide
<1> DEFINE written == [ state.intents[i] EXCEPT !.status = decision ]
<1>1. DOMAIN state = { "positions", "ledger", "instructions", "intents" }
    BY DEF Shape
<1>2. DOMAIN after = DOMAIN state
    OBVIOUS
<1>3. /\ after.positions = state.positions
      /\ after.ledger = state.ledger
      /\ after.instructions = state.instructions
      /\ after.intents = [ state.intents EXCEPT ![i] = written ]
    BY <1>1
<1>4. after = [ positions |-> after.positions, ledger |-> after.ledger,
                instructions |-> after.instructions, intents |-> after.intents ]
    <2>1. after = [ state EXCEPT !.intents = after.intents ]
        BY <1>3
    <2>2. QED
        BY <1>3, <2>1 DEF Shape
<1>5. /\ written \in [ status : IntentStatuses, transactionId : Runs \union {None} ]
      /\ written.status = decision
      /\ written.transactionId = state.intents[i].transactionId
    BY DEF Shape
<1> HIDE DEF written
<1>6. after.intents[i] = written /\ \A j \in Intents \ {i} : after.intents[j] = state.intents[j]
    BY <1>3 DEF Shape
<1>7. Shape(after)
    BY <1>3, <1>4, <1>5 DEF Shape
<1>8. QED
    BY <1>3, <1>5, <1>6, <1>7

\* One more entry.
LEMMA LongerLedger ==
    ASSUME NEW state, NEW after, NEW owner, NEW entry \in Entries, Sound(state, owner),
           after = [ state EXCEPT !.ledger = Append(@, entry) ]
    PROVE  Sound(after, owner)
<1>1. /\ state.ledger \in Seq(Entries)
      /\ after.ledger = Append(state.ledger, entry)
      /\ after.intents = state.intents
      /\ after.instructions = state.instructions
      /\ after = [ positions |-> after.positions, ledger |-> after.ledger,
                   instructions |-> after.instructions, intents |-> after.intents ]
    BY DEF Sound, Shape
<1>2. Shape(after)
    BY <1>1, Appended DEF Sound, Shape
<1>3. Honest(after, owner)
    BY <1>1, BookedStays DEF Sound, Honest
<1>4. QED
    BY <1>2, <1>3 DEF Sound

-----------------------------------------------------------------------------
\* Every action keeps the invariant.

LEMMA InitIInv == Init => IInv
<1> SUFFICES ASSUME Init PROVE IInv
    OBVIOUS
<1>1. /\ Start.ledger = << >>
      /\ Start.instructions = [ r \in Runs |-> None ]
      /\ Start.intents = [ i \in Intents |-> [ status |-> "pending", transactionId |-> None ] ]
      /\ Start = [ positions |-> Start.positions, ledger |-> Start.ledger,
                   instructions |-> Start.instructions, intents |-> Start.intents ]
    BY DEF Start
<1>2. Start.ledger \in Seq(Entries)
    BY <1>1, EmptySeq
<1>3. Shape(Start)
    BY <1>1, <1>2 DEF Shape, IntentStatuses
<1>4. Honest(Start, intentOf)
    BY <1>1 DEF Honest
<1>5. QED
    BY <1>3, <1>4 DEF Init, IInv, Sound

\* A run that begins owns no entry and no intent, so what held of the others'
\* entries still holds.
LEMMA NewOwner ==
    ASSUME NEW state, NEW owner \in [ Runs -> Intents \union {None} ], NEW r \in Runs,
           NEW i \in Intents, owner[r] = None, Sound(state, owner)
    PROVE  Sound(state, [ owner EXCEPT ![r] = i ])
<1> DEFINE now == [ owner EXCEPT ![r] = i ]
<1>1. ASSUME NEW s \in Runs, owner[s] \in Intents
      PROVE  /\ now[s] = owner[s]
             /\ DebitOf(now, s) = DebitOf(owner, s)
             /\ CreditOf(now, s) = CreditOf(owner, s)
    <2>1. now[s] = owner[s]
        BY <1>1, DurableAssumption
    <2>2. QED
        BY <2>1 DEF DebitOf, CreditOf
<1> HIDE DEF now
<1>2. Honest(state, now)
    BY <1>1 DEF Sound, Honest, BookedIn
<1>3. QED
    BY <1>2 DEF Sound, now

LEMMA InstructIInv ==
    ASSUME IInv, NEW r \in Runs, NEW i \in Intents, Instruct(r, i)
    PROVE  IInv'
<1> DEFINE after == Marked(memory, r, "pending")
<1>1. /\ intentOf[r] = None
      /\ intentOf' = [ intentOf EXCEPT ![r] = i ]
      /\ running' = r
      /\ Executable(i)
      /\ Push(after, "transfer", r)
    BY DEF Instruct, Marked
<1>2. /\ memory' = after
      /\ disk' \in { disk, after }
      /\ pc' \in { "transfer", "rest" }
    BY <1>1 DEF Push, Assign, Saved, NotSaved
<1>3. /\ Sound(after, intentOf)
      /\ after.ledger = memory.ledger
      /\ after.intents = memory.intents
      /\ after.instructions[r] = "pending"
    BY InstructionWrite DEF IInv
<1>4. intentOf' \in [ Runs -> Intents \union {None} ] /\ intentOf'[r] = i
    BY <1>1 DEF IInv
<1>5. Sound(after, intentOf') /\ Sound(disk, intentOf')
    BY <1>1, <1>3, NewOwner DEF IInv
<1>6. memory.intents[i].status = "pending"
    BY <1>1 DEF Executable, IInv, Sound, Shape, IntentStatuses
<1>7. At("transfer", after, intentOf', r)
    BY <1>3, <1>4, <1>6 DEF At
<1> HIDE DEF after
<1>8. QED
    BY <1>1, <1>2, <1>4, <1>5, <1>7 DEF IInv

LEMMA TransferIInv ==
    ASSUME IInv, NEW r \in Runs, TransferFails(r) \/ TransferSucceeds(r)
    PROVE  IInv'
<1>1. PICK outcome \in { "failed", "settled" },
           next \in { "transaction id", "destination", "debit" } :
        /\ Unsaved(Marked(memory, r, outcome), next)
        /\ next = "transaction id" => outcome = "failed"
    BY DEF TransferFails, TransferSucceeds, Marked
<1> DEFINE after == Marked(memory, r, outcome)
<1>2. /\ r = running
      /\ running' = running
      /\ intentOf' = intentOf
      /\ At(pc, memory, intentOf, r)
    BY DEF TransferFails, TransferSucceeds, IInv
<1>3. /\ Sound(after, intentOf)
      /\ after.ledger = memory.ledger
      /\ after.intents = memory.intents
      /\ after.instructions[r] = outcome
    <2>1. Sound(memory, intentOf) /\ outcome \in { "pending", "failed", "settled" }
        BY DEF IInv
    <2>2. QED
        BY <2>1, InstructionWrite
<1>4. At(next, after, intentOf, r)
    BY <1>1, <1>2, <1>3 DEF At
<1> HIDE DEF after
<1>5. QED
    BY <1>1, <1>2, <1>3, <1>4, WriteKeeps DEF after

\* A write of a position, whatever its account and its quantity.
LEMMA PositionWriteIInv ==
    ASSUME IInv, NEW r \in Runs, NEW after,
           NEW next \in { "debit", "credit", "debit entry" },
           after = [ memory EXCEPT !.positions = after.positions ],
           Assign(after, next, r) \/ Push(after, next, r) \/ Unsaved(after, next),
           pc # "rest", r = running, running' = running, intentOf' = intentOf
    PROVE  IInv'
<1>1. /\ after.ledger = memory.ledger
      /\ after.intents = memory.intents
      /\ after.instructions = memory.instructions
      /\ after = [ positions |-> after.positions, ledger |-> after.ledger,
                   instructions |-> after.instructions, intents |-> after.intents ]
    BY DEF IInv, Sound, Shape
<1>2. Shape(after)
    BY <1>1 DEF IInv, Sound, Shape
<1>3. Sound(after, intentOf)
    BY <1>1, <1>2, BesideLedger DEF IInv
<1>4. At(next, after, intentOf, r)
    BY <1>1 DEF IInv, At
<1>5. QED
    BY <1>3, <1>4, WriteKeeps

LEMMA MoveIInv ==
    ASSUME IInv, NEW r \in Runs,
           CreateDestination(r) \/ DebitSource(r) \/ CreditDestination(r)
    PROVE  IInv'
<1>1. /\ pc # "rest"
      /\ r = running
      /\ running' = running
      /\ intentOf' = intentOf
      /\ "positions" \in DOMAIN memory
    BY DEF CreateDestination, DebitSource, CreditDestination, IInv, Sound, Shape
<1>2. CASE CreateDestination(r)
    <2> DEFINE after == [ memory EXCEPT !.positions[Destination(r)] = 0 ]
    <2>1. Push(after, "debit", r)
        BY <1>2 DEF CreateDestination
    <2>2. after = [ memory EXCEPT !.positions = after.positions ]
        BY <1>1
    <2> HIDE DEF after
    <2>3. QED
        BY <1>1, <2>1, <2>2, PositionWriteIInv
<1>3. CASE DebitSource(r)
    <2> DEFINE after == [ memory EXCEPT !.positions[Source(r)] = @ - Quantity(r) ]
    <2>1. Assign(after, "credit", r)
        BY <1>3 DEF DebitSource
    <2>2. after = [ memory EXCEPT !.positions = after.positions ]
        BY <1>1
    <2> HIDE DEF after
    <2>3. QED
        BY <1>1, <2>1, <2>2, PositionWriteIInv
<1>4. CASE CreditDestination(r)
    <2> DEFINE after == [ memory EXCEPT !.positions[Destination(r)] = @ + Quantity(r) ]
    <2>1. Unsaved(after, "debit entry") \/ Assign(after, "debit entry", r)
        BY <1>4 DEF CreditDestination
    <2>2. after = [ memory EXCEPT !.positions = after.positions ]
        BY <1>1
    <2> HIDE DEF after
    <2>3. QED
        BY <1>1, <2>1, <2>2, PositionWriteIInv
<1>5. QED
    BY <1>2, <1>3, <1>4

LEMMA RecordDebitIInv ==
    ASSUME IInv, NEW r \in Runs, RecordDebit(r)
    PROVE  IInv'
<1> DEFINE after == [ memory EXCEPT !.ledger = Append(@, Debit(r)) ]
<1>1. /\ r = running
      /\ running' = running
      /\ intentOf' = intentOf
      /\ Assign(after, "credit entry", r)
      /\ At(pc, memory, intentOf, r)
    BY DEF RecordDebit, IInv
<1>2. Debit(r) = DebitOf(intentOf, r) /\ Debit(r) \in Entries
    BY <1>1, EntriesOf DEF Debit, Entry, DebitOf, Source, Quantity, At
<1>3. Sound(after, intentOf)
    BY <1>2, LongerLedger DEF IInv
<1>4. /\ after.ledger = Append(memory.ledger, Debit(r))
      /\ after.intents = memory.intents
      /\ memory.ledger \in Seq(Entries)
    BY DEF IInv, Sound, Shape
<1>5. Len(after.ledger) > 0 /\ after.ledger[Len(after.ledger)] = Debit(r)
    BY <1>2, <1>4, Appended
<1>6. At("credit entry", after, intentOf, r)
    BY <1>1, <1>2, <1>4, <1>5 DEF At
<1> HIDE DEF after
<1>7. QED
    BY <1>1, <1>3, <1>6, WriteKeeps

LEMMA RecordCreditIInv ==
    ASSUME IInv, NEW r \in Runs, RecordCredit(r)
    PROVE  IInv'
<1> DEFINE after == [ memory EXCEPT !.ledger = Append(@, Credit(r)) ]
<1>1. /\ r = running
      /\ running' = running
      /\ intentOf' = intentOf
      /\ Push(after, "transaction id", r)
      /\ At("credit entry", memory, intentOf, r)
    BY DEF RecordCredit, IInv
<1>2. Credit(r) = CreditOf(intentOf, r) /\ Credit(r) \in Entries
    BY <1>1, EntriesOf DEF Credit, Entry, CreditOf, Destination, Quantity, At
<1>3. Sound(after, intentOf)
    BY <1>2, LongerLedger DEF IInv
<1>4. /\ after.ledger = Append(memory.ledger, Credit(r))
      /\ after.intents = memory.intents
      /\ memory.ledger \in Seq(Entries)
    BY DEF IInv, Sound, Shape
<1>5. BookedIn(after.ledger, intentOf, r)
    BY <1>1, <1>2, <1>4, BookedByCredit DEF At
<1>6. At("transaction id", after, intentOf, r)
    BY <1>1, <1>4, <1>5 DEF At
<1> HIDE DEF after
<1>7. QED
    BY <1>1, <1>3, <1>6, WriteKeeps

\* The identifier of its transaction, in an intent that is not decided yet.
LEMMA WriteTransactionIdIInv ==
    ASSUME IInv, NEW r \in Runs, WriteTransactionId(r)
    PROVE  IInv'
<1> DEFINE after == Named(memory, intentOf[r], r)
<1>1. Push(after, "status", r)
    BY DEF WriteTransactionId, Named
<1>2. /\ r = running
      /\ running' = running
      /\ intentOf' = intentOf
      /\ At("transaction id", memory, intentOf, r)
    BY DEF WriteTransactionId, IInv
<1>3. intentOf[r] \in Intents /\ memory.intents[intentOf[r]].status = "pending"
    BY <1>2 DEF At
<1>4. Sound(memory, intentOf) /\ Shape(memory)
    BY DEF IInv, Sound
<1>5. /\ Shape(after)
      /\ after.ledger = memory.ledger
      /\ after.instructions = memory.instructions
      /\ after.intents[intentOf[r]].status = "pending"
      /\ after.intents[intentOf[r]].transactionId = r
      /\ \A j \in Intents \ {intentOf[r]} : after.intents[j] = memory.intents[j]
    BY <1>3, <1>4, IdWrite
<1>6. Honest(after, intentOf)
    BY <1>4, <1>5 DEF Sound, Honest
<1>7. At("status", after, intentOf, r)
    BY <1>2, <1>3, <1>5 DEF At
<1> HIDE DEF after
<1>8. QED
    BY <1>1, <1>2, <1>5, <1>6, <1>7, WriteKeeps DEF Sound

\* The decision: executed when the instruction is settled, and then the entries of
\* the run are there.
LEMMA WriteStatusIInv ==
    ASSUME IInv, NEW r \in Runs, WriteStatus(r)
    PROVE  IInv'
<1> DEFINE decision == IF memory.instructions[r] = "settled" THEN "executed" ELSE "failed"
           after == Decide(memory, intentOf[r], decision)
<1>1. Assign(after, "rest", r)
    BY DEF WriteStatus, Outcome, IntentAfter, CanTransitionIntent, IntentTransitions, Decide
<1>2. /\ r = running
      /\ running' = running
      /\ intentOf' = intentOf
      /\ At("status", memory, intentOf, r)
    BY DEF WriteStatus, IInv
<1>3. intentOf[r] \in Intents /\ decision \in IntentStatuses
    BY <1>2 DEF At, IntentStatuses
<1>4. Sound(memory, intentOf) /\ Shape(memory)
    BY DEF IInv, Sound
<1>5. /\ decision = "executed" => BookedIn(memory.ledger, intentOf, r)
      /\ memory.intents[intentOf[r]].transactionId = r
    BY <1>2 DEF At
<1> HIDE DEF decision
<1>6. /\ Shape(after)
      /\ after.ledger = memory.ledger
      /\ after.intents[intentOf[r]].status = decision
      /\ after.intents[intentOf[r]].transactionId
            = memory.intents[intentOf[r]].transactionId
      /\ \A j \in Intents \ {intentOf[r]} : after.intents[j] = memory.intents[j]
    BY <1>3, <1>4, StatusWrite
<1>7. Honest(after, intentOf)
    BY <1>4, <1>5, <1>6 DEF Sound, Honest
<1> HIDE DEF after
<1>8. QED
    BY <1>1, <1>2, <1>6, <1>7, WriteKeeps DEF Sound

LEMMA NextIInv == IInv /\ [Next]_vars => IInv'
<1> SUFFICES ASSUME IInv, [Next]_vars PROVE IInv'
    OBVIOUS
<1>1. ASSUME NEW r \in Runs, NEW i \in Intents, Instruct(r, i) PROVE IInv'
    BY <1>1, InstructIInv
<1>2. ASSUME NEW r \in Runs, TransferFails(r) \/ TransferSucceeds(r) \/ Settle(r) PROVE IInv'
    BY <1>2, TransferIInv, MoveIInv, RecordDebitIInv, RecordCreditIInv DEF Settle
<1>3. ASSUME NEW r \in Runs, WriteTransactionId(r) \/ WriteStatus(r) PROVE IInv'
    BY <1>3, WriteTransactionIdIInv, WriteStatusIInv
<1>4. CASE OtherWrite
    BY <1>4 DEF OtherWrite, IInv
<1>5. CASE Crash
    BY <1>5 DEF Crash, IInv
<1>6. CASE UNCHANGED vars
    BY <1>6 DEF vars, IInv
<1>7. QED
    BY <1>1, <1>2, <1>3, <1>4, <1>5, <1>6 DEF Next

\* In memory as on the disk, an executed intent has the debit and the credit of its
\* transaction, wherever crashes and failing writes interrupt runs
\* (intentExecutionEngine.ts writes the status last).
THEOREM ExecutedIntentsAreBooked == Spec => []ExecutedIsBooked
<1>1. ASSUME IInv, NEW state \in States, NEW i \in Intents,
             state.intents[i].status = "executed"
      PROVE  LET r == state.intents[i].transactionId
             IN  r \in Runs /\ intentOf[r] = i /\ Booked(state, r)
    <2> DEFINE r == state.intents[i].transactionId
    <2>1. Honest(state, intentOf)
        BY <1>1 DEF IInv, States, Sound
    <2>2. r \in Runs /\ intentOf[r] = i /\ BookedIn(state.ledger, intentOf, r)
        BY <1>1, <2>1 DEF Honest
    <2>3. Debit(r) = DebitOf(intentOf, r) /\ Credit(r) = CreditOf(intentOf, r)
        BY DEF Debit, Credit, Entry, DebitOf, CreditOf, Source, Destination, Quantity
    <2> HIDE DEF r
    <2>4. QED
        BY <2>2, <2>3 DEF BookedIn, Booked, r
<1>2. IInv => ExecutedIsBooked
    BY <1>1 DEF ExecutedIsBooked
<1>3. QED
    BY <1>2, InitIInv, NextIInv, PTL DEF Spec

-----------------------------------------------------------------------------
\* The books: what positions, ledger, disk and the runs' ends have to do with each
\* other.

Quantities == [ Accounts -> Int \union {NoPosition} ]

\* What a run of intent i takes from account a, and what it gives to it.
Paid(i, a) == IF a = IntentData[i].from THEN IntentData[i].quantity ELSE 0

Received(i, a) == IF a = IntentData[i].to THEN IntentData[i].quantity ELSE 0

\* What it has moved of account a and not booked yet when `place` is its next write.
PaidBefore(place, i, a) ==
    IF place \in { "credit", "debit entry" } THEN Paid(i, a) ELSE 0

ReceivedBefore(place, i, a) ==
    IF place \in { "debit entry", "credit entry" } THEN Received(i, a) ELSE 0

Unbooked(place, i, a) == ReceivedBefore(place, i, a) - PaidBefore(place, i, a)

\* What it has taken from its source and not given to its destination.
InTransit(place, i) == IF place = "credit" THEN IntentData[i].quantity ELSE 0

\* A gap that interruptions may leave in the books of account a.
Allowed(gap, a) == (OnlyPays(a) => gap <= 0) /\ (OnlyReceives(a) => gap >= 0)

\* What any state, of memory or of the disk, is left with.
Left(state) ==
    /\ state.positions \in Quantities
    /\ Total(state.positions) <= Total(Opening)
    /\ \A a \in Accounts : Allowed(Gap(state, a), a)

\* The positions that the writes to come of a run of intent i change are there.
Ready(state, place, i) ==
    /\ state.positions[IntentData[i].from] # NoPosition
    /\ place = "destination" => state.positions[IntentData[i].to] = NoPosition
    /\ place \in { "debit", "credit" } => state.positions[IntentData[i].to] # NoPosition

\* What memory has while a run is under way, but for what the run has moved.
Underway(state, place, i) ==
    /\ Total(state.positions) + InTransit(place, i) <= Total(Opening)
    /\ \A a \in Accounts : Allowed(Gap(state, a) - Unbooked(place, i, a), a)
    /\ Ready(state, place, i)

Books ==
    /\ Left(memory)
    /\ Left(disk)
    /\ pc # "rest" => Underway(memory, pc, intentOf[running])
    /\ interrupted = {} => \A a \in Accounts :
            Gap(memory, a) = IF pc = "rest" THEN 0 ELSE Unbooked(pc, intentOf[running], a)

\* At rest the disk lacks at most a write that failed.
Saves ==
    /\ (pc = "rest" /\ ~torn) => disk = memory
    /\ torn => interrupted # {}

\* Run r came to its end without an interruption.
Finished(r) ==
    /\ intentOf[r] # None
    /\ r \notin interrupted
    /\ pc = "rest" \/ running # r

\* A finished run has decided its intent, so no other run begins with it.
Once ==
    /\ \A state \in States : \A r \in BookedRuns(state) : intentOf[r] # None
    /\ \A state \in States, r \in Runs :
            Finished(r) => state.intents[intentOf[r]].status # "pending"
    /\ \A r, s \in Runs : (r # s /\ intentOf[r] # None /\ intentOf[r] = intentOf[s]) =>
            { r, s } \intersect interrupted # {}

BInv == Books /\ Saves /\ Once

\* What every write of a run under way has in common: it makes `after` of memory,
\* and `next` is the write that follows.
Advances(after, next, r) ==
    /\ r \in Runs /\ r = running /\ pc # "rest"
    /\ running' = running /\ intentOf' = intentOf
    /\ Assign(after, next, r) \/ Push(after, next, r) \/ (next # "rest" /\ Unsaved(after, next))
    /\ after.positions \in Quantities
    /\ Total(after.positions) + InTransit(next, intentOf[r])
          = Total(memory.positions) + InTransit(pc, intentOf[r])
    /\ \A a \in Accounts :
            Gap(after, a) - Unbooked(next, intentOf[r], a)
                = Gap(memory, a) - Unbooked(pc, intentOf[r], a)
    /\ next # "rest" => Ready(after, next, intentOf[r])
    /\ next = "rest" => after.intents[intentOf[r]].status # "pending"
    /\ \A i \in Intents :
            memory.intents[i].status # "pending" => after.intents[i].status # "pending"
    /\ BookedRuns(after) \subseteq BookedRuns(memory) \union {r}

-----------------------------------------------------------------------------
\* Sums of positions and of entries.

LEMMA HeldType ==
    ASSUME NEW positions \in Quantities, NEW a \in Accounts
    PROVE  Held(positions, a) \in Int
BY DEF Held, Quantities

LEMMA TotalType ==
    ASSUME NEW positions \in Quantities
    PROVE  Total(positions) \in Int
<1> DEFINE held == [ a \in Accounts |-> Held(positions, a) ]
<1>1. IsFiniteSet(Accounts)
    BY DurableAssumption
<1>2. \A a \in Accounts : held[a] \in Int
    BY HeldType
<1> HIDE DEF held
<1>3. SumOver(held, Accounts) \in Int
    BY <1>1, <1>2, SumType
<1>4. QED
    BY <1>3 DEF Total, held

\* One position changes the total by as much as it changes.
LEMMA TotalWrite ==
    ASSUME NEW positions \in Quantities, NEW b \in Accounts, NEW quantity \in Int,
           NEW after, after = [ positions EXCEPT ![b] = quantity ]
    PROVE  /\ after \in Quantities
           /\ Held(after, b) = quantity
           /\ \A a \in Accounts \ {b} : Held(after, a) = Held(positions, a)
           /\ Total(after) = Total(positions) - Held(positions, b) + quantity
<1> DEFINE f == [ a \in Accounts |-> Held(positions, a) ]
           g == [ a \in Accounts |-> Held(after, a) ]
<1>1. after \in Quantities
    BY DEF Quantities
<1>2. Held(after, b) = quantity
    BY DurableAssumption DEF Held, Quantities
<1>3. \A a \in Accounts \ {b} : Held(after, a) = Held(positions, a)
    BY DEF Held, Quantities
<1>4. /\ \A a \in Accounts : f[a] \in Int
      /\ \A a \in Accounts : g[a] \in Int
      /\ \A a \in Accounts \ {b} : f[a] = g[a]
      /\ f[b] = Held(positions, b)
      /\ g[b] = quantity
    BY <1>1, <1>2, <1>3, HeldType
<1>5. IsFiniteSet(Accounts)
    BY DurableAssumption
<1>6. Total(positions) = SumOver(f, Accounts) /\ Total(after) = SumOver(g, Accounts)
    BY DEF Total
<1> HIDE DEF f, g
<1>7. SumOver(g, Accounts) = SumOver(f, Accounts) - f[b] + g[b]
    BY <1>4, <1>5, SumChange
<1>8. QED
    BY <1>1, <1>2, <1>3, <1>4, <1>6, <1>7

\* What one entry adds to the net of account a.
Effect(entry, a) ==
    IF entry.account # a THEN 0
    ELSE IF entry.type = "credit" THEN entry.quantity ELSE -entry.quantity

Effects(ledger, a) == [ n \in 1..Len(ledger) |-> Effect(ledger[n], a) ]

LEMMA NetDef ==
    ASSUME NEW ledger, NEW a
    PROVE  Net(ledger, a) = SumOver(Effects(ledger, a), 1..Len(ledger))
BY DEF Net, Effects, Effect

LEMMA EffectType ==
    ASSUME NEW entry \in Entries, NEW a
    PROVE  Effect(entry, a) \in Int
BY DEF Effect, Entries

LEMMA NetType ==
    ASSUME NEW ledger \in Seq(Entries), NEW a
    PROVE  Net(ledger, a) \in Int
<1>1. \A n \in 1..Len(ledger) : Effects(ledger, a)[n] \in Int
    BY EffectType DEF Effects
<1>2. IsFiniteSet(1..Len(ledger))
    BY FS_Interval
<1>3. QED
    BY <1>1, <1>2, NetDef, SumType

LEMMA NetAppend ==
    ASSUME NEW ledger \in Seq(Entries), NEW entry \in Entries, NEW a
    PROVE  Net(Append(ledger, entry), a) = Net(ledger, a) + Effect(entry, a)
<1> DEFINE longer == Append(ledger, entry)
           n == Len(ledger)
           f == Effects(longer, a)
<1>1. n \in Nat /\ Len(longer) = n + 1 /\ longer \in Seq(Entries)
    BY Appended
<1>2. /\ \A k \in 1..n + 1 : f[k] \in Int
      /\ f[n + 1] = Effect(entry, a)
      /\ \A k \in 1..n : f[k] = Effects(ledger, a)[k]
    BY <1>1, EffectType, Appended DEF Effects
<1>3. Net(longer, a) = SumOver(f, 1..n + 1)
    BY <1>1, NetDef
<1>4. IsFiniteSet(1..n)
    BY <1>1, FS_Interval
<1> HIDE DEF f, longer, n
<1>5. SumOver(f, 1..n + 1) = SumOver(f, 1..n) + f[n + 1]
    BY <1>1, <1>2, SumAppend
<1>6. SumOver(f, 1..n) = SumOver(Effects(ledger, a), 1..n)
    BY <1>2, <1>4, SumSame
<1>7. SumOver(Effects(ledger, a), 1..n) = Net(ledger, a)
    BY NetDef DEF n
<1>8. QED
    BY <1>2, <1>3, <1>5, <1>6, <1>7 DEF longer

LEMMA GapType ==
    ASSUME NEW state, state.positions \in Quantities, state.ledger \in Seq(Entries),
           NEW a \in Accounts
    PROVE  /\ Gap(state, a) \in Int
           /\ Gap(state, a) = Held(state.positions, a) - Held(Opening, a) - Net(state.ledger, a)
           /\ Held(state.positions, a) \in Int
           /\ Held(Opening, a) \in Int
           /\ Net(state.ledger, a) \in Int
<1>1. Opening \in Quantities
    BY DurableAssumption DEF Quantities
<1>2. QED
    BY <1>1, HeldType, NetType DEF Gap

\* The booked runs of a ledger that has one more entry.
LEMMA BookedRunsAppend ==
    ASSUME NEW state, NEW after, NEW entry \in Entries, state.ledger \in Seq(Entries),
           after.ledger = Append(state.ledger, entry)
    PROVE  BookedRuns(after) \subseteq BookedRuns(state) \union { entry.transactionId }
BY Appended DEF BookedRuns

-----------------------------------------------------------------------------
\* A write of a run under way keeps the books.

LEMMA Amounts ==
    ASSUME NEW i \in Intents
    PROVE  /\ IntentData[i].from \in Accounts
           /\ IntentData[i].to \in Accounts
           /\ IntentData[i].quantity \in Nat \ {0}
           /\ \A a : Paid(i, a) \in Nat /\ Received(i, a) \in Nat
           /\ \A place, a : /\ PaidBefore(place, i, a) \in Nat
                             /\ ReceivedBefore(place, i, a) \in Nat
                             /\ Unbooked(place, i, a) \in Int
           /\ \A place : InTransit(place, i) \in Nat
<1>1. /\ IntentData[i].from \in Accounts
      /\ IntentData[i].to \in Accounts
      /\ IntentData[i].quantity \in Nat \ {0}
    BY DurableAssumption
<1>2. \A a : Paid(i, a) \in Nat /\ Received(i, a) \in Nat
    BY <1>1 DEF Paid, Received
<1>3. \A place, a : PaidBefore(place, i, a) \in Nat /\ ReceivedBefore(place, i, a) \in Nat
    BY <1>2 DEF PaidBefore, ReceivedBefore
<1>4. \A place : InTransit(place, i) \in Nat
    BY <1>1 DEF InTransit
<1>5. QED
    BY <1>1, <1>2, <1>3, <1>4 DEF Unbooked

LEMMA RunUnderway ==
    ASSUME IInv, pc # "rest"
    PROVE  running \in Runs /\ intentOf[running] \in Intents
BY DEF IInv, At

\* An account that only pays owes nothing it received, and the other way round.
LEMMA OneSided ==
    ASSUME NEW i \in Intents, NEW place, NEW a \in Accounts
    PROVE  Allowed(Unbooked(place, i, a), a)
<1>1. OnlyPays(a) => ReceivedBefore(place, i, a) = 0
    BY DEF OnlyPays, Received, ReceivedBefore
<1>2. OnlyReceives(a) => PaidBefore(place, i, a) = 0
    BY DEF OnlyReceives, Paid, PaidBefore
<1>3. ReceivedBefore(place, i, a) \in Nat /\ PaidBefore(place, i, a) \in Nat
    BY Amounts
<1>4. QED
    BY <1>1, <1>2, <1>3 DEF Allowed, Unbooked

LEMMA AdvanceBooks ==
    ASSUME IInv, IInv', Books, NEW after, NEW next, NEW r, Advances(after, next, r)
    PROVE  Books'
<1>1. PICK i \in Intents : i = intentOf[r]
    BY RunUnderway DEF Advances
<1>2. /\ memory' = after
      /\ disk' \in { disk, after }
      /\ pc' \in { next, "rest" }
      /\ pc' # next => interrupted' # {}
      /\ interrupted \subseteq interrupted'
      /\ r = running /\ running' = r /\ intentOf' = intentOf /\ pc # "rest"
    BY DEF Advances, Assign, Push, Unsaved, Saved, NotSaved
<1>3. /\ memory.positions \in Quantities
      /\ after.positions \in Quantities
      /\ memory.ledger \in Seq(Entries)
      /\ after.ledger \in Seq(Entries)
    BY <1>2 DEF Advances, Books, Left, IInv, Sound, Shape
<1>4. /\ Total(memory.positions) \in Int
      /\ Total(after.positions) \in Int
      /\ Total(Opening) \in Int
    <2>1. Opening \in Quantities
        BY DurableAssumption DEF Quantities
    <2>2. QED
        BY <1>3, <2>1, TotalType
<1>5. Underway(memory, pc, i)
    BY <1>1, <1>2 DEF Books
<1>6. Total(after.positions) + InTransit(next, i) <= Total(Opening)
    BY <1>1, <1>5 DEF Underway, Advances
<1>7. Total(after.positions) <= Total(Opening)
    <2>1. InTransit(next, i) \in Nat
        BY Amounts
    <2>2. QED
        BY <1>4, <1>6, <2>1
<1>8. ASSUME NEW a \in Accounts
      PROVE  /\ Allowed(Gap(after, a) - Unbooked(next, i, a), a)
             /\ Allowed(Gap(after, a), a)
    <2>1. Allowed(Gap(after, a) - Unbooked(next, i, a), a)
        BY <1>1, <1>5 DEF Underway, Advances
    <2>2. Gap(after, a) \in Int /\ Unbooked(next, i, a) \in Int
        BY <1>3, GapType, Amounts
    <2>3. Allowed(Unbooked(next, i, a), a)
        BY OneSided
    <2>4. QED
        BY <2>1, <2>2, <2>3 DEF Allowed
<1>9. Left(after)
    BY <1>3, <1>7, <1>8 DEF Left
<1>10. next # "rest" => Underway(after, next, i)
    BY <1>1, <1>6, <1>8 DEF Underway, Advances
<1>11. ASSUME interrupted = {}, NEW a \in Accounts
       PROVE  Gap(after, a) = IF next = "rest" THEN 0 ELSE Unbooked(next, i, a)
    <2>1. Gap(memory, a) = Unbooked(pc, i, a)
        BY <1>1, <1>2, <1>11 DEF Books
    <2>2. Gap(after, a) - Unbooked(next, i, a) = Gap(memory, a) - Unbooked(pc, i, a)
        BY <1>1 DEF Advances
    <2>3. Gap(after, a) \in Int /\ Unbooked(next, i, a) \in Int /\ Unbooked(pc, i, a) \in Int
        BY <1>3, GapType, Amounts
    <2>4. next = "rest" => Unbooked(next, i, a) = 0
        BY DEF Unbooked, PaidBefore, ReceivedBefore
    <2>5. QED
        BY <2>1, <2>2, <2>3, <2>4
<1>12. Left(memory') /\ Left(disk')
    BY <1>2, <1>9 DEF Books
<1>13. pc' # "rest" => Underway(memory', pc', i)
    BY <1>2, <1>10
<1>14. ASSUME interrupted' = {}, NEW a \in Accounts
       PROVE  Gap(memory', a) = IF pc' = "rest" THEN 0 ELSE Unbooked(pc', i, a)
    BY <1>2, <1>11, <1>14
<1>15. QED
    BY <1>1, <1>2, <1>12, <1>13, <1>14 DEF Books

LEMMA AdvanceSaves ==
    ASSUME Saves, NEW after, NEW next, NEW r, Advances(after, next, r)
    PROVE  Saves'
BY DEF Advances, Assign, Push, Unsaved, Saved, NotSaved, Saves

\* A run that goes on decides nothing of others' intents, and one that ends without
\* an interruption has decided its own, on the disk too.
LEMMA AdvanceOnce ==
    ASSUME IInv, Once, NEW after, NEW next, NEW r, Advances(after, next, r)
    PROVE  Once'
<1>1. /\ memory' = after
      /\ disk' \in { disk, after }
      /\ pc' \in { next, "rest" }
      /\ (pc' = "rest" /\ r \notin interrupted') => next = "rest" /\ disk' = after
      /\ interrupted \subseteq interrupted'
      /\ r \in Runs /\ r = running /\ running' = r /\ intentOf' = intentOf /\ pc # "rest"
    BY DEF Advances, Assign, Push, Unsaved, Saved, NotSaved
<1>2. intentOf[r] \in Intents /\ None \notin Intents
    BY <1>1, RunUnderway, DurableAssumption
<1>3. intentOf \in [ Runs -> Intents \union {None} ]
    BY DEF IInv
<1>4. ASSUME NEW state \in States', NEW s \in BookedRuns(state)
      PROVE  intentOf'[s] # None
    <2>1. state \in { memory, disk, after }
        BY <1>1 DEF States
    <2>2. BookedRuns(after) \subseteq BookedRuns(memory) \union {r}
        BY DEF Advances
    <2>3. s \in BookedRuns(memory) \union BookedRuns(disk) \union {r}
        BY <1>4, <2>1, <2>2
    <2>4. QED
        BY <1>1, <1>2, <2>3 DEF Once, States
<1>5. ASSUME NEW state \in States', NEW s \in Runs, Finished(s)'
      PROVE  state.intents[intentOf'[s]].status # "pending"
    <2>1. state \in { disk, after } /\ intentOf[s] \in Intents
        BY <1>1, <1>3, <1>5 DEF States, Finished
    <2>2. CASE s = r
        <3>1. state = after /\ next = "rest"
            BY <1>1, <1>5, <2>1, <2>2 DEF States, Finished
        <3>2. QED
            BY <1>1, <2>2, <3>1 DEF Advances
    <2>3. CASE s # r
        <3>1. Finished(s)
            BY <1>1, <1>5, <2>3 DEF Finished
        <3>2. /\ memory.intents[intentOf[s]].status # "pending"
              /\ disk.intents[intentOf[s]].status # "pending"
            BY <3>1 DEF Once, States
        <3>3. QED
            BY <1>1, <2>1, <3>2 DEF Advances
    <2>4. QED
        BY <2>2, <2>3
<1>6. ASSUME NEW s \in Runs, NEW t \in Runs, s # t, intentOf'[s] # None,
             intentOf'[s] = intentOf'[t]
      PROVE  { s, t } \intersect interrupted' # {}
    BY <1>1, <1>6 DEF Once
<1>7. QED
    BY <1>4, <1>5, <1>6 DEF Once

LEMMA AdvanceBInv ==
    ASSUME IInv, IInv', BInv, NEW after, NEW next, NEW r, Advances(after, next, r)
    PROVE  BInv'
BY AdvanceBooks, AdvanceSaves, AdvanceOnce DEF BInv

-----------------------------------------------------------------------------
\* What each action advances.

Moving == { "credit", "debit entry", "credit entry" }

\* Nothing is moved and unbooked before the debit and after the second entry.
LEMMA NotMoving ==
    ASSUME NEW place, place \notin Moving, NEW i \in Intents
    PROVE  InTransit(place, i) = 0 /\ \A a : Unbooked(place, i, a) = 0
<1>1. place # "credit" /\ place # "debit entry" /\ place # "credit entry"
    BY DEF Moving
<1>2. /\ InTransit(place, i) = 0
      /\ \A a : PaidBefore(place, i, a) = 0 /\ ReceivedBefore(place, i, a) = 0
    BY <1>1 DEF InTransit, PaidBefore, ReceivedBefore
<1>3. QED
    BY <1>2 DEF Unbooked

LEMMA StoreOf ==
    ASSUME IInv, Books
    PROVE  /\ Shape(memory)
           /\ memory.ledger \in Seq(Entries)
           /\ memory.positions \in Quantities
           /\ Total(memory.positions) \in Int
BY TotalType DEF IInv, Sound, Shape, Books, Left

\* A write that touches neither positions nor ledger.
LEMMA BesideBooks ==
    ASSUME IInv, Books, NEW r \in Runs, r = running, pc # "rest", pc \notin Moving,
           NEW next, next \notin Moving, NEW after,
           running' = running, intentOf' = intentOf,
           Assign(after, next, r) \/ Push(after, next, r)
              \/ (next # "rest" /\ Unsaved(after, next)),
           after.positions = memory.positions, after.ledger = memory.ledger,
           next # "rest" => Ready(after, next, intentOf[r]),
           next = "rest" => after.intents[intentOf[r]].status # "pending",
           \A i \in Intents :
              memory.intents[i].status # "pending" => after.intents[i].status # "pending"
    PROVE  Advances(after, next, r)
<1>1. PICK i \in Intents : i = intentOf[r]
    BY RunUnderway
<1>2. Total(after.positions) + InTransit(next, i) = Total(memory.positions) + InTransit(pc, i)
    BY NotMoving
<1>3. \A a \in Accounts :
        Gap(after, a) - Unbooked(next, i, a) = Gap(memory, a) - Unbooked(pc, i, a)
    BY NotMoving DEF Gap
<1>4. BookedRuns(after) = BookedRuns(memory)
    BY DEF BookedRuns
<1>5. QED
    BY <1>1, <1>2, <1>3, <1>4, StoreOf DEF Advances

LEMMA TransferAdvances ==
    ASSUME IInv, Books, NEW r \in Runs, TransferFails(r) \/ TransferSucceeds(r)
    PROVE  \E after, next : Advances(after, next, r)
<1>1. PICK i \in Intents : i = intentOf[r]
    BY RunUnderway DEF TransferFails, TransferSucceeds
<1>2. PICK outcome \in { "failed", "settled" },
            next \in { "transaction id", "destination", "debit" } :
        /\ Unsaved(Marked(memory, r, outcome), next)
        /\ next = "destination" => memory.positions[IntentData[i].to] = NoPosition
        /\ next = "debit" => memory.positions[IntentData[i].to] # NoPosition
    <2>1. CASE TransferFails(r)
        <3>1. Unsaved(Marked(memory, r, "failed"), "transaction id")
            BY <2>1 DEF TransferFails, Marked
        <3> DEFINE following == "transaction id"
        <3>2. following \notin { "destination", "debit" }
            OBVIOUS
        <3>3. following \in { "transaction id", "destination", "debit" }
            OBVIOUS
        <3> HIDE DEF following
        <3>4. QED
            BY <3>1, <3>2, <3>3 DEF following
    <2>2. CASE TransferSucceeds(r)
        <3> DEFINE following == IF memory.positions[IntentData[i].to] = NoPosition
                                THEN "destination" ELSE "debit"
        <3>1. Unsaved(Marked(memory, r, "settled"), following)
            BY <1>1, <2>2 DEF TransferSucceeds, Marked, Destination
        <3>2. /\ following \in { "transaction id", "destination", "debit" }
              /\ following = "destination" => memory.positions[IntentData[i].to] = NoPosition
              /\ following = "debit" => memory.positions[IntentData[i].to] # NoPosition
            OBVIOUS
        <3> HIDE DEF following
        <3>3. QED
            BY <3>1, <3>2
    <2>3. QED
        BY <2>1, <2>2
<1>3. /\ pc = "transfer" /\ r = running /\ running' = running /\ intentOf' = intentOf
    BY DEF TransferFails, TransferSucceeds
<1>4. /\ Marked(memory, r, outcome).ledger = memory.ledger
      /\ Marked(memory, r, outcome).intents = memory.intents
    <2>1. Sound(memory, intentOf) /\ outcome \in { "pending", "failed", "settled" }
        BY DEF IInv
    <2>2. /\ Sound(Marked(memory, r, outcome), intentOf)
          /\ Marked(memory, r, outcome).ledger = memory.ledger
          /\ Marked(memory, r, outcome).intents = memory.intents
          /\ Marked(memory, r, outcome).instructions[r] = outcome
        BY <2>1, InstructionWrite
    <2>3. QED
        BY <2>2
<1> DEFINE after == Marked(memory, r, outcome)
<1>5. /\ after.ledger = memory.ledger
      /\ after.intents = memory.intents
      /\ after.positions = memory.positions
      /\ Unsaved(after, next)
    BY <1>2, <1>4, StoreOf DEF Marked, Shape
<1> HIDE DEF after
<1>6. Ready(memory, "transfer", i)
    BY <1>1, <1>3 DEF Books, Underway
<1>7. Ready(after, next, i)
    <2>1. /\ next = "destination" => after.positions[IntentData[i].to] = NoPosition
          /\ next \in { "debit", "credit" } => after.positions[IntentData[i].to] # NoPosition
        BY <1>2, <1>5
    <2>2. after.positions[IntentData[i].from] # NoPosition
        BY <1>5, <1>6 DEF Ready
    <2>3. QED
        BY <2>1, <2>2 DEF Ready
<1>8. next \notin Moving /\ next # "rest" /\ pc \notin Moving /\ pc # "rest"
    BY <1>2, <1>3 DEF Moving
<1>9. Advances(after, next, r)
    BY <1>1, <1>3, <1>5, <1>7, <1>8, BesideBooks
<1>10. QED
    BY <1>9

LEMMA WriteTransactionIdAdvances ==
    ASSUME IInv, Books, NEW r \in Runs, WriteTransactionId(r)
    PROVE  \E after, next : Advances(after, next, r)
<1>1. PICK i \in Intents : i = intentOf[r]
    BY RunUnderway DEF WriteTransactionId
<1> DEFINE after == Named(memory, i, r)
<1>2. Push(after, "status", r)
    BY <1>1 DEF WriteTransactionId, Named
<1>3. /\ pc = "transaction id" /\ r = running /\ running' = running /\ intentOf' = intentOf
    BY DEF WriteTransactionId
<1>4. /\ after.ledger = memory.ledger
      /\ after.intents[i].status = memory.intents[i].status
      /\ \A j \in Intents \ {i} : after.intents[j] = memory.intents[j]
    <2>1. Shape(memory)
        BY StoreOf
    <2>2. QED
        BY <2>1, IdWrite
<1>5. after.positions = memory.positions
    BY StoreOf DEF Named, Shape
<1> HIDE DEF after
<1>6. Ready(memory, "transaction id", i)
    BY <1>1, <1>3 DEF Books, Underway
<1>7. Ready(after, "status", i)
    BY <1>5, <1>6 DEF Ready
<1>8. Advances(after, "status", r)
    BY <1>1, <1>2, <1>3, <1>4, <1>5, <1>7, BesideBooks DEF Moving
<1>9. QED
    BY <1>8

LEMMA WriteStatusAdvances ==
    ASSUME IInv, Books, NEW r \in Runs, WriteStatus(r)
    PROVE  \E after, next : Advances(after, next, r)
<1>1. PICK i \in Intents : i = intentOf[r]
    BY RunUnderway DEF WriteStatus
<1> DEFINE decision == IF memory.instructions[r] = "settled" THEN "executed" ELSE "failed"
           after == Decide(memory, i, decision)
<1>2. Assign(after, "rest", r)
    BY <1>1 DEF WriteStatus, Outcome, IntentAfter, CanTransitionIntent, IntentTransitions, Decide
<1>3. /\ pc = "status" /\ r = running /\ running' = running /\ intentOf' = intentOf
    BY DEF WriteStatus
<1>4. decision \in IntentStatuses /\ decision # "pending"
    BY DEF IntentStatuses
<1> HIDE DEF decision
<1>5. /\ after.ledger = memory.ledger
      /\ after.intents[i].status = decision
      /\ \A j \in Intents \ {i} : after.intents[j] = memory.intents[j]
    BY <1>4, StoreOf, StatusWrite
<1>6. after.positions = memory.positions
    BY StoreOf DEF Decide, Shape
<1> HIDE DEF after
<1>7. Advances(after, "rest", r)
    BY <1>1, <1>2, <1>3, <1>4, <1>5, <1>6, BesideBooks DEF Moving
<1>8. QED
    BY <1>7

\* A write of one position, named as those above.
Stored(state, b, quantity) == [ state EXCEPT !.positions[b] = quantity ]

LEMMA PositionWrite ==
    ASSUME NEW state, Shape(state), state.positions \in Quantities, NEW b \in Accounts,
           NEW quantity \in Int, NEW after, after = Stored(state, b, quantity)
    PROVE  /\ after.positions \in Quantities
           /\ after.positions[b] = quantity
           /\ \A a \in Accounts \ {b} : after.positions[a] = state.positions[a]
           /\ after.ledger = state.ledger
           /\ after.intents = state.intents
           /\ Total(after.positions) = Total(state.positions) - Held(state.positions, b) + quantity
           /\ \A a \in Accounts :
                Gap(after, a) = Gap(state, a) + (IF a = b THEN quantity - Held(state.positions, b)
                                                 ELSE 0)
           /\ BookedRuns(after) = BookedRuns(state)
<1>1. /\ after.positions = [ state.positions EXCEPT ![b] = quantity ]
      /\ after.ledger = state.ledger
      /\ after.intents = state.intents
    BY DEF Shape, Stored
<1>2. /\ after.positions[b] = quantity
      /\ \A a \in Accounts \ {b} : after.positions[a] = state.positions[a]
    BY <1>1 DEF Quantities
<1>3. /\ after.positions \in Quantities
      /\ Held(after.positions, b) = quantity
      /\ \A a \in Accounts \ {b} : Held(after.positions, a) = Held(state.positions, a)
      /\ Total(after.positions) = Total(state.positions) - Held(state.positions, b) + quantity
    BY <1>1, TotalWrite
<1>4. ASSUME NEW a \in Accounts
      PROVE  Gap(after, a) = Gap(state, a) + (IF a = b THEN quantity - Held(state.positions, b)
                                              ELSE 0)
    <2>1. /\ Gap(after, a)
                = Held(after.positions, a) - Held(Opening, a) - Net(state.ledger, a)
          /\ Gap(state, a)
                = Held(state.positions, a) - Held(Opening, a) - Net(state.ledger, a)
          /\ Held(state.positions, a) \in Int
          /\ Held(Opening, a) \in Int
          /\ Net(state.ledger, a) \in Int
        BY <1>1, <1>3, GapType DEF Shape
    <2>2. CASE a = b
        BY <1>3, <2>1, <2>2
    <2>3. CASE a # b
        BY <1>3, <2>1, <2>3
    <2>4. QED
        BY <2>2, <2>3
<1>5. BookedRuns(after) = BookedRuns(state)
    BY <1>1 DEF BookedRuns
<1>6. QED
    BY <1>1, <1>2, <1>3, <1>4, <1>5

\* What a run of intent i has moved and not booked, place by place.
LEMMA Places ==
    ASSUME NEW i \in Intents
    PROVE  /\ \A a : /\ Unbooked("destination", i, a) = 0
                     /\ Unbooked("debit", i, a) = 0
                     /\ Unbooked("credit", i, a) = 0 - Paid(i, a)
                     /\ Unbooked("debit entry", i, a) = Received(i, a) - Paid(i, a)
                     /\ Unbooked("credit entry", i, a) = Received(i, a)
                     /\ Unbooked("transaction id", i, a) = 0
           /\ InTransit("destination", i) = 0
           /\ InTransit("debit", i) = 0
           /\ InTransit("credit", i) = IntentData[i].quantity
           /\ InTransit("debit entry", i) = 0
           /\ InTransit("credit entry", i) = 0
           /\ InTransit("transaction id", i) = 0
<1>1. \A a : Paid(i, a) \in Nat /\ Received(i, a) \in Nat
    BY Amounts
<1>2. \A a : /\ PaidBefore("destination", i, a) = 0
            /\ PaidBefore("debit", i, a) = 0
            /\ PaidBefore("credit", i, a) = Paid(i, a)
            /\ PaidBefore("debit entry", i, a) = Paid(i, a)
            /\ PaidBefore("credit entry", i, a) = 0
            /\ PaidBefore("transaction id", i, a) = 0
    BY DEF PaidBefore
<1>3. \A a : /\ ReceivedBefore("destination", i, a) = 0
            /\ ReceivedBefore("debit", i, a) = 0
            /\ ReceivedBefore("credit", i, a) = 0
            /\ ReceivedBefore("debit entry", i, a) = Received(i, a)
            /\ ReceivedBefore("credit entry", i, a) = Received(i, a)
            /\ ReceivedBefore("transaction id", i, a) = 0
    BY DEF ReceivedBefore
<1>4. ASSUME NEW a
      PROVE  /\ Unbooked("destination", i, a) = 0
             /\ Unbooked("debit", i, a) = 0
             /\ Unbooked("credit", i, a) = 0 - Paid(i, a)
             /\ Unbooked("debit entry", i, a) = Received(i, a) - Paid(i, a)
             /\ Unbooked("credit entry", i, a) = Received(i, a)
             /\ Unbooked("transaction id", i, a) = 0
    <2> DEFINE paid == Paid(i, a)
               received == Received(i, a)
    <2>1. paid \in Nat /\ received \in Nat
        BY <1>1
    <2>2. /\ Unbooked("destination", i, a) = 0 - 0
          /\ Unbooked("debit", i, a) = 0 - 0
          /\ Unbooked("credit", i, a) = 0 - paid
          /\ Unbooked("debit entry", i, a) = received - paid
          /\ Unbooked("credit entry", i, a) = received - 0
          /\ Unbooked("transaction id", i, a) = 0 - 0
        BY <1>2, <1>3, Zenon DEF Unbooked
    <2> HIDE DEF paid, received
    <2>3. 0 - 0 = 0 /\ received - 0 = received
        BY <2>1
    <2>4. QED
        BY <2>2, <2>3, Zenon DEF paid, received
<1>5. /\ InTransit("destination", i) = 0
      /\ InTransit("debit", i) = 0
      /\ InTransit("credit", i) = IntentData[i].quantity
      /\ InTransit("debit entry", i) = 0
      /\ InTransit("credit entry", i) = 0
      /\ InTransit("transaction id", i) = 0
    BY DEF InTransit
<1>6. QED
    BY <1>4, <1>5

LEMMA CreateDestinationAdvances ==
    ASSUME IInv, Books, NEW r \in Runs, CreateDestination(r)
    PROVE  \E after, next : Advances(after, next, r)
<1>1. PICK i \in Intents : i = intentOf[r]
    BY RunUnderway DEF CreateDestination
<1> DEFINE to == IntentData[i].to
<1>2. PICK after : after = [ memory EXCEPT !.positions[to] = 0 ] /\ Push(after, "debit", r)
    BY <1>1 DEF CreateDestination, Destination
<1>3. /\ pc = "destination" /\ r = running /\ running' = running /\ intentOf' = intentOf
    BY DEF CreateDestination
<1>4. Ready(memory, "destination", i)
    BY <1>1, <1>3 DEF Books, Underway
<1>5. Held(memory.positions, to) = 0
    BY <1>4 DEF Ready, Held
<1>6. /\ after.positions \in Quantities
      /\ after.positions[to] = 0
      /\ \A a \in Accounts \ {to} : after.positions[a] = memory.positions[a]
      /\ after.intents = memory.intents
      /\ Total(after.positions) = Total(memory.positions)
      /\ \A a \in Accounts : Gap(after, a) = Gap(memory, a)
      /\ BookedRuns(after) = BookedRuns(memory)
    <2> DEFINE nothing == 0
    <2>1. to \in Accounts /\ nothing \in Int
        BY Amounts
    <2>2. after = Stored(memory, to, nothing)
        BY <1>2 DEF Stored
    <2> HIDE DEF to, nothing
    <2>3. Shape(memory) /\ memory.positions \in Quantities /\ Total(memory.positions) \in Int
        BY StoreOf
    <2>4. /\ after.positions \in Quantities
          /\ after.positions[to] = nothing
          /\ \A a \in Accounts \ {to} : after.positions[a] = memory.positions[a]
          /\ after.intents = memory.intents
          /\ Total(after.positions)
                = Total(memory.positions) - Held(memory.positions, to) + nothing
          /\ \A a \in Accounts :
                Gap(after, a) = Gap(memory, a)
                    + (IF a = to THEN nothing - Held(memory.positions, to) ELSE 0)
          /\ BookedRuns(after) = BookedRuns(memory)
        BY <2>1, <2>2, <2>3, PositionWrite
    <2>5. \A a \in Accounts : Gap(memory, a) \in Int
        BY GapType, StoreOf
    <2>6. QED
        BY <1>5, <2>3, <2>4, <2>5 DEF nothing
<1>7. Ready(after, "debit", i)
    <2>1. 0 # NoPosition /\ IntentData[i].from \in Accounts
        BY DurableAssumption, Amounts
    <2>2. QED
        BY <1>4, <1>6, <2>1 DEF Ready
<1>8. \A a \in Accounts : Unbooked("debit", i, a) = Unbooked("destination", i, a)
    BY Places
<1>9. InTransit("debit", i) = InTransit("destination", i)
    BY DEF InTransit
<1>10. Advances(after, "debit", r)
    BY <1>1, <1>2, <1>3, <1>6, <1>7, <1>8, <1>9 DEF Advances
<1>11. QED
    BY <1>10

LEMMA DebitSourceAdvances ==
    ASSUME IInv, Books, NEW r \in Runs, DebitSource(r)
    PROVE  \E after, next : Advances(after, next, r)
<1>1. PICK i \in Intents : i = intentOf[r]
    BY RunUnderway DEF DebitSource
<1> DEFINE from == IntentData[i].from
           q == IntentData[i].quantity
<1>2. PICK after : /\ after = [ memory EXCEPT !.positions[from] = memory.positions[from] - q ]
                   /\ Assign(after, "credit", r)
    BY <1>1 DEF DebitSource, Source, Quantity
<1>3. /\ pc = "debit" /\ r = running /\ running' = running /\ intentOf' = intentOf
    BY DEF DebitSource
<1>4. Ready(memory, "debit", i)
    BY <1>1, <1>3 DEF Books, Underway
<1>5. from \in Accounts /\ q \in Nat \ {0}
    BY Amounts
<1>6. Held(memory.positions, from) = memory.positions[from] /\ memory.positions[from] \in Int
    BY <1>4, <1>5, StoreOf DEF Ready, Held, Quantities
<1>7. /\ after.positions \in Quantities
      /\ after.positions[from] \in Int
      /\ \A a \in Accounts \ {from} : after.positions[a] = memory.positions[a]
      /\ after.intents = memory.intents
      /\ Total(after.positions) = Total(memory.positions) - q
      /\ \A a \in Accounts : Gap(after, a) = Gap(memory, a) + (IF a = from THEN -q ELSE 0)
      /\ BookedRuns(after) = BookedRuns(memory)
    <2> DEFINE rest == memory.positions[from] - q
    <2>1. rest \in Int /\ rest = Held(memory.positions, from) - q
        BY <1>5, <1>6
    <2>2. after = Stored(memory, from, rest)
        BY <1>2 DEF Stored
    <2> HIDE DEF from, q, rest
    <2>3. Shape(memory) /\ memory.positions \in Quantities /\ Total(memory.positions) \in Int
        BY StoreOf
    <2>4. /\ after.positions \in Quantities
          /\ after.positions[from] = rest
          /\ \A a \in Accounts \ {from} : after.positions[a] = memory.positions[a]
          /\ after.intents = memory.intents
          /\ Total(after.positions) = Total(memory.positions) - Held(memory.positions, from) + rest
          /\ \A a \in Accounts :
                Gap(after, a) = Gap(memory, a) + (IF a = from THEN rest - Held(memory.positions, from)
                                                  ELSE 0)
          /\ BookedRuns(after) = BookedRuns(memory)
        BY <1>5, <2>1, <2>2, <2>3, PositionWrite
    <2>5. QED
        BY <1>5, <1>6, <2>1, <2>3, <2>4
<1>8. Ready(after, "credit", i)
    <2>1. /\ IntentData[i].to \in Accounts
          /\ \A a \in Accounts :
                memory.positions[a] # NoPosition => after.positions[a] # NoPosition
        BY <1>7, Amounts, DurableAssumption
    <2>2. QED
        BY <1>4, <1>5, <2>1 DEF Ready
<1>9. ASSUME NEW a \in Accounts
      PROVE  Gap(after, a) - Unbooked("credit", i, a) = Gap(memory, a) - Unbooked("debit", i, a)
    <2>1. /\ Unbooked("credit", i, a) = 0 - (IF a = from THEN q ELSE 0)
          /\ Unbooked("debit", i, a) = 0
        BY Places DEF Paid
    <2>2. Gap(memory, a) \in Int
        BY GapType, StoreOf
    <2>3. QED
        BY <1>5, <1>7, <2>1, <2>2
<1>10. InTransit("debit", i) = 0 /\ InTransit("credit", i) = q
    BY DEF InTransit
<1>11. Total(after.positions) + InTransit("credit", i)
          = Total(memory.positions) + InTransit("debit", i)
    BY <1>5, <1>7, <1>10, StoreOf
<1>12. Advances(after, "credit", r)
    BY <1>1, <1>2, <1>3, <1>7, <1>8, <1>9, <1>11 DEF Advances
<1>13. QED
    BY <1>12

\* A gap that changes by as much as what is not booked.
LEMMA Shifted ==
    ASSUME NEW gap \in Int, NEW paid \in Nat, NEW received \in Nat
    PROVE  /\ (gap + received) - (received - paid) = gap - (0 - paid)
           /\ gap - (0 - paid) - received = gap - (received - paid)
           /\ gap - received - 0 = gap - received
OBVIOUS

LEMMA CreditDestinationAdvances ==
    ASSUME IInv, Books, NEW r \in Runs, CreditDestination(r)
    PROVE  \E after, next : Advances(after, next, r)
<1>1. PICK i \in Intents : i = intentOf[r]
    BY RunUnderway DEF CreditDestination
<1> DEFINE to == IntentData[i].to
           q == IntentData[i].quantity
<1>2. PICK after : /\ after = [ memory EXCEPT !.positions[to] = memory.positions[to] + q ]
                   /\ Unsaved(after, "debit entry") \/ Assign(after, "debit entry", r)
    BY <1>1 DEF CreditDestination, Destination, Quantity
<1>3. /\ pc = "credit" /\ r = running /\ running' = running /\ intentOf' = intentOf
    BY DEF CreditDestination
<1>4. Ready(memory, "credit", i)
    BY <1>1, <1>3 DEF Books, Underway
<1>5. to \in Accounts /\ q \in Nat \ {0}
    BY Amounts
<1>6. Held(memory.positions, to) = memory.positions[to] /\ memory.positions[to] \in Int
    BY <1>4, <1>5, StoreOf DEF Ready, Held, Quantities
<1>7. /\ after.positions \in Quantities
      /\ after.positions[to] \in Int
      /\ \A a \in Accounts \ {to} : after.positions[a] = memory.positions[a]
      /\ after.intents = memory.intents
      /\ Total(after.positions) = Total(memory.positions) + q
      /\ \A a \in Accounts : Gap(after, a) = Gap(memory, a) + (IF a = to THEN q ELSE 0)
      /\ BookedRuns(after) = BookedRuns(memory)
    <2> DEFINE more == memory.positions[to] + q
    <2>1. more \in Int /\ more = Held(memory.positions, to) + q
        BY <1>5, <1>6
    <2>2. after = Stored(memory, to, more)
        BY <1>2 DEF Stored
    <2> HIDE DEF to, q, more
    <2>3. Shape(memory) /\ memory.positions \in Quantities /\ Total(memory.positions) \in Int
        BY StoreOf
    <2>4. /\ after.positions \in Quantities
          /\ after.positions[to] = more
          /\ \A a \in Accounts \ {to} : after.positions[a] = memory.positions[a]
          /\ after.intents = memory.intents
          /\ Total(after.positions) = Total(memory.positions) - Held(memory.positions, to) + more
          /\ \A a \in Accounts :
                Gap(after, a) = Gap(memory, a) + (IF a = to THEN more - Held(memory.positions, to)
                                                  ELSE 0)
          /\ BookedRuns(after) = BookedRuns(memory)
        BY <1>5, <2>1, <2>2, <2>3, PositionWrite
    <2>5. QED
        BY <1>5, <1>6, <2>1, <2>3, <2>4
<1>8. Ready(after, "debit entry", i)
    <2>1. /\ IntentData[i].from \in Accounts
          /\ \A a \in Accounts :
                memory.positions[a] # NoPosition => after.positions[a] # NoPosition
        BY <1>7, Amounts, DurableAssumption
    <2>2. QED
        BY <1>4, <2>1 DEF Ready
<1>9. ASSUME NEW a \in Accounts
      PROVE  Gap(after, a) - Unbooked("debit entry", i, a)
                = Gap(memory, a) - Unbooked("credit", i, a)
    <2>1. /\ Unbooked("credit", i, a) = 0 - Paid(i, a)
          /\ Unbooked("debit entry", i, a) = Received(i, a) - Paid(i, a)
          /\ Paid(i, a) \in Nat
          /\ Received(i, a) \in Nat
        BY Places, Amounts
    <2>2. Gap(memory, a) \in Int
        BY GapType, StoreOf
    <2>3. Gap(after, a) = Gap(memory, a) + Received(i, a)
        BY <1>7 DEF Received
    <2>4. (Gap(memory, a) + Received(i, a)) - (Received(i, a) - Paid(i, a))
            = Gap(memory, a) - (0 - Paid(i, a))
        BY <2>1, <2>2, Shifted
    <2>5. QED
        BY <2>1, <2>3, <2>4, Zenon
<1>10. InTransit("credit", i) = q /\ InTransit("debit entry", i) = 0
    BY DEF InTransit
<1>11. Total(after.positions) + InTransit("debit entry", i)
          = Total(memory.positions) + InTransit("credit", i)
    <2> HIDE DEF q
    <2>1. q \in Nat /\ Total(memory.positions) \in Int
        BY <1>5, StoreOf
    <2>2. Total(memory.positions) + q + 0 = Total(memory.positions) + q
        BY <2>1
    <2>3. QED
        BY <1>7, <1>10, <2>2, Zenon
<1>12. Assign(after, "debit entry", r) \/ ("debit entry" # "rest" /\ Unsaved(after, "debit entry"))
    BY <1>2
<1>13. Advances(after, "debit entry", r)
    BY <1>1, <1>3, <1>7, <1>8, <1>9, <1>11, <1>12 DEF Advances
<1>14. QED
    BY <1>13

\* A write of one entry.
Entered(state, entry) == [ state EXCEPT !.ledger = Append(@, entry) ]

LEMMA EntryWrite ==
    ASSUME IInv, Books, NEW entry \in Entries, NEW after, after = Entered(memory, entry)
    PROVE  /\ after.positions = memory.positions
           /\ after.intents = memory.intents
           /\ \A a \in Accounts : Gap(after, a) = Gap(memory, a) - Effect(entry, a)
           /\ BookedRuns(after) \subseteq BookedRuns(memory) \union { entry.transactionId }
<1>1. /\ after.positions = memory.positions
      /\ after.intents = memory.intents
      /\ after.ledger = Append(memory.ledger, entry)
    BY StoreOf DEF Entered, Shape
<1>2. ASSUME NEW a \in Accounts
      PROVE  Gap(after, a) = Gap(memory, a) - Effect(entry, a)
    <2>1. /\ Gap(after, a)
                = Held(memory.positions, a) - Held(Opening, a) - Net(after.ledger, a)
          /\ Gap(memory, a)
                = Held(memory.positions, a) - Held(Opening, a) - Net(memory.ledger, a)
        BY <1>1 DEF Gap
    <2>2. /\ Held(memory.positions, a) \in Int
          /\ Held(Opening, a) \in Int
          /\ Net(memory.ledger, a) \in Int
        BY GapType, StoreOf
    <2>3. Net(after.ledger, a) = Net(memory.ledger, a) + Effect(entry, a)
        BY <1>1, NetAppend, StoreOf
    <2>4. Effect(entry, a) \in Int
        BY EffectType
    <2>5. QED
        BY <2>1, <2>2, <2>3, <2>4
<1>3. QED
    BY <1>1, <1>2, BookedRunsAppend, StoreOf

LEMMA RecordDebitAdvances ==
    ASSUME IInv, Books, NEW r \in Runs, RecordDebit(r)
    PROVE  \E after, next : Advances(after, next, r)
<1>1. PICK i \in Intents : i = intentOf[r]
    BY RunUnderway DEF RecordDebit
<1>2. PICK after : after = Entered(memory, Debit(r)) /\ Assign(after, "credit entry", r)
    BY DEF RecordDebit, Entered
<1>3. /\ pc = "debit entry" /\ r = running /\ running' = running /\ intentOf' = intentOf
    BY DEF RecordDebit
<1>4. Debit(r) \in Entries /\ Debit(r).transactionId = r
    BY <1>1, EntriesOf DEF Debit, Entry, DebitOf, Source, Quantity
<1>5. ASSUME NEW a \in Accounts
      PROVE  Effect(Debit(r), a) = 0 - Paid(i, a)
    <2>1. /\ Debit(r).account = IntentData[i].from
          /\ Debit(r).type = "debit"
          /\ Debit(r).quantity = IntentData[i].quantity
        BY <1>1 DEF Debit, Entry, Source, Quantity
    <2>2. IntentData[i].quantity \in Nat
        BY Amounts
    <2>3. QED
        BY <2>1, <2>2 DEF Effect, Paid
<1>6. /\ after.positions = memory.positions
      /\ after.intents = memory.intents
      /\ \A a \in Accounts : Gap(after, a) = Gap(memory, a) - Effect(Debit(r), a)
      /\ BookedRuns(after) \subseteq BookedRuns(memory) \union {r}
    BY <1>2, <1>4, EntryWrite
<1>7. ASSUME NEW a \in Accounts
      PROVE  Gap(after, a) - Unbooked("credit entry", i, a)
                = Gap(memory, a) - Unbooked("debit entry", i, a)
    <2>1. /\ Unbooked("debit entry", i, a) = Received(i, a) - Paid(i, a)
          /\ Unbooked("credit entry", i, a) = Received(i, a)
          /\ Paid(i, a) \in Nat
          /\ Received(i, a) \in Nat
        BY Places, Amounts
    <2>2. Gap(memory, a) \in Int
        BY GapType, StoreOf
    <2>3. Gap(after, a) = Gap(memory, a) - (0 - Paid(i, a))
        BY <1>5, <1>6
    <2>4. Gap(memory, a) - (0 - Paid(i, a)) - Received(i, a)
            = Gap(memory, a) - (Received(i, a) - Paid(i, a))
        BY <2>1, <2>2, Shifted
    <2>5. QED
        BY <2>1, <2>3, <2>4, Zenon
<1>8. Ready(memory, "debit entry", i)
    BY <1>1, <1>3 DEF Books, Underway
<1>9. Ready(after, "credit entry", i)
    BY <1>6, <1>8 DEF Ready
<1>10. InTransit("credit entry", i) = InTransit("debit entry", i)
    BY DEF InTransit
<1>11. Advances(after, "credit entry", r)
    BY <1>1, <1>2, <1>3, <1>6, <1>7, <1>9, <1>10, StoreOf DEF Advances
<1>12. QED
    BY <1>11

LEMMA RecordCreditAdvances ==
    ASSUME IInv, Books, NEW r \in Runs, RecordCredit(r)
    PROVE  \E after, next : Advances(after, next, r)
<1>1. PICK i \in Intents : i = intentOf[r]
    BY RunUnderway DEF RecordCredit
<1>2. PICK after : after = Entered(memory, Credit(r)) /\ Push(after, "transaction id", r)
    BY DEF RecordCredit, Entered
<1>3. /\ pc = "credit entry" /\ r = running /\ running' = running /\ intentOf' = intentOf
    BY DEF RecordCredit
<1>4. Credit(r) \in Entries /\ Credit(r).transactionId = r
    BY <1>1, EntriesOf DEF Credit, Entry, CreditOf, Destination, Quantity
<1>5. ASSUME NEW a \in Accounts
      PROVE  Effect(Credit(r), a) = Received(i, a)
    <2>1. /\ Credit(r).account = IntentData[i].to
          /\ Credit(r).type = "credit"
          /\ Credit(r).quantity = IntentData[i].quantity
        BY <1>1 DEF Credit, Entry, Destination, Quantity
    <2>2. QED
        BY <2>1 DEF Effect, Received
<1>6. /\ after.positions = memory.positions
      /\ after.intents = memory.intents
      /\ \A a \in Accounts : Gap(after, a) = Gap(memory, a) - Effect(Credit(r), a)
      /\ BookedRuns(after) \subseteq BookedRuns(memory) \union {r}
    BY <1>2, <1>4, EntryWrite
<1>7. ASSUME NEW a \in Accounts
      PROVE  Gap(after, a) - Unbooked("transaction id", i, a)
                = Gap(memory, a) - Unbooked("credit entry", i, a)
    <2>1. /\ Unbooked("credit entry", i, a) = Received(i, a)
          /\ Unbooked("transaction id", i, a) = 0
          /\ Received(i, a) \in Nat
        BY Places, Amounts
    <2>2. Gap(memory, a) \in Int
        BY GapType, StoreOf
    <2>3. Gap(after, a) = Gap(memory, a) - Received(i, a)
        BY <1>5, <1>6
    <2>4. Gap(memory, a) - Received(i, a) - 0 = Gap(memory, a) - Received(i, a)
        BY <2>1, <2>2, Shifted
    <2>5. QED
        BY <2>1, <2>3, <2>4, Zenon
<1>8. Ready(memory, "credit entry", i)
    BY <1>1, <1>3 DEF Books, Underway
<1>9. Ready(after, "transaction id", i)
    BY <1>6, <1>8 DEF Ready
<1>10. InTransit("transaction id", i) = InTransit("credit entry", i)
    BY DEF InTransit
<1>11. Advances(after, "transaction id", r)
    BY <1>1, <1>2, <1>3, <1>6, <1>7, <1>9, <1>10, StoreOf DEF Advances
<1>12. QED
    BY <1>11

-----------------------------------------------------------------------------
\* Every action keeps the books.

LEMMA InitBInv == Init => BInv
<1> SUFFICES ASSUME Init PROVE BInv
    OBVIOUS
<1>1. /\ Start.positions = Opening
      /\ Start.ledger = << >>
      /\ memory = Start /\ disk = Start
      /\ pc = "rest" /\ torn = FALSE
      /\ intentOf = [ r \in Runs |-> None ]
    BY DEF Start, Init
<1>2. Opening \in Quantities
    BY DurableAssumption DEF Quantities
<1>3. ASSUME NEW a \in Accounts
      PROVE  Gap(Start, a) = 0
    <2>1. Len(Start.ledger) = 0 /\ 1..0 = {}
        BY <1>1
    <2>2. Net(Start.ledger, a) = 0
        BY <2>1, NetDef, SumEmpty
    <2>3. Held(Opening, a) \in Int
        BY <1>2, HeldType
    <2>4. QED
        BY <1>1, <2>2, <2>3 DEF Gap
<1>4. Total(Start.positions) <= Total(Opening)
    BY <1>1, <1>2, TotalType
<1>5. Left(Start)
    BY <1>1, <1>2, <1>3, <1>4 DEF Left, Allowed
<1>6. Books
    BY <1>1, <1>3, <1>5 DEF Books
<1>7. Saves
    BY <1>1 DEF Saves
<1>8. BookedRuns(Start) = {}
    BY <1>1 DEF BookedRuns
<1>9. \A r \in Runs : intentOf[r] = None
    BY <1>1
<1>10. Once
    BY <1>1, <1>8, <1>9 DEF Once, States, Finished
<1>11. QED
    BY <1>6, <1>7, <1>10 DEF BInv

LEMMA BookedRunsType ==
    ASSUME NEW state, state.ledger \in Seq(Entries)
    PROVE  BookedRuns(state) \subseteq Runs
<1>1. \A n \in 1..Len(state.ledger) : state.ledger[n] \in Entries
    OBVIOUS
<1>2. QED
    BY <1>1 DEF BookedRuns, Entries

\* A run begins: its intent is pending, so every other run of it was interrupted.
LEMMA InstructBInv ==
    ASSUME IInv, BInv, NEW r \in Runs, NEW i \in Intents, Instruct(r, i)
    PROVE  BInv'
<1> DEFINE after == Marked(memory, r, "pending")
<1>1. /\ pc = "rest"
      /\ intentOf[r] = None
      /\ intentOf' = [ intentOf EXCEPT ![r] = i ]
      /\ running' = r
      /\ Executable(i)
      /\ memory.positions[IntentData[i].from] # NoPosition
      /\ Push(after, "transfer", r)
    BY DEF Instruct, Marked, Covers
<1>2. /\ memory' = after
      /\ disk' \in { disk, after }
      /\ interrupted \subseteq interrupted'
      /\ pc' \in { "transfer", "rest" }
      /\ pc' = "rest" => r \in interrupted'
    BY <1>1 DEF Push, Assign, Saved, NotSaved
<1>3. Saves'
    BY <1>1 DEF Push, Assign, Saved, NotSaved, Saves, BInv
<1>4. after.ledger = memory.ledger /\ after.intents = memory.intents
    BY InstructionWrite DEF IInv
<1>5. after.positions = memory.positions
    BY DEF IInv, Sound, Shape, Marked
<1>6. /\ intentOf \in [ Runs -> Intents \union {None} ]
      /\ memory.ledger \in Seq(Entries)
      /\ disk.ledger \in Seq(Entries)
      /\ None \notin Intents
    BY DurableAssumption DEF IInv, Sound, Shape
<1>7. intentOf'[r] = i /\ \A s \in Runs \ {r} : intentOf'[s] = intentOf[s]
    BY <1>1, <1>6
<1> HIDE DEF after
<1>8. /\ Books /\ Once
      /\ memory.positions \in Quantities
      /\ Left(memory) /\ Left(disk)
    BY DEF BInv, Books, Left
<1>9. \A a \in Accounts : Gap(after, a) = Gap(memory, a) /\ Gap(memory, a) \in Int
    BY <1>4, <1>5, <1>6, <1>8, GapType DEF Gap
<1>10. Left(after)
    BY <1>5, <1>8, <1>9 DEF Left
<1>11. "transfer" \notin Moving
    BY DEF Moving
<1>12. InTransit("transfer", i) = 0 /\ \A a : Unbooked("transfer", i, a) = 0
    BY <1>11, NotMoving
<1>13. Underway(after, "transfer", i)
    <2>1. Ready(after, "transfer", i)
        BY <1>1, <1>5 DEF Ready
    <2>2. Total(after.positions) + InTransit("transfer", i) <= Total(Opening)
        <3>1. Total(memory.positions) \in Int /\ Total(memory.positions) <= Total(Opening)
            BY <1>8, TotalType DEF Left
        <3>2. Total(memory.positions) + 0 = Total(memory.positions)
            BY <3>1
        <3>3. QED
            BY <1>5, <1>12, <3>1, <3>2, Zenon
    <2>3. ASSUME NEW a \in Accounts
          PROVE  Allowed(Gap(after, a) - Unbooked("transfer", i, a), a)
        <3>1. Gap(memory, a) - 0 = Gap(memory, a)
            BY <1>9
        <3>2. Allowed(Gap(memory, a), a)
            BY <1>8 DEF Left
        <3>3. QED
            BY <1>9, <1>12, <3>1, <3>2, Zenon
    <2>4. QED
        BY <2>1, <2>2, <2>3 DEF Underway
<1>14. ASSUME interrupted' = {}, NEW a \in Accounts
       PROVE  pc' = "transfer" /\ Gap(after, a) = Unbooked("transfer", i, a)
    <2>1. interrupted = {} /\ pc' = "transfer"
        BY <1>2, <1>14
    <2>2. Gap(memory, a) = 0
        BY <1>1, <1>8, <2>1 DEF Books
    <2>3. QED
        BY <1>9, <1>12, <2>1, <2>2
<1>15. Books'
    <2>1. Left(memory') /\ Left(disk')
        BY <1>2, <1>8, <1>10
    <2>2. pc' # "rest" => Underway(memory', pc', i)
        BY <1>2, <1>13
    <2>3. interrupted' = {} => \A a \in Accounts :
            Gap(memory', a) = IF pc' = "rest" THEN 0 ELSE Unbooked(pc', i, a)
        BY <1>2, <1>14
    <2>4. QED
        BY <1>1, <1>7, <2>1, <2>2, <2>3 DEF Books
<1>16. ASSUME NEW state \in States', NEW s \in BookedRuns(state)
       PROVE  intentOf'[s] # None
    <2>1. s \in BookedRuns(memory) \union BookedRuns(disk)
        BY <1>2, <1>4, <1>16 DEF States, BookedRuns
    <2>2. s \in Runs /\ intentOf[s] # None
        BY <1>6, <1>8, <2>1, BookedRunsType DEF Once, States
    <2>3. QED
        BY <1>1, <1>7, <2>2
<1>17. ASSUME NEW state \in States', NEW s \in Runs, Finished(s)'
       PROVE  state.intents[intentOf'[s]].status # "pending"
    <2>1. s # r /\ Finished(s)
        BY <1>1, <1>2, <1>7, <1>17 DEF Finished
    <2>2. /\ memory.intents[intentOf[s]].status # "pending"
          /\ disk.intents[intentOf[s]].status # "pending"
        BY <1>8, <2>1 DEF Once, States
    <2>3. QED
        BY <1>2, <1>4, <1>7, <1>17, <2>1, <2>2 DEF States
<1>18. ASSUME NEW t \in Runs \ {r}, intentOf[t] = i
       PROVE  t \in interrupted'
    <2>1. memory.intents[i].status = "pending"
        BY <1>1 DEF Executable, IInv, Sound, Shape, IntentStatuses
    <2>2. ~Finished(t)
        BY <1>8, <1>18, <2>1 DEF Once, States
    <2>3. QED
        BY <1>1, <1>2, <1>6, <1>18, <2>2 DEF Finished
<1>19. ASSUME NEW s \in Runs, NEW t \in Runs, s # t, intentOf'[s] # None,
              intentOf'[s] = intentOf'[t]
       PROVE  { s, t } \intersect interrupted' # {}
    <2>1. CASE s = r
        BY <1>7, <1>18, <1>19, <2>1
    <2>2. CASE t = r
        BY <1>7, <1>18, <1>19, <2>2
    <2>3. CASE s # r /\ t # r
        BY <1>2, <1>7, <1>8, <1>19, <2>3 DEF Once
    <2>4. QED
        BY <2>1, <2>2, <2>3
<1>20. Once'
    BY <1>16, <1>17, <1>19 DEF Once
<1>21. QED
    BY <1>3, <1>15, <1>20 DEF BInv

LEMMA OtherWriteBInv ==
    ASSUME BInv, OtherWrite
    PROVE  BInv'
<1>1. /\ memory' = memory /\ disk' = memory
      /\ pc = "rest" /\ pc' = pc /\ running' = running /\ intentOf' = intentOf
      /\ interrupted' = interrupted /\ torn' = FALSE
    BY DEF OtherWrite
<1>2. Books'
    BY <1>1 DEF BInv, Books
<1>3. Once'
    BY <1>1 DEF BInv, Once, States, Finished
<1>4. QED
    BY <1>1, <1>2, <1>3 DEF BInv, Saves

\* The disk is left with no more than memory may have, and the run that was under
\* way counts as interrupted.
LEMMA CrashBInv ==
    ASSUME BInv, Crash
    PROVE  BInv'
<1>1. /\ memory' = disk /\ disk' = disk
      /\ pc' = "rest" /\ torn' = FALSE
      /\ running' = running /\ intentOf' = intentOf
      /\ interrupted \subseteq interrupted'
      /\ pc # "rest" => running \in interrupted'
      /\ pc = "rest" => torn
    BY DEF Crash
<1>2. interrupted' # {}
    BY <1>1 DEF BInv, Saves
<1>3. Books'
    BY <1>1, <1>2 DEF BInv, Books
<1>4. \A s : Finished(s)' => Finished(s)
    BY <1>1 DEF Finished
<1>5. Once'
    BY <1>1, <1>4 DEF BInv, Once, States
<1>6. QED
    BY <1>1, <1>3, <1>5 DEF BInv, Saves

LEMMA NextBInv == IInv /\ IInv' /\ BInv /\ [Next]_vars => BInv'
<1> SUFFICES ASSUME IInv, IInv', BInv, [Next]_vars PROVE BInv'
    OBVIOUS
<1>1. ASSUME NEW r \in Runs, NEW i \in Intents, Instruct(r, i) PROVE BInv'
    BY <1>1, InstructBInv
<1>2. Books
    BY DEF BInv
<1>3. ASSUME NEW r \in Runs, TransferFails(r) \/ TransferSucceeds(r) \/ Settle(r)
      PROVE  BInv'
    <2>1. \E after, next : Advances(after, next, r)
        BY <1>2, <1>3, TransferAdvances, CreateDestinationAdvances, DebitSourceAdvances,
           CreditDestinationAdvances, RecordDebitAdvances, RecordCreditAdvances DEF Settle
    <2>2. QED
        BY <2>1, AdvanceBInv
<1>4. ASSUME NEW r \in Runs, WriteTransactionId(r) \/ WriteStatus(r) PROVE BInv'
    <2>1. \E after, next : Advances(after, next, r)
        BY <1>2, <1>4, WriteTransactionIdAdvances, WriteStatusAdvances
    <2>2. QED
        BY <2>1, AdvanceBInv
<1>5. CASE OtherWrite
    BY <1>5, OtherWriteBInv
<1>6. CASE Crash
    BY <1>6, CrashBInv
<1>7. CASE UNCHANGED vars
    <2>1. Books'
        BY <1>2, <1>7 DEF vars, Books
    <2>2. QED
        BY <1>7, <2>1 DEF vars, BInv, Saves, Once, States, Finished
<1>8. QED
    BY <1>1, <1>3, <1>4, <1>5, <1>6, <1>7 DEF Next

LEMMA BooksAreKept == Spec => []BInv
<1>1. Init => IInv /\ BInv
    BY InitIInv, InitBInv
<1>2. (IInv /\ BInv) /\ [Next]_vars => (IInv /\ BInv)'
    BY NextIInv, NextBInv
<1>3. QED
    BY <1>1, <1>2, PTL DEF Spec

\* Wherever crashes and failing writes interrupt runs, positions never hold more than
\* they opened with, in memory or on the disk: settlementEngine.ts debits, and saves,
\* before it credits.
THEOREM QuantityIsNeverMade == Spec => []NeverInflated
<1>1. BInv => NeverInflated
    BY DEF BInv, Books, Left, NeverInflated, States
<1>2. QED
    BY <1>1, BooksAreKept, PTL

\* The ledger is never ahead of the positions: settlementEngine.ts pushes the entries
\* after the quantities they record have moved.
THEOREM EntriesFollowMoves == Spec => []NothingBookedUnmoved
<1>1. BInv => NothingBookedUnmoved
    BY DEF BInv, Books, Left, Allowed, NothingBookedUnmoved, States
<1>2. QED
    BY <1>1, BooksAreKept, PTL

\* At rest the disk has all that memory has unless the last write failed, and where
\* nothing was interrupted the positions are what the ledger says, though the credit
\* of a new destination goes to an object that is no proxy.
THEOREM RestIsSaved == Spec => []SavedAtRest
<1>1. ASSUME BInv PROVE SavedAtRest
    <2>1. (pc = "rest" /\ ~torn) => disk = memory
        BY <1>1 DEF BInv, Saves
    <2>2. (pc = "rest" /\ interrupted = {}) => \A a \in Accounts : Gap(disk, a) = 0
        BY <1>1 DEF BInv, Books, Saves
    <2>3. QED
        BY <2>1, <2>2 DEF SavedAtRest
<1>2. QED
    BY <1>1, BooksAreKept, PTL

\* Of two runs that entered the ledger for one intent, one was interrupted: the
\* status guard of intentExecutionEngine.ts lets no other repetition through.
THEOREM RepeatsAreExplained == Spec => []RepeatExplained
<1>1. ASSUME IInv, BInv, NEW state \in States, NEW r \in BookedRuns(state),
             NEW s \in BookedRuns(state), r # s, intentOf[r] = intentOf[s]
      PROVE  { r, s } \intersect interrupted # {}
    <2>1. r \in Runs /\ s \in Runs
        BY <1>1, BookedRunsType DEF IInv, Sound, Shape, States
    <2>2. intentOf[r] # None
        BY <1>1 DEF BInv, Once
    <2>3. QED
        BY <1>1, <2>1, <2>2 DEF BInv, Once
<1>2. IInv /\ BInv => RepeatExplained
    BY <1>1 DEF RepeatExplained
<1>3. QED
    BY <1>2, InitIInv, NextIInv, BooksAreKept, PTL DEF Spec
=============================================================================
