----------------------- MODULE BatchSettlementProofs ------------------------
(***************************************************************************)
(* Theorems about BatchSettlement, for every batch of any length.          *)
(*                                                                         *)
(* IInv says of a settled transaction how its positions and its ledger     *)
(* came about; what that means for each position is arithmetic over the    *)
(* movements, argued movement by movement (Balanced).                      *)
(***************************************************************************)
EXTENDS BatchSettlement, SumLemmas, SequenceTheorems, NaturalsInduction, TLAPS

Holdings == [ Keys -> Int \union {NoPosition} ]

\* An external movement as an adapter may report it.
Answers ==
    { [ from |-> m.from, to |-> m.to, representation |-> rep.id, quantity |-> quantity ] :
        m \in Movements, rep \in UNION Registered, quantity \in Delivered }

\* Every movement is covered by the position it leaves, apart from the others.
Covered(holdings, movements) ==
    \A n \in 1..Len(movements) :
        /\ holdings[Source(movements[n])] # NoPosition
        /\ holdings[Source(movements[n])] >= movements[n].quantity

IInv ==
    /\ batch \in Seq(Movements)
    /\ opening \in Openings
    /\ representations \in Registered
    /\ external \in Seq(Answers)
    /\ Len(external) <= Len(batch)
    /\ instruction = "executing" => status = "instruction_created"
    /\ IF status = "settled"
       THEN /\ Len(external) = Len(batch)
            /\ Reconciled = "matched"
            /\ Covered(opening, batch)
            /\ positions = Applied(opening, batch)
            /\ ledger = Recorded(batch)
       ELSE positions = opening /\ ledger = << >>

-----------------------------------------------------------------------------
\* Walks through the status table.

LEMMA CanTransition ==
    /\ CanTransitionTransaction("created", "failed")
    /\ CanTransitionTransaction("created", "instruction_created")
    /\ CanTransitionTransaction("instruction_created", "failed")
    /\ CanTransitionTransaction("instruction_created", "externally_settled")
    /\ CanTransitionTransaction("externally_settled", "failed")
    /\ CanTransitionTransaction("externally_settled", "pending")
    /\ CanTransitionTransaction("externally_settled", "reconciled")
    /\ CanTransitionTransaction("reconciled", "failed")
    /\ CanTransitionTransaction("reconciled", "internally_settled")
    /\ CanTransitionTransaction("internally_settled", "settled")
BY DEF CanTransitionTransaction, TransactionTransitions

\* A path none of whose steps is refused ends where it leads.
LEMMA WalkAll ==
    ASSUME NEW a, NEW path, path # << >>,
           \A k \in 1..Len(path) :
                CanTransitionTransaction(IF k = 1 THEN a ELSE path[k - 1], path[k])
    PROVE  Walk(a, path) = path[Len(path)]
<1>1. RefusedSteps(a, path) = {}
    BY DEF RefusedSteps
<1>2. QED
    BY <1>1 DEF Walk, CanWalk

LEMMA WalkOne ==
    ASSUME NEW a, NEW b, CanTransitionTransaction(a, b)
    PROVE  Walk(a, << b >>) = b
BY WalkAll

LEMMA WalkTwo ==
    ASSUME NEW a, NEW b, NEW c,
           CanTransitionTransaction(a, b), CanTransitionTransaction(b, c)
    PROVE  Walk(a, << b, c >>) = c
<1> DEFINE path == << b, c >>
<1>1. \A k \in 1..Len(path) : k = 1 \/ k = 2
    OBVIOUS
<1>2. \A k \in 1..Len(path) :
        CanTransitionTransaction(IF k = 1 THEN a ELSE path[k - 1], path[k])
    BY <1>1
<1>3. Walk(a, path) = path[Len(path)]
    BY <1>2, WalkAll
<1>4. QED
    BY <1>3

LEMMA WalkThree ==
    ASSUME NEW a, NEW b, NEW c, NEW d,
           CanTransitionTransaction(a, b), CanTransitionTransaction(b, c),
           CanTransitionTransaction(c, d)
    PROVE  Walk(a, << b, c, d >>) = d
<1> DEFINE path == << b, c, d >>
<1>1. \A k \in 1..Len(path) : k = 1 \/ k = 2 \/ k = 3
    OBVIOUS
<1>2. \A k \in 1..Len(path) :
        CanTransitionTransaction(IF k = 1 THEN a ELSE path[k - 1], path[k])
    BY <1>1
<1>3. Walk(a, path) = path[Len(path)]
    BY <1>2, WalkAll
<1>4. QED
    BY <1>3

LEMMA WalkSettled ==
    Walk("instruction_created",
         << "externally_settled", "reconciled", "internally_settled", "settled" >>) = "settled"
<1> DEFINE path == << "externally_settled", "reconciled", "internally_settled", "settled" >>
<1>1. \A k \in 1..Len(path) : k = 1 \/ k = 2 \/ k = 3 \/ k = 4
    OBVIOUS
<1>2. \A k \in 1..Len(path) :
        CanTransitionTransaction(IF k = 1 THEN "instruction_created" ELSE path[k - 1], path[k])
    BY <1>1, CanTransition
<1>3. Walk("instruction_created", path) = path[Len(path)]
    BY <1>2, WalkAll
<1>4. QED
    BY <1>3

\* The walks of the engine on a batch that does not settle.
LEMMA Walks ==
    /\ Walk("created", << "failed" >>) = "failed"
    /\ Walk("created", << "instruction_created" >>) = "instruction_created"
    /\ Walk("created", << "instruction_created", "failed" >>) = "failed"
    /\ Walk("instruction_created", << "failed" >>) = "failed"
    /\ Walk("instruction_created", << "externally_settled", "failed" >>) = "failed"
    /\ Walk("instruction_created", << "externally_settled", "pending" >>) = "pending"
    /\ Walk("instruction_created", << "externally_settled", "reconciled", "failed" >>) = "failed"
BY CanTransition, WalkOne, WalkTwo, WalkThree

-----------------------------------------------------------------------------
\* The invariant.

LEMMA BatchTypes ==
    ASSUME NEW b \in Batches
    PROVE  b \in Seq(Movements)
BY DEF Batches

LEMMA InitIInv == Init => IInv
<1> SUFFICES ASSUME Init PROVE IInv
    OBVIOUS
<1>1. batch \in Seq(Movements)
    BY BatchTypes DEF Init
<1>2. Len(external) = 0 /\ external \in Seq(Answers) /\ Len(batch) \in Nat
    BY <1>1 DEF Init
<1>3. QED
    BY <1>1, <1>2 DEF Init, IInv

\* Any step that does not settle leaves positions and ledger as they were.
LEMMA UnsettledStep ==
    ASSUME IInv, status # "settled", status' # "settled",
           UNCHANGED << batch, opening, positions, representations, ledger >>,
           external' \in Seq(Answers), Len(external') <= Len(batch),
           instruction' = "executing" => status' = "instruction_created"
    PROVE  IInv'
BY DEF IInv

LEMMA RefuseEmptyStep == IInv /\ RefuseEmpty => IInv'
<1> SUFFICES ASSUME IInv, RefuseEmpty PROVE IInv'
    OBVIOUS
<1>1. status' = "failed" /\ status = "created"
    BY Walks DEF RefuseEmpty, Ends
<1>2. instruction # "executing"
    BY <1>1 DEF IInv
<1>3. QED
    BY <1>1, <1>2, UnsettledStep DEF RefuseEmpty, IInv

LEMMA InstructStep == IInv /\ Instruct => IInv'
<1> SUFFICES ASSUME IInv, Instruct PROVE IInv'
    OBVIOUS
<1>1. /\ status = "created"
      /\ \/ instruction' = "executing" /\ status' = "instruction_created"
         \/ instruction' = "failed" /\ status' = "failed"
    BY Walks DEF Instruct, Ends
<1>2. QED
    BY <1>1, UnsettledStep DEF Instruct, IInv

LEMMA TransferNextStep ==
    ASSUME IInv, NEW quantity \in Delivered, TransferNext(quantity)
    PROVE  IInv'
<1> DEFINE m == batch[Len(external) + 1]
<1>1. PICK rep \in RepresentationsOf(m.asset, representations) :
            external' = Append(external, [ from |-> m.from, to |-> m.to,
                                           representation |-> rep.id,
                                           quantity |-> quantity ])
    BY DEF TransferNext
<1>2. m \in Movements
    BY DEF TransferNext, IInv
<1>3. rep \in UNION Registered
    BY <1>1 DEF RepresentationsOf, IInv
<1> DEFINE answer == [ from |-> m.from, to |-> m.to, representation |-> rep.id,
                       quantity |-> quantity ]
<1>4. answer \in Answers
    <2> HIDE DEF m
    <2>1. QED
        BY <1>2, <1>3 DEF Answers
<1>5. external' = Append(external, answer)
    BY <1>1
<1> HIDE DEF answer
<1>6. external' \in Seq(Answers) /\ Len(external') = Len(external) + 1
    BY <1>4, <1>5 DEF IInv
<1>7. Len(external') <= Len(batch)
    BY <1>6 DEF TransferNext, IInv
<1>8. status = "instruction_created"
    BY DEF TransferNext, IInv
<1>9. QED
    BY <1>6, <1>7, <1>8, UnsettledStep DEF TransferNext

LEMMA TransferFailsStep == IInv /\ TransferFails => IInv'
<1> SUFFICES ASSUME IInv, TransferFails PROVE IInv'
    OBVIOUS
<1>1. status = "instruction_created"
    BY DEF TransferFails, IInv
<1>2. status' = "failed"
    BY <1>1, Walks DEF TransferFails, Ends
<1>3. QED
    BY <1>1, <1>2, UnsettledStep DEF TransferFails, IInv

LEMMA FinishStep == IInv /\ Finish => IInv'
<1> SUFFICES ASSUME IInv, Finish PROVE IInv'
    OBVIOUS
<1>1. /\ status = "instruction_created"
      /\ instruction' = "settled"
      /\ Len(external) = Len(batch)
      /\ positions = opening
      /\ UNCHANGED << batch, opening, representations, external >>
    BY DEF Finish, Answered, IInv
<1>2. ASSUME NEW path, DoNotSettle(path),
             path \in { << "externally_settled", "failed" >>,
                        << "externally_settled", "pending" >>,
                        << "externally_settled", "reconciled", "failed" >> }
      PROVE  IInv'
    <2>1. status' \in { "failed", "pending" }
        BY <1>1, <1>2, Walks DEF DoNotSettle, Ends
    <2>2. UNCHANGED << positions, ledger >>
        BY <1>2 DEF DoNotSettle
    <2>3. QED
        BY <1>1, <2>1, <2>2, UnsettledStep DEF IInv
<1>3. CASE Reconciled = "matched" /\ Settleable
    <2>1. positions' = Applied(opening, batch) /\ ledger' = Recorded(batch)
        BY <1>1, <1>3 DEF Finish, Settle
    <2>2. Covered(opening, batch)
        BY <1>1, <1>3 DEF Settleable, Covered
    <2>3. Reconciled' = "matched"
        BY <1>1, <1>3 DEF Reconciled, Settlements
    <2>4. status' = "settled"
        BY <1>1, <1>3, WalkSettled DEF Finish, Settle, Ends
    <2>5. QED
        BY <1>1, <2>1, <2>2, <2>3, <2>4 DEF IInv
<1>4. CASE ~(Reconciled = "matched" /\ Settleable)
    BY <1>2, <1>4 DEF Finish, Settle
<1>5. QED
    BY <1>3, <1>4

LEMMA Invariance == Spec => []IInv
<1>1. IInv /\ UNCHANGED vars => IInv'
    BY DEF IInv, vars, Reconciled, Settlements
<1>2. IInv /\ [Next]_vars => IInv'
    BY <1>1, RefuseEmptyStep, InstructStep, TransferNextStep, TransferFailsStep, FinishStep
       DEF Next
<1>3. QED
    BY InitIInv, <1>2, PTL DEF Spec

-----------------------------------------------------------------------------
\* The positions movement by movement.

LEMMA LeastNatural ==
    ASSUME NEW T \in SUBSET Nat, T # {}
    PROVE  \E x \in T : \A y \in T : x <= y
<1> DEFINE less == OpToRel(<, Nat)
<1>1. \E x \in T : \A y \in T : ~(<< y, x >> \in less)
    BY WFMin, NatLessThanWellFounded, Zenon
<1>2. \A x, y \in Nat : y < x => << y, x >> \in less
    BY Zenon DEF OpToRel
<1> HIDE DEF less
<1>3. PICK x \in T : \A y \in T : << y, x >> \notin less
    BY <1>1, Zenon
<1>4. \A y \in T : ~(y < x)
    BY <1>2, <1>3, Zenon
<1>5. QED
    BY <1>3, <1>4

\* after[n] is what the first n of `movements` make of `holdings`.
Following(after, holdings, movements, last) ==
    after = [ n \in 0..last |->
                IF n = 0 THEN holdings ELSE Transferred(after[n - 1], movements[n]) ]

LEMMA FollowingExists ==
    ASSUME NEW holdings, NEW movements, NEW last \in Nat
    PROVE  \E after : Following(after, holdings, movements, last)
<1> DEFINE B == { n \in Nat : ~\E after : Following(after, holdings, movements, n) }
<1>1. SUFFICES ASSUME B # {} PROVE FALSE
    OBVIOUS
<1>2. PICK n \in B : \A k \in B : n <= k
    <2> HIDE DEF B
    <2>1. B \in SUBSET Nat
        BY DEF B
    <2>2. QED
        BY <1>1, <2>1, LeastNatural
<1>3. CASE n = 0
    <2>1. Following([ k \in 0..0 |-> holdings ], holdings, movements, 0)
        BY DEF Following
    <2>2. QED
        BY <1>2, <1>3, <2>1
<1>4. CASE n # 0
    <2>1. n - 1 \in Nat /\ n - 1 \notin B
        BY <1>2, <1>4
    <2>2. PICK before : Following(before, holdings, movements, n - 1)
        BY <2>1
    <2> DEFINE after == [ k \in 0..n |-> IF k = n THEN Transferred(before[n - 1], movements[n])
                                        ELSE before[k] ]
    <2>3. \A k \in 0..n - 1 : before[k] = IF k = 0 THEN holdings
                                          ELSE Transferred(before[k - 1], movements[k])
        BY <2>2 DEF Following
    <2>4. \A k \in 0..n : after[k] = IF k = 0 THEN holdings
                                     ELSE Transferred(after[k - 1], movements[k])
        BY <1>4, <2>1, <2>3
    <2>5. after = [ k \in 0..n |-> after[k] ]
        OBVIOUS
    <2> HIDE DEF after
    <2>6. Following(after, holdings, movements, n)
        BY <2>4, <2>5 DEF Following
    <2>7. QED
        BY <1>2, <2>6
<1>5. QED
    BY <1>3, <1>4

LEMMA AppliedFollows ==
    ASSUME NEW holdings, NEW movements, Len(movements) \in Nat
    PROVE  \E after : /\ Applied(holdings, movements) = after[Len(movements)]
                      /\ after[0] = holdings
                      /\ \A n \in 1..Len(movements) :
                            after[n] = Transferred(after[n - 1], movements[n])
<1> DEFINE after == CHOOSE f : Following(f, holdings, movements, Len(movements))
<1>1. Following(after, holdings, movements, Len(movements))
    BY FollowingExists
<1>2. Applied(holdings, movements) = after[Len(movements)]
    BY DEF Applied, Following
<1> HIDE DEF after
<1>3. QED
    BY <1>1, <1>2 DEF Following

-----------------------------------------------------------------------------
\* What a movement and its two entries do to one position.

Debit(m) == [ type |-> "debit", key |-> Source(m), quantity |-> m.quantity ]

Credit(m) == [ type |-> "credit", key |-> Destination(m), quantity |-> m.quantity ]

Effect(entry, key) ==
    IF entry.key # key THEN 0 ELSE IF entry.type = "credit" THEN entry.quantity ELSE -entry.quantity

NetOf(log, key) == SumOver([ n \in 1..Len(log) |-> Effect(log[n], key) ], 1..Len(log))

Spends(m, key) == IF Source(m) = key THEN m.quantity ELSE 0

LEMMA EntriesRecorded ==
    ASSUME NEW movements, Len(movements) \in Nat
    PROVE  /\ Len(Recorded(movements)) = 2 * Len(movements)
           /\ \A n \in 1..Len(movements) :
                /\ Recorded(movements)[2 * n - 1] = Debit(movements[n])
                /\ Recorded(movements)[2 * n] = Credit(movements[n])
<1>1. Len(Recorded(movements)) = 2 * Len(movements)
    BY DEF Recorded
<1>2. ASSUME NEW n \in 1..Len(movements)
      PROVE  /\ Recorded(movements)[2 * n - 1] = Debit(movements[n])
             /\ Recorded(movements)[2 * n] = Credit(movements[n])
    <2>1. /\ 2 * n - 1 \in 1..2 * Len(movements)
          /\ 2 * n \in 1..2 * Len(movements)
          /\ ((2 * n - 1) + 1) \div 2 = n
          /\ (2 * n + 1) \div 2 = n
          /\ 2 - ((2 * n - 1) % 2) = 1
          /\ 2 - ((2 * n) % 2) = 2
        OBVIOUS
    <2>2. /\ Entries(movements[n])[1] = Debit(movements[n])
          /\ Entries(movements[n])[2] = Credit(movements[n])
        BY DEF Entries, Debit, Credit
    <2>3. /\ Recorded(movements)[2 * n - 1] = Entries(movements[n])[1]
          /\ Recorded(movements)[2 * n] = Entries(movements[n])[2]
        BY <2>1 DEF Recorded
    <2>4. QED
        BY <2>2, <2>3
<1>3. QED
    BY <1>1, <1>2

LEMMA EffectsOf ==
    ASSUME NEW m \in Movements, NEW key
    PROVE  /\ Effect(Debit(m), key) = IF Source(m) = key THEN -m.quantity ELSE 0
           /\ Effect(Credit(m), key) = IF Destination(m) = key THEN m.quantity ELSE 0
           /\ Effect(Debit(m), key) \in Int /\ Effect(Credit(m), key) \in Int
           /\ Spends(m, key) \in Int
           /\ m.quantity \in Nat \ {0}
<1>1. m.quantity \in Nat \ {0}
    BY BatchAssumption
<1>2. QED
    BY <1>1 DEF Effect, Debit, Credit, Spends

LEMMA OneMovement ==
    ASSUME NEW holdings \in Holdings, NEW m \in Movements, holdings[Source(m)] \in Int,
           NEW after, after = Transferred(holdings, m)
    PROVE  /\ after \in Holdings
           /\ \A key \in Keys : holdings[key] \in Int => after[key] \in Int
           /\ \A key \in Keys :
                OrZero(after[key])
                    = (OrZero(holdings[key]) + Effect(Debit(m), key)) + Effect(Credit(m), key)
           /\ \A key \in Keys : OrZero(after[key]) >= OrZero(holdings[key]) - Spends(m, key)
<1> DEFINE q == m.quantity
           s == Source(m)
           d == Destination(m)
           debited == [ holdings EXCEPT ![s] = @ - q ]
<1>1. q \in Nat \ {0} /\ s \in Keys /\ d \in Keys
    BY BatchAssumption DEF Keys
<1>2. after = [ debited EXCEPT ![d] = OrZero(@) + q ]
    BY DEF Transferred
<1>3. NoPosition \notin Int
    BY BatchAssumption
<1>4. \A key \in Keys : holdings[key] \in Int \union {NoPosition}
    BY DEF Holdings
<1> HIDE DEF q, s, d
<1>5. debited \in Holdings /\ debited[s] = holdings[s] - q
      /\ \A key \in Keys \ {s} : debited[key] = holdings[key]
    <2>1. holdings[s] - q \in Int
        BY <1>1 DEF s
    <2>2. QED
        BY <1>1, <2>1 DEF Holdings
<1> HIDE DEF debited
<1>6. OrZero(debited[d]) \in Int
    BY <1>1, <1>5 DEF Holdings, OrZero
<1>7. /\ after \in Holdings
      /\ after[d] = OrZero(debited[d]) + q
      /\ \A key \in Keys \ {d} : after[key] = debited[key]
    <2>1. OrZero(debited[d]) + q \in Int
        BY <1>1, <1>6
    <2>2. QED
        BY <1>1, <1>2, <1>5, <2>1 DEF Holdings
<1>8. holdings[s] \in Int /\ debited[s] \in Int
    BY <1>1, <1>5 DEF s
<1>9. ASSUME NEW key \in Keys
      PROVE  /\ holdings[key] \in Int => after[key] \in Int
             /\ OrZero(after[key])
                    = (OrZero(holdings[key]) + (IF s = key THEN -q ELSE 0))
                        + (IF d = key THEN q ELSE 0)
             /\ OrZero(after[key]) >= OrZero(holdings[key]) - (IF s = key THEN q ELSE 0)
    <2>1. OrZero(holdings[key]) \in Int
        BY <1>4 DEF OrZero
    <2>2. CASE key = s /\ key = d
        <3>1. /\ OrZero(holdings[key]) = holdings[s]
              /\ OrZero(debited[d]) = holdings[s] - q
              /\ after[key] = (holdings[s] - q) + q
            BY <1>3, <1>5, <1>7, <1>8, <2>2 DEF OrZero
        <3>2. after[key] = holdings[s] /\ OrZero(after[key]) = holdings[s]
            BY <1>1, <1>3, <1>8, <3>1 DEF OrZero
        <3>3. QED
            <4>1. after[key] \in Int /\ holdings[s] = (holdings[s] - q) + q
                BY <1>1, <1>8, <3>2
            <4>2. holdings[s] >= holdings[s] - q
                BY <1>1, <1>8
            <4>3. QED
                BY <2>2, <3>1, <3>2, <4>1, <4>2
    <2>3. CASE key = s /\ key # d
        <3>1. /\ OrZero(holdings[key]) = holdings[s]
              /\ after[key] = holdings[s] - q
              /\ OrZero(after[key]) = holdings[s] - q
            BY <1>3, <1>5, <1>7, <1>8, <2>3 DEF OrZero
        <3>2. QED
            BY <1>1, <1>8, <2>3, <3>1
    <2>4. CASE key # s /\ key = d
        <3>1. /\ after[key] = OrZero(holdings[key]) + q
              /\ OrZero(after[key]) = OrZero(holdings[key]) + q
            BY <1>1, <1>3, <1>5, <1>7, <2>1, <2>4 DEF OrZero
        <3>2. QED
            BY <1>1, <2>1, <2>4, <3>1
    <2>5. CASE key # s /\ key # d
        <3>1. after[key] = holdings[key]
            BY <1>5, <1>7, <2>5
        <3>2. QED
            BY <2>1, <2>5, <3>1
    <2>6. QED
        BY <2>2, <2>3, <2>4, <2>5
<1>10. \A key \in Keys :
        /\ Effect(Debit(m), key) = IF s = key THEN -q ELSE 0
        /\ Effect(Credit(m), key) = IF d = key THEN q ELSE 0
        /\ Spends(m, key) = IF s = key THEN q ELSE 0
    BY EffectsOf DEF q, s, d, Spends
<1>11. QED
    BY <1>7, <1>9, <1>10

-----------------------------------------------------------------------------
\* A batch of which every movement is covered on its own changes a position by the
\* net of its entries, and takes from it no more than the movements that leave it.
LEMMA Balanced ==
    ASSUME NEW holdings \in Holdings, NEW movements \in Seq(Movements),
           Covered(holdings, movements), NEW key \in Keys
    PROVE  /\ OrZero(Applied(holdings, movements)[key])
                = OrZero(holdings[key]) + NetOf(Recorded(movements), key)
           /\ OrZero(Applied(holdings, movements)[key])
                >= OrZero(holdings[key])
                   - SumOver([ n \in 1..Len(movements) |-> Spends(movements[n], key) ],
                             1..Len(movements))
           /\ Applied(holdings, movements) \in Holdings
<1> DEFINE last == Len(movements)
           log == Recorded(movements)
           net == [ n \in 1..Len(log) |-> Effect(log[n], key) ]
           spent == [ n \in 1..last |-> Spends(movements[n], key) ]
<1>1. last \in Nat /\ \A n \in 1..last : movements[n] \in Movements
    OBVIOUS
<1>2. PICK after : /\ Applied(holdings, movements) = after[last]
                   /\ after[0] = holdings
                   /\ \A n \in 1..last : after[n] = Transferred(after[n - 1], movements[n])
    BY <1>1, AppliedFollows
<1>3. Len(log) = 2 * last
    BY <1>1, EntriesRecorded
<1>4. ASSUME NEW n \in 1..last
      PROVE  /\ net[2 * n - 1] = Effect(Debit(movements[n]), key)
             /\ net[2 * n] = Effect(Credit(movements[n]), key)
             /\ net[2 * n - 1] \in Int /\ net[2 * n] \in Int
             /\ spent[n] = Spends(movements[n], key) /\ spent[n] \in Int
    <2>1. 2 * n - 1 \in 1..Len(log) /\ 2 * n \in 1..Len(log)
        BY <1>1, <1>3
    <2>2. log[2 * n - 1] = Debit(movements[n]) /\ log[2 * n] = Credit(movements[n])
        BY <1>1, EntriesRecorded
    <2>3. QED
        BY <1>1, <2>1, <2>2, EffectsOf
<1>5. \A k \in 1..2 * last : net[k] \in Int
    <2>1. SUFFICES ASSUME NEW k \in 1..2 * last PROVE net[k] \in Int
        OBVIOUS
    <2>2. \E n \in 1..last : k = 2 * n - 1 \/ k = 2 * n
        <3>1. (k + 1) \div 2 \in 1..last
            BY <1>1
        <3>2. k = 2 * ((k + 1) \div 2) - 1 \/ k = 2 * ((k + 1) \div 2)
            OBVIOUS
        <3>3. QED
            BY <3>1, <3>2
    <2>3. QED
        BY <1>4, <2>2
<1>6. \A k \in Keys : holdings[k] \in Int \union {NoPosition}
    BY DEF Holdings
<1>7. OrZero(holdings[key]) \in Int
    BY <1>6 DEF OrZero
<1> HIDE DEF net, spent, log, last
<1> DEFINE Claim(n) ==
            /\ after[n] \in Holdings
            /\ \A k \in Keys : holdings[k] \in Int => after[n][k] \in Int
            /\ OrZero(after[n][key]) = OrZero(holdings[key]) + SumOver(net, 1..2 * n)
            /\ OrZero(after[n][key]) >= OrZero(holdings[key]) - SumOver(spent, 1..n)
<1>8. Claim(0)
    <2>1. 1..0 = {} /\ 1..2 * 0 = {}
        OBVIOUS
    <2>2. SumOver(net, 1..2 * 0) = 0 /\ SumOver(spent, 1..0) = 0
        BY <2>1, SumEmpty
    <2>3. QED
        BY <1>2, <1>7, <2>2
<1>9. ASSUME NEW n \in 1..last, Claim(n - 1) PROVE Claim(n)
    <2> DEFINE m == movements[n]
               before == after[n - 1]
    <2>1. m \in Movements /\ after[n] = Transferred(before, m)
        BY <1>1, <1>2
    <2>2. holdings[Source(m)] # NoPosition /\ Source(m) \in Keys
        BY <2>1 DEF Covered, Keys, last
    <2>3. before[Source(m)] \in Int /\ before \in Holdings
        BY <1>6, <1>9, <2>2
    <2>4. OrZero(before[key]) \in Int
        BY <2>3 DEF Holdings, OrZero
    <2>5. /\ after[n] \in Holdings
          /\ \A k \in Keys : before[k] \in Int => after[n][k] \in Int
          /\ OrZero(after[n][key])
                = (OrZero(before[key]) + Effect(Debit(m), key)) + Effect(Credit(m), key)
          /\ OrZero(after[n][key]) >= OrZero(before[key]) - Spends(m, key)
        <3> HIDE DEF m, before
        <3>1. QED
            BY <2>1, <2>3, OneMovement
    <2>6. /\ SumOver(net, 1..2 * n)
                = (SumOver(net, 1..2 * (n - 1)) + net[2 * n - 1]) + net[2 * n]
          /\ SumOver(net, 1..2 * (n - 1)) \in Int
        <3> DEFINE k == 2 * (n - 1)
        <3>1. k \in Nat /\ k + 1 = 2 * n - 1 /\ (k + 1) + 1 = 2 * n /\ 2 * n <= 2 * last
            BY <1>1
        <3> HIDE DEF k
        <3>2. \A j \in 1..(k + 1) + 1 : net[j] \in Int
            BY <1>1, <1>5, <3>1
        <3>3. \A j \in 1..k + 1 : net[j] \in Int
            BY <3>1, <3>2
        <3>4. SumOver(net, 1..k + 1) = SumOver(net, 1..k) + net[k + 1]
            BY <3>1, <3>3, SumAppend
        <3>5. SumOver(net, 1..(k + 1) + 1) = SumOver(net, 1..k + 1) + net[(k + 1) + 1]
            <4>1. k + 1 \in Nat
                BY <3>1
            <4>2. QED
                BY <3>2, <4>1, SumAppend
        <3>6. SumOver(net, 1..k) \in Int
            <4>1. IsFiniteSet(1..k)
                BY <3>1, FS_Interval
            <4>2. \A j \in 1..k : net[j] \in Int
                BY <3>1, <3>3
            <4>3. QED
                BY <4>1, <4>2, SumType
        <3>7. SumOver(net, 1..2 * n) = (SumOver(net, 1..k) + net[2 * n - 1]) + net[2 * n]
            BY <3>1, <3>4, <3>5
        <3>8. QED
            BY <3>6, <3>7 DEF k
    <2>7. /\ SumOver(spent, 1..n) = SumOver(spent, 1..n - 1) + spent[n]
          /\ SumOver(spent, 1..n - 1) \in Int
        <3> DEFINE k == n - 1
        <3>1. k \in Nat /\ k + 1 = n /\ n <= last
            BY <1>1
        <3> HIDE DEF k
        <3>2. \A j \in 1..k + 1 : spent[j] \in Int
            BY <1>1, <1>4, <3>1
        <3>3. SumOver(spent, 1..k + 1) = SumOver(spent, 1..k) + spent[k + 1]
            BY <3>1, <3>2, SumAppend
        <3>4. SumOver(spent, 1..k) \in Int
            <4>1. IsFiniteSet(1..k)
                BY <3>1, FS_Interval
            <4>2. \A j \in 1..k : spent[j] \in Int
                BY <3>1, <3>2
            <4>3. QED
                BY <4>1, <4>2, SumType
        <3>5. QED
            BY <3>1, <3>3, <3>4 DEF k
    <2>8. /\ net[2 * n - 1] = Effect(Debit(m), key)
          /\ net[2 * n] = Effect(Credit(m), key)
          /\ net[2 * n - 1] \in Int /\ net[2 * n] \in Int
          /\ spent[n] = Spends(m, key) /\ spent[n] \in Int
        BY <1>4
    <2>9. /\ OrZero(before[key]) = OrZero(holdings[key]) + SumOver(net, 1..2 * (n - 1))
          /\ OrZero(before[key]) >= OrZero(holdings[key]) - SumOver(spent, 1..n - 1)
        BY <1>9
    <2> HIDE DEF m, before
    <2>10. OrZero(after[n][key]) = OrZero(holdings[key]) + SumOver(net, 1..2 * n)
        BY <1>7, <2>4, <2>5, <2>6, <2>8, <2>9
    <2>11. OrZero(after[n][key]) >= OrZero(holdings[key]) - SumOver(spent, 1..n)
        <3>1. OrZero(after[n][key]) \in Int
            BY <2>4, <2>5, <2>8
        <3>2. QED
            BY <1>7, <2>4, <2>5, <2>7, <2>8, <2>9, <3>1
    <2>12. \A k \in Keys : holdings[k] \in Int => after[n][k] \in Int
        BY <1>9, <2>5 DEF before
    <2>13. QED
        BY <2>5, <2>10, <2>11, <2>12
<1>10. Claim(last)
    <2> DEFINE B == { n \in 0..last : ~Claim(n) }
    <2>1. SUFFICES ASSUME B # {} PROVE FALSE
        BY <1>1
    <2>2. B \in SUBSET Nat
        OBVIOUS
    <2> HIDE DEF Claim
    <2>3. PICK n \in B : \A k \in B : n <= k
        <3> HIDE DEF B
        <3>1. QED
            BY <2>1, <2>2, LeastNatural
    <2>4. n # 0
        BY <1>8
    <2>5. n - 1 \in 0..last /\ n - 1 \notin B /\ n \in 1..last
        BY <1>1, <2>3, <2>4
    <2>6. QED
        BY <1>9, <2>5
<1>11. QED
    BY <1>2, <1>3, <1>10 DEF NetOf, net, spent, log, last

-----------------------------------------------------------------------------
\* What the verdicts mean.

LEMMA ReconciledMeans ==
    ASSUME IInv, Reconciled = "matched"
    PROVE  /\ Len(external) = Len(batch)
           /\ \A n \in 1..Len(batch) : Matches(batch[n], external[n], representations)
<1> DEFINE verdict(n) == ReconcileSettlement(Settlements[n], representations)
           verdicts == { verdict(n) : n \in 1..Len(Settlements) }
<1>1. Len(batch) \in Nat /\ Len(external) \in Nat /\ Len(external) <= Len(batch)
    BY DEF IInv
<1>2. Len(Settlements) = Len(external)
    BY <1>1 DEF Settlements
<1>3. /\ "mismatched" \notin verdicts
      /\ "unresolved" \notin verdicts
      /\ ~(Len(Settlements) < Len(batch))
    BY DEF Reconciled, ReconcileSettlements
<1>4. ASSUME NEW n \in 1..Len(external) PROVE Matches(batch[n], external[n], representations)
    <2>1. verdict(n) \notin { "mismatched", "unresolved" }
        BY <1>2, <1>3
    <2>2. /\ Settlements[n].movement = batch[n]
          /\ Settlements[n].externalMovements = { external[n] }
        BY DEF Settlements
    <2>3. \E answer \in Settlements[n].externalMovements :
                Matches(Settlements[n].movement, answer, representations)
        BY <2>1 DEF ReconcileSettlement
    <2>4. QED
        BY <2>2, <2>3
<1>5. QED
    BY <1>1, <1>2, <1>3, <1>4

\* Movements that one external movement matches are equal.
LEMMA OneExternal ==
    ASSUME representations \in Registered,
           NEW m \in Movements, NEW other \in Movements, NEW answer,
           Matches(m, answer, representations), Matches(other, answer, representations)
    PROVE  m = other
<1>1. PICK rep \in RepresentationsOf(m.asset, representations) :
            answer.representation = rep.id
    BY DEF Matches
<1>2. PICK its \in RepresentationsOf(other.asset, representations) :
            answer.representation = its.id
    BY DEF Matches
<1>3. rep = its
    BY <1>1, <1>2, BatchAssumption DEF RepresentationsOf
<1>4. m.asset = other.asset
    BY <1>1, <1>2, <1>3 DEF RepresentationsOf
<1>5. m.from = other.from /\ m.to = other.to /\ m.quantity = other.quantity
    BY DEF Matches
<1>6. QED
    BY <1>4, <1>5, BatchAssumption

-----------------------------------------------------------------------------

\* For any batch, any answers of the adapter and a failure at any transfer: either every
\* movement has its external movement, its entries and its effect on the positions, or
\* nothing has moved (settleTransaction, behind settleExternally and reconcileSettlements).
THEOREM BatchesAreAtomic == Spec => []AllOrNothing
<1>1. ASSUME IInv PROVE AllOrNothing
    <2>1. CASE status # "settled"
        BY <1>1, <2>1 DEF IInv, AllOrNothing
    <2>2. CASE status = "settled"
        <3>1. /\ batch \in Seq(Movements)
              /\ Covered(opening, batch)
              /\ positions = Applied(opening, batch)
              /\ ledger = Recorded(batch)
              /\ Reconciled = "matched"
            BY <1>1, <2>2 DEF IInv
        <3>2. opening \in Holdings
            BY <1>1, BatchAssumption DEF IInv, Holdings
        <3>3. Len(ledger) = 2 * Len(batch)
            BY <3>1, EntriesRecorded
        <3>4. ASSUME NEW key \in Keys
              PROVE  OrZero(positions[key]) = OrZero(opening[key]) + Net(key)
            <4>1. Net(key) = NetOf(ledger, key)
                BY DEF Net, NetOf, Effect
            <4>2. QED
                BY <3>1, <3>2, <4>1, Balanced
        <3>5. QED
            BY <1>1, <2>2, <3>1, <3>3, <3>4, ReconciledMeans DEF AllOrNothing
    <2>3. QED
        BY <2>1, <2>2
<1>2. QED
    BY <1>1, Invariance, PTL

\* For any batch: only movements that a position covers apart and not together take it
\* below zero (settleTransaction, which checks all movements before it applies the first).
THEOREM OverdraftsAreExplained == Spec => []OverdraftExplained
<1>1. ASSUME IInv PROVE OverdraftExplained
    <2> SUFFICES ASSUME NEW key \in Keys, positions[key] # NoPosition, positions[key] < 0
                 PROVE  /\ \A n \in DebitsOf(key) : batch[n].quantity <= opening[key]
                        /\ SumOver([ n \in DebitsOf(key) |-> batch[n].quantity ], DebitsOf(key))
                                > opening[key]
        BY DEF OverdraftExplained
    <2>1. /\ opening \in Holdings
          /\ opening[key] \in Nat \union {NoPosition}
          /\ NoPosition \notin Int
        BY <1>1, BatchAssumption DEF IInv, Holdings
    <2>2. status = "settled"
        <3>1. CASE status # "settled"
            <4>1. opening[key] # NoPosition /\ opening[key] < 0
                BY <1>1, <3>1 DEF IInv
            <4>2. opening[key] \in Nat
                BY <2>1, <4>1
            <4>3. QED
                BY <4>1, <4>2
        <3>2. QED
            BY <3>1
    <2>3. /\ batch \in Seq(Movements)
          /\ Covered(opening, batch)
          /\ positions = Applied(opening, batch)
        BY <1>1, <2>2 DEF IInv
    <2> DEFINE D == DebitsOf(key)
               spent == [ n \in 1..Len(batch) |-> Spends(batch[n], key) ]
               quantities == [ n \in D |-> batch[n].quantity ]
    <2>4. ASSUME NEW n \in 1..Len(batch)
          PROVE  /\ spent[n] \in Int
                 /\ n \in D => spent[n] = batch[n].quantity
                 /\ n \notin D => spent[n] = 0
        <3>1. batch[n] \in Movements
            BY <2>3
        <3>2. Spends(batch[n], key) \in Int
            BY <3>1, EffectsOf
        <3>3. QED
            BY <3>2 DEF DebitsOf, Spends
    <2>5. IsFiniteSet(1..Len(batch)) /\ D \in SUBSET (1..Len(batch)) /\ IsFiniteSet(D)
        <3>1. IsFiniteSet(1..Len(batch))
            BY <2>3, FS_Interval
        <3>2. D \in SUBSET (1..Len(batch))
            BY DEF DebitsOf
        <3>3. QED
            BY <3>1, <3>2, FS_Subset
    <2> HIDE DEF spent
    <2>6. SumOver(spent, 1..Len(batch)) = SumOver(quantities, D)
        <3>1. \A n \in D : spent[n] = quantities[n]
            BY <2>4, <2>5
        <3> HIDE DEF quantities, D
        <3>2. SumOver(spent, 1..Len(batch)) = SumOver(spent, D)
            BY <2>4, <2>5, SumNonzero
        <3>3. SumOver(spent, D) = SumOver(quantities, D)
            BY <2>5, <3>1, SumSame
        <3>4. QED
            BY <3>2, <3>3
    <2>7. SumOver(spent, 1..Len(batch)) \in Int
        BY <2>4, <2>5, SumType
    <2>8. OrZero(positions[key]) >= OrZero(opening[key]) - SumOver(spent, 1..Len(batch))
          /\ positions \in Holdings
        BY <2>1, <2>3, Balanced DEF spent
    <2>9. OrZero(positions[key]) = positions[key] /\ positions[key] \in Int
        BY <2>8 DEF OrZero, Holdings
    <2>10. OrZero(opening[key]) \in Nat
        BY <2>1 DEF OrZero
    <2>11. SumOver(quantities, D) > OrZero(opening[key])
        <3> DEFINE sum == SumOver(quantities, D)
                   left == OrZero(opening[key])
        <3>1. sum \in Int /\ left \in Nat /\ positions[key] >= left - sum
            BY <2>6, <2>7, <2>8, <2>9, <2>10
        <3> HIDE DEF sum, left
        <3>2. sum > left
            BY <2>9, <3>1
        <3>3. QED
            BY <3>2 DEF sum, left
    <2>12. \A n \in D : opening[key] # NoPosition /\ batch[n].quantity <= opening[key]
        BY <2>3 DEF DebitsOf, Covered
    <2>13. opening[key] # NoPosition
        <3>1. D # {}
            <4>1. ASSUME D = {} PROVE FALSE
                <5>1. SumOver(quantities, D) = 0
                    BY <4>1, SumEmpty
                <5>2. QED
                    BY <2>10, <2>11, <5>1
            <4>2. QED
                BY <4>1
        <3>2. QED
            BY <2>12, <3>1
    <2>14. OrZero(opening[key]) = opening[key]
        BY <2>13 DEF OrZero
    <2>15. QED
        BY <2>11, <2>12, <2>14
<1>2. QED
    BY <1>1, Invariance, PTL

\* For any batch and any external movements: when reconcileTransaction says matched and the
\* movements differ there is a pairing of all of them, it says so whenever there is one and
\* nothing is left over, and it accepts what reconcileSettlements accepts.
THEOREM FullMatchesAreOneToOne == Spec => []FullMatchIsOneToOne
<1>1. ASSUME IInv PROVE FullMatchIsOneToOne
    <2> DEFINE full == ReconcileTransaction(batch, external, representations) = "matched"
    <2>1. /\ representations \in Registered
          /\ \A n \in 1..Len(batch) : batch[n] \in Movements
        BY <1>1 DEF IInv
    <2>2. full <=> /\ \A n \in 1..Len(batch) :
                        RepresentationsOf(batch[n].asset, representations) # {}
                   /\ Len(batch) = Len(external)
                   /\ \A n \in 1..Len(batch) : \E k \in 1..Len(external) :
                        Matches(batch[n], external[k], representations)
        BY DEF ReconcileTransaction, Unrepresented
    <2>3. ASSUME full, Distinct PROVE OneToOne /\ Len(batch) = Len(external)
        <3> DEFINE partner(n) == CHOOSE k \in 1..Len(external) :
                                    Matches(batch[n], external[k], representations)
                   f == [ n \in 1..Len(batch) |-> partner(n) ]
        <3>1. \A n \in 1..Len(batch) :
                /\ partner(n) \in 1..Len(external)
                /\ Matches(batch[n], external[partner(n)], representations)
            BY <2>2, <2>3
        <3> HIDE DEF partner
        <3>2. \A m, n \in 1..Len(batch) : m # n => f[m] # f[n]
            <4> SUFFICES ASSUME NEW m \in 1..Len(batch), NEW n \in 1..Len(batch), m # n,
                                partner(m) = partner(n)
                         PROVE  FALSE
                OBVIOUS
            <4>1. batch[m] = batch[n]
                BY <2>1, <3>1, OneExternal
            <4>2. QED
                BY <2>3, <4>1 DEF Distinct
        <3>3. f \in [ 1..Len(batch) -> 1..Len(external) ]
            BY <3>1
        <3>4. \A n \in 1..Len(batch) : Matches(batch[n], external[f[n]], representations)
            BY <3>1
        <3> HIDE DEF f
        <3>5. OneToOne
            BY <3>2, <3>3, <3>4 DEF OneToOne
        <3>6. QED
            BY <2>2, <2>3, <3>5
    <2>4. ASSUME OneToOne, Len(batch) = Len(external) PROVE full
        <3>1. PICK f \in [ 1..Len(batch) -> 1..Len(external) ] :
                \A n \in 1..Len(batch) : Matches(batch[n], external[f[n]], representations)
            BY <2>4 DEF OneToOne
        <3>2. \A n \in 1..Len(batch) : RepresentationsOf(batch[n].asset, representations) # {}
            BY <3>1 DEF Matches
        <3>3. QED
            BY <2>2, <2>4, <3>1, <3>2
    <2>5. ASSUME Reconciled = "matched" PROVE full
        <3>1. /\ Len(external) = Len(batch)
              /\ \A n \in 1..Len(batch) : Matches(batch[n], external[n], representations)
            BY <1>1, <2>5, ReconciledMeans
        <3>2. \A n \in 1..Len(batch) : RepresentationsOf(batch[n].asset, representations) # {}
            BY <3>1 DEF Matches
        <3>3. QED
            BY <2>2, <3>1, <3>2
    <2>6. QED
        BY <2>3, <2>4, <2>5, Zenon DEF FullMatchIsOneToOne
<1>2. QED
    BY <1>1, Invariance, PTL
=============================================================================
