------------------------ MODULE MCDurableSettlement -------------------------
(***************************************************************************)
(* A small instance of DurableSettlement: two payments to an account that  *)
(* gets its position from the first of them, and a transfer of an account  *)
(* to itself, in four executions.                                          *)
(***************************************************************************)
EXTENDS DurableSettlement, TLC

CONSTANTS alice, bob, carol

MCIntentData ==
    [ pay  |-> [ from |-> alice, to |-> bob, quantity |-> 2 ],
      rent |-> [ from |-> alice, to |-> bob, quantity |-> 1 ],
      self |-> [ from |-> carol, to |-> carol, quantity |-> 1 ] ]

MCOpening == [ a \in Accounts |-> CASE a = alice -> 4 [] a = bob -> NoPosition [] OTHER -> 1 ]

\* Runs differ in nothing but their names.
MCSymmetry == Permutations(Runs)
=============================================================================
