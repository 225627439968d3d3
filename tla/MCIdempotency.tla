--------------------------- MODULE MCIdempotency ----------------------------
(***************************************************************************)
(* A small instance of Idempotency: interchangeable requests with one key  *)
(* and one body and one with the same key and another body, on a path      *)
(* whose handler writes twice and may await before, between and after its  *)
(* writes.  Requests of different keys only share the thread.              *)
(***************************************************************************)
EXTENDS Idempotency, TLC

CONSTANTS Retries, reuse

MCRequests == Retries \union { reuse }

MCKeyOf == [ r \in Requests |-> "k1" ]

MCBodyOf == [ r \in Requests |-> IF r = reuse THEN "b2" ELSE "b1" ]

MCWrites == [ k \in Keys |-> 2 ]

MCSymmetry == Permutations(Retries)
=============================================================================
