-------------------------------- MODULE Sums --------------------------------
(***************************************************************************)
(* The sum of a function over a finite set, a fold whose function is a     *)
(* value: SumLemmas proves about it what the books of the engines need.    *)
(***************************************************************************)
EXTENDS Integers, Folds

\* The sum of f[x] for all x in S.
SumOver(f, S) ==
    MapThenFoldSet(+, 0, LAMBDA x : f[x], LAMBDA s : CHOOSE x \in s : TRUE, S)
=============================================================================
