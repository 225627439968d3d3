----------------------------- MODULE SumLemmas ------------------------------
(***************************************************************************)
(* Lemmas about SumOver, for every function and every finite set.          *)
(*                                                                         *)
(* The fold of the community modules picks a function by CHOOSE and takes  *)
(* the elements in an order CHOOSE fixes.  The first lemmas show that such *)
(* a function exists and that the order does not matter; each argues from  *)
(* the smallest set for which the fact would fail, which SmallestSet takes *)
(* from the well-foundedness of strict inclusion.                          *)
(***************************************************************************)
EXTENDS Sums, FiniteSetTheorems, TLAPS

\* The element the fold takes out of s first.
Chosen(s) == CHOOSE x \in s : TRUE

\* sum is the sum of f over every subset of S.
Sums(f, S, sum) ==
    sum = [ s \in SUBSET S |-> IF s = {} THEN 0 ELSE f[Chosen(s)] + sum[s \ {Chosen(s)}] ]

\* The sum is the value at S of a function that sums f over the subsets of S.
LEMMA SumDef ==
    ASSUME NEW f, NEW S
    PROVE  SumOver(f, S) = (CHOOSE sum : Sums(f, S, sum))[S]
BY DEF SumOver, MapThenFoldSet, Sums, Chosen

\* Taking the chosen element out leaves a strictly smaller set.
LEMMA ChosenIn ==
    ASSUME NEW s, s # {}
    PROVE  Chosen(s) \in s /\ s \ {Chosen(s)} \subseteq s /\ s \ {Chosen(s)} # s
BY DEF Chosen

\* Among sets of subsets of a finite set there is a smallest one.
LEMMA SmallestSet ==
    ASSUME NEW S, IsFiniteSet(S), NEW B \in SUBSET (SUBSET S), B # {}
    PROVE  \E T \in B : \A U \in B : U \subseteq T => U = T
<1>1. IsWellFoundedOn(StrictSubsetOrdering(S), FiniteSubsetsOf(S))
    BY FS_StrictSubsetOrderingWellFounded
<1>2. FiniteSubsetsOf(S) = SUBSET S
    BY FS_FiniteSubsetsOfFinite
<1>3. \E T \in B : \A U \in B : ~(<< U, T >> \in StrictSubsetOrdering(S))
    BY <1>1, <1>2, WFMin, Zenon
<1>4. PICK T \in B : \A U \in B : << U, T >> \notin StrictSubsetOrdering(S)
    BY <1>3
<1>5. ASSUME NEW U \in B, U \subseteq T, U # T PROVE FALSE
    BY <1>4, <1>5 DEF StrictSubsetOrdering
<1>6. QED
    BY <1>5

\* Two such functions agree wherever both are defined ...
LEMMA SumsAgree ==
    ASSUME NEW f, NEW S, IsFiniteSet(S), NEW R \in SUBSET S,
           NEW sum, Sums(f, S, sum), NEW part, Sums(f, R, part), NEW T \in SUBSET R
    PROVE  sum[T] = part[T]
<1> DEFINE B == { U \in SUBSET R : sum[U] # part[U] }
<1>1. SUFFICES ASSUME B # {} PROVE FALSE
    OBVIOUS
<1>2. PICK U \in B : \A V \in B : V \subseteq U => V = U
    <2>1. B \in SUBSET (SUBSET S)
        OBVIOUS
    <2> HIDE DEF B
    <2>2. QED
        BY <1>1, <2>1, SmallestSet
<1>3. sum[U] = IF U = {} THEN 0 ELSE f[Chosen(U)] + sum[U \ {Chosen(U)}]
    BY DEF Sums
<1>4. part[U] = IF U = {} THEN 0 ELSE f[Chosen(U)] + part[U \ {Chosen(U)}]
    BY DEF Sums
<1>5. U # {}
    BY <1>3, <1>4
<1>6. U \ {Chosen(U)} \in SUBSET R /\ U \ {Chosen(U)} \notin B
    BY <1>2, <1>5, ChosenIn
<1>7. QED
    BY <1>3, <1>4, <1>6

\* ... and so on the smaller of their two sets.
LEMMA SumsAgreeOnAll ==
    ASSUME NEW f, NEW S, IsFiniteSet(S), NEW R \in SUBSET S,
           NEW sum, Sums(f, S, sum), NEW part, Sums(f, R, part)
    PROVE  sum[R] = part[R]
BY SumsAgree

\* There is such a function for every finite set.
LEMMA SumsExist ==
    ASSUME NEW f, NEW S, IsFiniteSet(S)
    PROVE  \E sum : Sums(f, S, sum)
<1> DEFINE B == { U \in SUBSET S : ~\E sum : Sums(f, U, sum) }
<1>1. SUFFICES ASSUME B # {} PROVE FALSE
    OBVIOUS
<1>2. PICK U \in B : \A V \in B : V \subseteq U => V = U
    <2>1. B \in SUBSET (SUBSET S)
        OBVIOUS
    <2> HIDE DEF B
    <2>2. QED
        BY <1>1, <2>1, SmallestSet
<1> DEFINE of(V) == CHOOSE sum : Sums(f, V, sum)
           total(V) == IF V = {} THEN 0 ELSE f[Chosen(V)] + of(V \ {Chosen(V)})[V \ {Chosen(V)}]
           sum == [ V \in SUBSET U |-> total(V) ]
<1>3. \A V \in SUBSET U : V # U => Sums(f, V, of(V))
    BY <1>2
<1>4. ASSUME NEW V \in SUBSET U, V # {}
      PROVE  sum[V \ {Chosen(V)}] = of(V \ {Chosen(V)})[V \ {Chosen(V)}]
    <2> DEFINE W == V \ {Chosen(V)}
    <2>1. W \in SUBSET U /\ W # U
        BY <1>4, ChosenIn
    <2>2. Sums(f, W, of(W))
        BY <1>3, <2>1
    <2> HIDE DEF of
    <2>3. of(W)[W] = IF W = {} THEN 0 ELSE f[Chosen(W)] + of(W)[W \ {Chosen(W)}]
        BY <2>2 DEF Sums
    <2>4. CASE W = {}
        BY <2>1, <2>3, <2>4
    <2>5. CASE W # {}
        <3> DEFINE X == W \ {Chosen(W)}
        <3>1. X \in SUBSET W /\ X \in SUBSET U /\ X # U
            BY <2>1, <2>5, ChosenIn
        <3>2. Sums(f, X, of(X)) /\ IsFiniteSet(W)
            BY <1>3, <3>1, FS_Subset
        <3>3. of(W)[X] = of(X)[X]
            <4> HIDE DEF W, X
            <4>1. QED
                BY <2>2, <3>1, <3>2, SumsAgreeOnAll
        <3>4. QED
            BY <2>1, <2>3, <2>5, <3>3
    <2>6. QED
        BY <2>4, <2>5
<1>5. \A V \in SUBSET U :
        total(V) = IF V = {} THEN 0 ELSE f[Chosen(V)] + sum[V \ {Chosen(V)}]
    <2> HIDE DEF sum, of
    <2>1. QED
        BY <1>4
<1>6. Sums(f, U, sum)
    <2> HIDE DEF total
    <2>1. sum = [ V \in SUBSET U |-> IF V = {} THEN 0 ELSE f[Chosen(V)] + sum[V \ {Chosen(V)}] ]
        BY <1>5, Zenon
    <2>2. QED
        BY <2>1 DEF Sums
<1>7. QED
    BY <1>2, <1>6

\* The equation of the sum, for the element CHOOSE takes out.
LEMMA SumStep ==
    ASSUME NEW f, NEW S, IsFiniteSet(S)
    PROVE  SumOver(f, S) = IF S = {} THEN 0
                           ELSE f[Chosen(S)] + SumOver(f, S \ {Chosen(S)})
<1> DEFINE of(T) == CHOOSE sum : Sums(f, T, sum)
           W == S \ {Chosen(S)}
<1>1. Sums(f, S, of(S))
    BY SumsExist
<1>2. IsFiniteSet(W) /\ W \in SUBSET S
    BY FS_Subset
<1>3. Sums(f, W, of(W))
    BY <1>2, SumsExist
<1>4. SumOver(f, S) = of(S)[S] /\ SumOver(f, W) = of(W)[W]
    BY SumDef
<1> HIDE DEF of
<1>5. of(S)[S] = IF S = {} THEN 0 ELSE f[Chosen(S)] + of(S)[W]
    BY <1>1 DEF Sums
<1>6. of(S)[W] = of(W)[W]
    <2> HIDE DEF W
    <2>1. QED
        BY <1>1, <1>2, <1>3, SumsAgreeOnAll
<1>7. QED
    BY <1>4, <1>5, <1>6

-----------------------------------------------------------------------------
\* What the proofs use.

\* Nothing sums to zero.
LEMMA SumEmpty == ASSUME NEW f PROVE SumOver(f, {}) = 0
BY SumStep, FS_EmptySet

\* A sum of integers is an integer.
LEMMA SumType ==
    ASSUME NEW S, IsFiniteSet(S), NEW f, \A x \in S : f[x] \in Int
    PROVE  SumOver(f, S) \in Int
<1> DEFINE B == { T \in SUBSET S : SumOver(f, T) \notin Int }
<1>1. SUFFICES ASSUME B # {} PROVE FALSE
    OBVIOUS
<1>2. PICK T \in B : \A U \in B : U \subseteq T => U = T
    <2>1. B \in SUBSET (SUBSET S)
        OBVIOUS
    <2> HIDE DEF B
    <2>2. QED
        BY <1>1, <2>1, SmallestSet
<1>3. SumOver(f, T) = IF T = {} THEN 0 ELSE f[Chosen(T)] + SumOver(f, T \ {Chosen(T)})
    BY SumStep, FS_Subset
<1>4. T # {}
    BY <1>3
<1>5. SumOver(f, T \ {Chosen(T)}) \in Int /\ f[Chosen(T)] \in Int
    BY <1>2, <1>4, ChosenIn
<1>6. QED
    BY <1>3, <1>4, <1>5

\* Any element may be taken out first: the choice does not matter.
LEMMA SumTake ==
    ASSUME NEW S, IsFiniteSet(S), NEW f, \A x \in S : f[x] \in Int, NEW x \in S
    PROVE  SumOver(f, S) = f[x] + SumOver(f, S \ {x})
<1> DEFINE B == { T \in SUBSET S : \E y \in T : SumOver(f, T) # f[y] + SumOver(f, T \ {y}) }
<1>1. SUFFICES ASSUME B # {} PROVE FALSE
    OBVIOUS
<1>2. PICK T \in B : \A U \in B : U \subseteq T => U = T
    <2>1. B \in SUBSET (SUBSET S)
        OBVIOUS
    <2> HIDE DEF B
    <2>2. QED
        BY <1>1, <2>1, SmallestSet
<1>3. PICK y \in T : SumOver(f, T) # f[y] + SumOver(f, T \ {y})
    OBVIOUS
<1> DEFINE c == Chosen(T)
<1>4. c \in T
    BY <1>3, ChosenIn
<1>5. SumOver(f, T) = f[c] + SumOver(f, T \ {c})
    BY <1>4, SumStep, FS_Subset
<1>6. c # y
    BY <1>3, <1>5
<1>7. T \ {c} \notin B /\ T \ {y} \notin B
    BY <1>2, <1>4
<1>8. /\ SumOver(f, T \ {c}) = f[y] + SumOver(f, (T \ {c}) \ {y})
      /\ SumOver(f, T \ {y}) = f[c] + SumOver(f, (T \ {y}) \ {c})
    BY <1>4, <1>6, <1>7
<1>9. (T \ {c}) \ {y} = (T \ {y}) \ {c}
    OBVIOUS
<1>10. /\ SumOver(f, (T \ {c}) \ {y}) \in Int
       /\ f[c] \in Int
       /\ f[y] \in Int
    <2>1. IsFiniteSet((T \ {c}) \ {y})
        BY FS_Subset
    <2>2. QED
        BY <1>4, <2>1, SumType
<1>11. QED
    <2> HIDE DEF c
    <2>1. QED
        BY <1>3, <1>5, <1>8, <1>9, <1>10

\* A sum depends on the values of its function only.
LEMMA SumSame ==
    ASSUME NEW S, IsFiniteSet(S), NEW f, NEW g, \A x \in S : f[x] = g[x]
    PROVE  SumOver(f, S) = SumOver(g, S)
<1> DEFINE B == { T \in SUBSET S : SumOver(f, T) # SumOver(g, T) }
<1>1. SUFFICES ASSUME B # {} PROVE FALSE
    OBVIOUS
<1>2. PICK T \in B : \A U \in B : U \subseteq T => U = T
    <2>1. B \in SUBSET (SUBSET S)
        OBVIOUS
    <2> HIDE DEF B
    <2>2. QED
        BY <1>1, <2>1, SmallestSet
<1>3. /\ SumOver(f, T) = IF T = {} THEN 0 ELSE f[Chosen(T)] + SumOver(f, T \ {Chosen(T)})
      /\ SumOver(g, T) = IF T = {} THEN 0 ELSE g[Chosen(T)] + SumOver(g, T \ {Chosen(T)})
    BY SumStep, FS_Subset
<1>4. T # {}
    BY <1>3
<1>5. T \ {Chosen(T)} \notin B /\ f[Chosen(T)] = g[Chosen(T)]
    BY <1>2, <1>4, ChosenIn
<1>6. QED
    BY <1>3, <1>4, <1>5

\* Changing one value changes the sum by as much.
LEMMA SumChange ==
    ASSUME NEW S, IsFiniteSet(S), NEW f, \A x \in S : f[x] \in Int,
           NEW g, \A x \in S : g[x] \in Int,
           NEW y \in S, \A x \in S \ {y} : f[x] = g[x]
    PROVE  SumOver(g, S) = SumOver(f, S) - f[y] + g[y]
<1>1. IsFiniteSet(S \ {y})
    BY FS_RemoveElement
<1>2. SumOver(f, S \ {y}) = SumOver(g, S \ {y})
    BY <1>1, SumSame
<1>3. SumOver(f, S \ {y}) \in Int
    BY <1>1, SumType
<1>4. /\ SumOver(f, S) = f[y] + SumOver(f, S \ {y})
      /\ SumOver(g, S) = g[y] + SumOver(g, S \ {y})
    BY SumTake
<1>5. QED
    BY <1>2, <1>3, <1>4

\* What is zero need not be summed.
LEMMA SumNonzero ==
    ASSUME NEW S, IsFiniteSet(S), NEW f, \A x \in S : f[x] \in Int,
           NEW R \in SUBSET S, \A x \in S \ R : f[x] = 0
    PROVE  SumOver(f, S) = SumOver(f, R)
<1> DEFINE B == { T \in SUBSET S : R \subseteq T /\ SumOver(f, T) # SumOver(f, R) }
<1>1. SUFFICES ASSUME B # {} PROVE FALSE
    OBVIOUS
<1>2. PICK T \in B : \A U \in B : U \subseteq T => U = T
    <2>1. B \in SUBSET (SUBSET S)
        OBVIOUS
    <2> HIDE DEF B
    <2>2. QED
        BY <1>1, <2>1, SmallestSet
<1>3. PICK x \in T : x \notin R
    OBVIOUS
<1>4. IsFiniteSet(T) /\ IsFiniteSet(T \ {x}) /\ T \in SUBSET S
    BY FS_Subset
<1>5. SumOver(f, T) = f[x] + SumOver(f, T \ {x})
    BY <1>4, SumTake
<1>6. f[x] = 0 /\ SumOver(f, T \ {x}) \in Int
    BY <1>3, <1>4, SumType
<1>7. SumOver(f, T \ {x}) = SumOver(f, R)
    BY <1>2, <1>3, <1>4
<1>8. QED
    BY <1>2, <1>5, <1>6, <1>7

\* The sum over an interval grows by the value at its new end.
LEMMA SumAppend ==
    ASSUME NEW n \in Nat, NEW f, \A k \in 1..n + 1 : f[k] \in Int
    PROVE  SumOver(f, 1..n + 1) = SumOver(f, 1..n) + f[n + 1]
<1>1. IsFiniteSet(1..n + 1) /\ IsFiniteSet(1..n)
    BY FS_Interval
<1>2. (1..n + 1) \ {n + 1} = 1..n /\ n + 1 \in 1..n + 1
    OBVIOUS
<1>3. SumOver(f, 1..n + 1) = f[n + 1] + SumOver(f, 1..n)
    BY <1>1, <1>2, SumTake
<1>4. SumOver(f, 1..n) \in Int
    BY <1>1, SumType
<1>5. QED
    BY <1>2, <1>3, <1>4
=============================================================================
