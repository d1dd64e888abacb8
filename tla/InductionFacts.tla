---------------------------- MODULE InductionFacts ----------------------------
(***************************************************************************)
(* Induction over the natural numbers, and over finite sets, as facts      *)
(* about sets: a set with zero that is closed under successor holds them   *)
(* all, and so on.  Stated this way they can be cited for recursive        *)
(* functions like TxPool's walk along the list or Ledger's replay.  Then   *)
(* what a sum over a finite set is, which is such a function.              *)
(***************************************************************************)
EXTENDS Integers, FiniteSets, Functions, TLAPS, FiniteSetTheorems, WellFoundedInduction

\* A non-empty set of natural numbers has a least element.
LEMMA LeastNatural ==
    ASSUME NEW T \in SUBSET Nat, T # {} PROVE \E x \in T : \A y \in T : x <= y
<1>1. \E x \in T : \A y \in T : ~ (<<y, x>> \in OpToRel(<, Nat))
    BY NatLessThanWellFounded, WFMin
<1>2. PICK x \in T : \A y \in T : ~ (<<y, x>> \in OpToRel(<, Nat))
    BY <1>1
<1>3. \A y \in T : <<y, x>> \in OpToRel(<, Nat) <=> y < x
    BY DEF OpToRel
<1>4. \A y \in T : ~ (y < x)
    BY <1>2, <1>3
<1> QED BY <1>4

\* A set with zero that is closed under successor holds every number.
LEMMA EveryNatural ==
    ASSUME NEW T \in SUBSET Nat, 0 \in T, \A n \in T : n + 1 \in T
    PROVE  T = Nat
<1> SUFFICES ASSUME Nat \ T # {} PROVE FALSE
    OBVIOUS
<1>1. PICK x \in Nat \ T : \A y \in Nat \ T : x <= y
    BY LeastNatural
<1>2. x # 0 /\ x - 1 \in Nat /\ ~ (x <= x - 1)
    OBVIOUS
<1>3. x - 1 \in T
    BY <1>1, <1>2
<1>4. (x - 1) + 1 \in T
    BY <1>3
<1> QED BY <1>4

\* What holds of no element, and of one element more than it holds of, holds
\* of a finite set.
LEMMA EveryFiniteSet ==
    ASSUME NEW S, IsFiniteSet(S), NEW F, {} \in F,
           \A T \in SUBSET S : \A x \in S \ T : T \in F => T \cup {x} \in F
    PROVE  S \in F
<1> DEFINE C == {n \in Nat : \A T \in SUBSET S : Cardinality(T) = n => T \in F}
<1>1. 0 \in C
    BY FS_EmptySet, FS_Subset
<1>2. ASSUME NEW n \in C PROVE n + 1 \in C
    <2> SUFFICES ASSUME NEW T \in SUBSET S, Cardinality(T) = n + 1 PROVE T \in F
        OBVIOUS
    <2>1. IsFiniteSet(T) /\ T # {}
        BY FS_EmptySet, FS_Subset
    <2>2. PICK x \in T : TRUE
        BY <2>1
    <2>3. Cardinality(T \ {x}) = n
        <3>1. Cardinality(T \ {x}) = Cardinality(T) - 1
            BY <2>1, FS_RemoveElement
        <3>2. n \in Nat
            OBVIOUS
        <3> QED BY <3>1, <3>2
    <2>4. T \ {x} \in F /\ x \in S \ (T \ {x}) /\ (T \ {x}) \cup {x} = T
        BY <2>3
    <2> QED BY <2>4
<1> HIDE DEF C
<1>3. C = Nat
    BY <1>1, <1>2, EveryNatural DEF C
<1>4. Cardinality(S) \in Nat
    BY FS_CardinalityType
<1> QED BY <1>3, <1>4 DEF C

\* f lists c and what n applications of F make of it, all in S.
IsIteration(f, F, c, n, S) ==
    /\ f \in [0 .. n -> S]
    /\ f[0] = c
    /\ \A i \in 1 .. n : f[i] = F[f[i - 1]]

\* A function can be applied as often as one likes.
LEMMA Iterates ==
    ASSUME NEW S, NEW F \in [S -> S], NEW c \in S, NEW n \in Nat
    PROVE  \E f : IsIteration(f, F, c, n, S)
<1> DEFINE It(f, k) == f[0] = c /\ \A i \in 1 .. k : f[i] = F[f[i - 1]]
           T == {k \in Nat : \E f \in [0 .. k -> S] : It(f, k)}
<1>1. 0 \in T
    <2>1. [i \in 0 .. 0 |-> c] \in [0 .. 0 -> S] /\ It([i \in 0 .. 0 |-> c], 0)
        OBVIOUS
    <2> QED BY <2>1
<1>2. ASSUME NEW k \in T PROVE k + 1 \in T
    <2>1. PICK f \in [0 .. k -> S] : It(f, k)
        OBVIOUS
    <2> DEFINE g == [i \in 0 .. (k + 1) |-> IF i = k + 1 THEN F[f[k]] ELSE f[i]]
    <2>2. g \in [0 .. (k + 1) -> S]
        OBVIOUS
    <2>3. ASSUME NEW i \in 1 .. (k + 1) PROVE g[i] = F[g[i - 1]]
        BY <2>1
    <2>4. g[0] = c
        BY <2>1
    <2>5. It(g, k + 1)
        BY <2>3, <2>4
    <2> HIDE DEF g, It
    <2> QED BY <2>2, <2>5
<1> HIDE DEF T
<1>3. T = Nat
    BY <1>1, <1>2, EveryNatural DEF T
<1> QED BY <1>3 DEF T, IsIteration

\* f is c at 0, and at i what F makes of i and of f at i - 1; all in S.
IsRecursion(f, F, c, n, S) ==
    /\ f \in [0 .. n -> S]
    /\ f[0] = c
    /\ \A i \in 1 .. n : f[i] = F[<<i, f[i - 1]>>]

\* A function of 0 .. n may be defined by recursion.
LEMMA Recursion ==
    ASSUME NEW S, NEW n \in Nat, NEW F \in [(1 .. n) \X S -> S], NEW c \in S
    PROVE  \E f : IsRecursion(f, F, c, n, S)
<1> DEFINE It(f, k) == f[0] = c /\ \A i \in 1 .. k : f[i] = F[<<i, f[i - 1]>>]
           T == {k \in Nat : k <= n => \E f \in [0 .. k -> S] : It(f, k)}
<1>1. 0 \in T
    <2>1. [i \in 0 .. 0 |-> c] \in [0 .. 0 -> S] /\ It([i \in 0 .. 0 |-> c], 0)
        OBVIOUS
    <2> QED BY <2>1
<1>2. ASSUME NEW k \in T PROVE k + 1 \in T
    <2> SUFFICES ASSUME k + 1 <= n PROVE \E f \in [0 .. (k + 1) -> S] : It(f, k + 1)
        OBVIOUS
    <2>1. PICK f \in [0 .. k -> S] : It(f, k)
        OBVIOUS
    <2> DEFINE g == [i \in 0 .. (k + 1) |-> IF i = k + 1 THEN F[<<k + 1, f[k]>>] ELSE f[i]]
    <2>2. g \in [0 .. (k + 1) -> S]
        <3>1. k + 1 \in 1 .. n /\ f[k] \in S
            OBVIOUS
        <3>2. F[<<k + 1, f[k]>>] \in S
            BY <3>1
        <3> QED BY <3>2
    <2>3. ASSUME NEW i \in 1 .. (k + 1) PROVE g[i] = F[<<i, g[i - 1]>>]
        BY <2>1
    <2>4. g[0] = c
        BY <2>1
    <2>5. It(g, k + 1)
        BY <2>3, <2>4
    <2> HIDE DEF g, It
    <2> QED BY <2>2, <2>5
<1> HIDE DEF T
<1>3. T = Nat
    BY <1>1, <1>2, EveryNatural DEF T
<1>4. \E f \in [0 .. n -> S] : It(f, n)
    <2> HIDE DEF It
    <2> QED BY <1>3 DEF T
<1> QED BY <1>4 DEF IsRecursion

\* g[T] is the sum of f over T, taken in the order CHOOSE gives.
IsSum(g, f, S) ==
    g = [T \in SUBSET S |->
            IF T = {} THEN 0
            ELSE f[CHOOSE x \in T : TRUE] + g[T \ {CHOOSE x \in T : TRUE}]]

\* The element a sum begins with.
LEMMA Taken ==
    ASSUME NEW S, IsFiniteSet(S), NEW n \in Nat, NEW T \in SUBSET S, Cardinality(T) = n + 1
    PROVE  LET x == CHOOSE y \in T : TRUE
           IN  /\ T # {} /\ x \in T /\ x \in S /\ T \ {x} \in SUBSET S
               /\ Cardinality(T \ {x}) = n
<1>1. IsFiniteSet(T) /\ T # {}
    BY FS_EmptySet, FS_Subset
<1>2. (CHOOSE y \in T : TRUE) \in T
    BY <1>1
<1>3. Cardinality(T \ {CHOOSE y \in T : TRUE}) = n
    <2>1. Cardinality(T \ {CHOOSE y \in T : TRUE}) = Cardinality(T) - 1
        BY <1>1, <1>2, FS_RemoveElement
    <2> QED BY <2>1
<1> QED BY <1>1, <1>2, <1>3

\* There is such a function for every finite set.
LEMMA SumExists ==
    ASSUME NEW S, IsFiniteSet(S), NEW f \in [S -> Int]
    PROVE  \E g : IsSum(g, f, S)
<1> DEFINE pick(T) == CHOOSE x \in T : TRUE
           upTo(g, n) == \A T \in SUBSET S : T # {} /\ Cardinality(T) <= n =>
                            g[T] = f[pick(T)] + g[T \ {pick(T)}]
           C == {n \in Nat : \E g \in [SUBSET S -> Int] : g[{}] = 0 /\ upTo(g, n)}
<1>1. \A T \in SUBSET S : IsFiniteSet(T) /\ Cardinality(T) \in Nat /\ (T # {} => Cardinality(T) # 0)
    BY FS_Subset, FS_CardinalityType, FS_EmptySet
<1>2. 0 \in C
    <2> DEFINE g == [T \in SUBSET S |-> 0]
    <2>1. g \in [SUBSET S -> Int] /\ g[{}] = 0
        OBVIOUS
    <2>2. upTo(g, 0)
        BY <1>1
    <2> HIDE DEF g, upTo
    <2> QED BY <2>1, <2>2
<1>3. ASSUME NEW n \in C PROVE n + 1 \in C
    <2>1. PICK g \in [SUBSET S -> Int] : g[{}] = 0 /\ upTo(g, n)
        OBVIOUS
    <2> DEFINE h == [T \in SUBSET S |->
                        IF Cardinality(T) = n + 1 THEN f[pick(T)] + g[T \ {pick(T)}] ELSE g[T]]
    <2>0. n \in Nat
        OBVIOUS
    <2>2. \A T \in SUBSET S : Cardinality(T) = n + 1 =>
             /\ T # {} /\ pick(T) \in S /\ T \ {pick(T)} \in SUBSET S
             /\ Cardinality(T \ {pick(T)}) = n
        BY <2>0, Taken
    <2> HIDE DEF pick
    <2>3. h \in [SUBSET S -> Int]
        BY <2>1, <2>2
    <2>4. h[{}] = 0
        BY <2>1, <2>2
    <2>5. ASSUME NEW T \in SUBSET S, T # {}, Cardinality(T) <= n + 1
          PROVE  h[T] = f[pick(T)] + h[T \ {pick(T)}]
        <3>1. CASE Cardinality(T) = n + 1
            <4>1. h[T] = f[pick(T)] + g[T \ {pick(T)}]
                BY <3>1
            <4>2. h[T \ {pick(T)}] = g[T \ {pick(T)}]
                <5>1. Cardinality(T \ {pick(T)}) # n + 1 /\ T \ {pick(T)} \in SUBSET S
                    BY <2>0, <2>2, <3>1
                <5> QED BY <5>1
            <4> QED BY <4>1, <4>2
        <3>2. CASE Cardinality(T) # n + 1
            <4>1. Cardinality(T) <= n /\ Cardinality(T) \in Nat /\ IsFiniteSet(T)
                BY <1>1, <2>0, <2>5, <3>2
            <4>2. g[T] = f[pick(T)] + g[T \ {pick(T)}]
                BY <2>1, <2>5, <4>1
            <4>3. h[T] = g[T]
                BY <3>2
            <4>4. h[T \ {pick(T)}] = g[T \ {pick(T)}]
                <5>1. pick(T) \in T
                    BY <2>5 DEF pick
                <5>2. Cardinality(T \ {pick(T)}) = Cardinality(T) - 1
                    BY <4>1, <5>1, FS_RemoveElement
                <5>3. Cardinality(T \ {pick(T)}) # n + 1 /\ T \ {pick(T)} \in SUBSET S
                    BY <2>0, <4>1, <5>2
                <5> QED BY <5>3
            <4> QED BY <4>2, <4>3, <4>4
        <3> QED BY <3>1, <3>2
    <2>6. upTo(h, n + 1)
        BY <2>5
    <2> HIDE DEF h, upTo
    <2> QED BY <2>0, <2>3, <2>4, <2>6
<1> HIDE DEF C
<1>4. C = Nat
    BY <1>2, <1>3, EveryNatural DEF C
<1>5. Cardinality(S) \in Nat
    BY FS_CardinalityType
<1>6. PICK g \in [SUBSET S -> Int] : g[{}] = 0 /\ upTo(g, Cardinality(S))
    <2> HIDE DEF upTo
    <2>1. Cardinality(S) \in C
        BY <1>4, <1>5
    <2> QED BY <2>1 DEF C
<1>7. \A T \in SUBSET S : Cardinality(T) <= Cardinality(S)
    BY FS_Subset
<1>8. \A T \in SUBSET S : T # {} => g[T] = f[pick(T)] + g[T \ {pick(T)}]
    BY <1>6, <1>7
<1>9. g = [T \in SUBSET S |-> IF T = {} THEN 0 ELSE f[pick(T)] + g[T \ {pick(T)}]]
    BY <1>6, <1>8
<1> QED BY <1>9 DEF IsSum

\* SumFunction is such a sum.
LEMMA SumFunctionIs ==
    ASSUME NEW S, IsFiniteSet(S), NEW f \in [S -> Int]
    PROVE  \E g : IsSum(g, f, S) /\ SumFunction(f) = g[S]
<1> DEFINE Def(g) == g = [T \in SUBSET S |->
                             IF T = {} THEN 0
                             ELSE LET x == CHOOSE y \in T : TRUE IN f[x] + g[T \ {x}]]
<1>1. DOMAIN f = S
    OBVIOUS
<1>2. SumFunction(f) =
         MapThenFoldSet(+, 0, LAMBDA i : f[i], LAMBDA s : CHOOSE x \in s : TRUE, S)
    BY <1>1 DEF SumFunction, SumFunctionOnSet, FoldFunctionOnSet
<1>3. SumFunction(f) = (CHOOSE g : Def(g))[S]
    BY <1>2 DEF MapThenFoldSet
<1>4. \A g : Def(g) <=> IsSum(g, f, S)
    BY DEF IsSum
<1>5. \E g : Def(g)
    <2> HIDE DEF Def
    <2>1. PICK g : IsSum(g, f, S)
        BY SumExists
    <2> QED BY <1>4, <2>1
<1> HIDE DEF Def
<1>6. Def(CHOOSE g : Def(g))
    BY <1>5
<1> QED BY <1>3, <1>4, <1>6

\* Sums of two functions that differ in one place.
LEMMA SumsDiffer ==
    ASSUME NEW S, IsFiniteSet(S), NEW f \in [S -> Int], NEW k \in [S -> Int], NEW a,
           \A x \in S : x # a => k[x] = f[x],
           NEW g, IsSum(g, f, S), NEW h, IsSum(h, k, S)
    PROVE  /\ g[S] \in Int
           /\ h[S] = IF a \in S THEN g[S] + (k[a] - f[a]) ELSE g[S]
<1> DEFINE pick(T) == CHOOSE x \in T : TRUE
           Good(T) == g[T] \in Int /\ h[T] = IF a \in T THEN g[T] + (k[a] - f[a]) ELSE g[T]
           C == {n \in Nat : \A T \in SUBSET S : Cardinality(T) = n => Good(T)}
<1>1. /\ g[{}] = 0 /\ h[{}] = 0
      /\ \A T \in SUBSET S : T # {} =>
            g[T] = f[pick(T)] + g[T \ {pick(T)}] /\ h[T] = k[pick(T)] + h[T \ {pick(T)}]
    BY DEF IsSum
<1>2. 0 \in C
    <2>1. \A T \in SUBSET S : Cardinality(T) = 0 => T = {}
        BY FS_Subset, FS_EmptySet
    <2>2. Good({})
        BY <1>1
    <2> HIDE DEF Good
    <2> QED BY <2>1, <2>2
<1>3. ASSUME NEW n \in C PROVE n + 1 \in C
    <2> SUFFICES ASSUME NEW T \in SUBSET S, Cardinality(T) = n + 1 PROVE Good(T)
        OBVIOUS
    <2>0. n \in Nat
        OBVIOUS
    <2>1. /\ T # {} /\ pick(T) \in T /\ pick(T) \in S /\ T \ {pick(T)} \in SUBSET S
          /\ Cardinality(T \ {pick(T)}) = n
        BY <2>0, Taken
    <2>2. Good(T \ {pick(T)})
        <3> HIDE DEF Good, pick
        <3> QED BY <2>1
    <2>3. g[T] = f[pick(T)] + g[T \ {pick(T)}] /\ h[T] = k[pick(T)] + h[T \ {pick(T)}]
        BY <1>1, <2>1
    <2> HIDE DEF pick
    <2>4. CASE pick(T) = a
        <3>1. a \in T /\ a \notin T \ {pick(T)} /\ f[a] \in Int /\ k[a] \in Int
            BY <2>1, <2>4
        <3> QED BY <2>2, <2>3, <2>4, <3>1
    <2>5. CASE pick(T) # a
        <3>1. k[pick(T)] = f[pick(T)] /\ f[pick(T)] \in Int
            BY <2>1, <2>5
        <3>2. a \in T <=> a \in T \ {pick(T)}
            BY <2>5
        <3>3. a \in T => f[a] \in Int /\ k[a] \in Int
            OBVIOUS
        <3> QED BY <2>2, <2>3, <3>1, <3>2, <3>3
    <2> QED BY <2>4, <2>5
<1> HIDE DEF C
<1>4. C = Nat
    BY <1>2, <1>3, EveryNatural DEF C
<1>5. Cardinality(S) \in C
    BY <1>4, FS_CardinalityType
<1> QED BY <1>5 DEF C

\* The sum of a function, and what it becomes when one value changes.
LEMMA SumOfUpdate ==
    ASSUME NEW S, IsFiniteSet(S), NEW f \in [S -> Int]
    PROVE  /\ SumFunction(f) \in Int
           /\ \A a \in S, v \in Int :
                 SumFunction([f EXCEPT ![a] = v]) = SumFunction(f) + (v - f[a])
<1>1. PICK g : IsSum(g, f, S) /\ SumFunction(f) = g[S]
    BY SumFunctionIs
<1>2. SumFunction(f) \in Int
    BY <1>1, SumsDiffer
<1>3. ASSUME NEW a \in S, NEW v \in Int
      PROVE  SumFunction([f EXCEPT ![a] = v]) = SumFunction(f) + (v - f[a])
    <2> DEFINE k == [f EXCEPT ![a] = v]
    <2>1. k \in [S -> Int] /\ k[a] = v /\ \A x \in S : x # a => k[x] = f[x]
        OBVIOUS
    <2> HIDE DEF k
    <2>2. PICK h : IsSum(h, k, S) /\ SumFunction(k) = h[S]
        BY <2>1, SumFunctionIs
    <2>3. h[S] = IF a \in S THEN g[S] + (k[a] - f[a]) ELSE g[S]
        BY <1>1, <2>1, <2>2, SumsDiffer
    <2> QED BY <1>1, <2>1, <2>2, <2>3 DEF k
<1> QED BY <1>2, <1>3

=============================================================================
