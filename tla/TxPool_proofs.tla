----------------------------- MODULE TxPool_proofs -----------------------------
(***************************************************************************)
(* What holds of TxPool for every set of transactions and every capacity:  *)
(* its type, that its list stays well formed, and that it is a queue.      *)
(***************************************************************************)
EXTENDS TxPool, TLAPS, InductionFacts, SequenceTheorems

(***************************************************************************)
(* The inductive invariant of the list.                                    *)
(***************************************************************************)

PoolType ==
    /\ txids \subseteq Tx
    /\ next \in [Tx -> Pointer] /\ prev \in [Tx -> Pointer]
    /\ tail \in Pointer /\ cursor \in Pointer
    /\ length \in 0 .. MaxTxNum

\* The list has no cycle: its nodes can be numbered so that next leads to a
\* larger number.  Without it a node could come to point to itself when the
\* node between goes.
Ordered ==
    \E age \in [Tx -> Nat] : \A t \in txids : next[t] # Nil => age[t] < age[next[t]]

ListInv == PoolType /\ IsFiniteSet(txids) /\ ListIsSound /\ Ordered

LEMMA ListInit == Init => ListInv
<1> SUFFICES ASSUME Init PROVE ListInv
    OBVIOUS
<1>1. PoolType
    BY PoolAssumption DEF Init, PoolType, Pointer
<1>2. IsFiniteSet(txids) /\ ListIsSound
    BY FS_EmptySet DEF Init, ListIsSound
<1>3. [t \in Tx |-> 0] \in [Tx -> Nat]
    OBVIOUS
<1>4. Ordered
    BY <1>3 DEF Init, Ordered
<1> QED BY <1>1, <1>2, <1>4 DEF ListInv

\* A node added at the tail keeps the list well formed (pool.go:32-58).
LEMMA AddKeepsList == ASSUME ListInv, NEW tx \in Tx, addValue(tx) PROVE ListInv'
<1>1. CASE UNCHANGED pool
    BY <1>1 DEF pool, ListInv, PoolType, ListIsSound, Ordered
<1>2. CASE ~ (tx \in txids \/ length >= MaxTxNum)
    <2>1. /\ txids' = txids \cup {tx}
          /\ next' = [t \in Tx |-> IF t = tx THEN Nil ELSE IF t = tail THEN tx ELSE next[t]]
          /\ prev' = [prev EXCEPT ![tx] = tail]
          /\ tail' = tx
          /\ cursor' = (IF cursor = Nil THEN tx ELSE cursor)
          /\ length' = length + 1
        BY <1>2 DEF addValue
    <2>2. /\ txids \subseteq Tx /\ next \in [Tx -> Pointer] /\ prev \in [Tx -> Pointer]
          /\ Nil \notin Tx /\ tail \in Pointer /\ cursor \in Pointer
        BY PoolAssumption DEF ListInv, PoolType
    <2>3. PoolType'
        <3>1. length' \in 0 .. MaxTxNum
            BY <1>2, <2>1, PoolAssumption DEF ListInv, PoolType
        <3> QED BY <2>1, <2>2, <3>1 DEF PoolType, Pointer
    <2>4. IsFiniteSet(txids') /\ length' = Cardinality(txids')
        BY <1>2, <2>1, FS_AddElement DEF ListInv, ListIsSound
    <2>5. {tail', cursor'} \subseteq txids' \cup {Nil}
        BY <2>1, <2>2 DEF ListInv, ListIsSound
    <2>6. \A t \in txids' : {next'[t], prev'[t]} \subseteq (txids' \cup {Nil}) \ {t}
        BY <1>2, <2>1, <2>2 DEF ListInv, ListIsSound
    <2>7. \A s, t \in txids' : next'[s] = t <=> prev'[t] = s
        <3> SUFFICES ASSUME NEW s \in txids', NEW t \in txids' PROVE next'[s] = t <=> prev'[t] = s
            OBVIOUS
        <3>1. CASE s = tx
            BY <1>2, <2>1, <2>2, <3>1 DEF ListInv, ListIsSound
        <3>2. CASE s # tx /\ s = tail
            BY <1>2, <2>1, <2>2, <3>2 DEF ListInv, ListIsSound
        <3>3. CASE s # tx /\ s # tail
            BY <1>2, <2>1, <2>2, <3>3 DEF ListInv, ListIsSound
        <3> QED BY <3>1, <3>2, <3>3
    <2>8. tail' # Nil => next'[tail'] = Nil
        BY <2>1
    <2>9. Ordered'
        <3>1. PICK age \in [Tx -> Nat] : \A t \in txids : next[t] # Nil => age[t] < age[next[t]]
            BY DEF ListInv, Ordered
        <3> DEFINE last == IF tail = Nil THEN 0 ELSE age[tail]
                   newer == [age EXCEPT ![tx] = last + 1]
        <3>2. last \in Nat /\ newer \in [Tx -> Nat]
            BY <2>2 DEF Pointer
        <3>3. ASSUME NEW t \in txids', next'[t] # Nil PROVE newer[t] < newer[next'[t]]
            <4>1. t \in txids /\ t # tx
                BY <2>1, <3>3
            <4>2. CASE t = tail
                BY <2>1, <2>2, <3>2, <4>1, <4>2
            <4>3. CASE t # tail
                <5>1. next'[t] = next[t] /\ next[t] # tx /\ next[t] \in Tx
                    BY <1>2, <2>1, <2>2, <3>3, <4>1, <4>3 DEF ListInv, ListIsSound
                <5> QED BY <2>2, <3>1, <3>3, <4>1, <5>1
            <4> QED BY <4>2, <4>3
        <3> HIDE DEF newer
        <3> QED BY <3>2, <3>3 DEF Ordered
    <2> QED BY <2>3, <2>4, <2>5, <2>6, <2>7, <2>8, <2>9 DEF ListInv, ListIsSound
<1> QED BY <1>1, <1>2 DEF addValue

\* A node unlinked anywhere leaves the list well formed (pool.go:90-116).
LEMMA DelKeepsList == ASSUME ListInv, NEW tx \in Tx, delValue(tx) PROVE ListInv'
<1>1. CASE UNCHANGED pool
    BY <1>1 DEF pool, ListInv, PoolType, ListIsSound, Ordered
<1>2. CASE tx \in txids
    <2>1. /\ txids' = txids \ {tx}
          /\ next' = [t \in Tx |-> IF t = prev[tx] THEN next[tx] ELSE next[t]]
          /\ prev' = [t \in Tx |-> IF t = next[tx] THEN prev[tx] ELSE prev[t]]
          /\ tail' = (IF tail = tx THEN next[tx] ELSE tail)
          /\ cursor' = (IF cursor = tx THEN next[tx] ELSE cursor)
          /\ length' = length - 1
        BY <1>2 DEF delValue
    <2>2. /\ txids \subseteq Tx /\ next \in [Tx -> Pointer] /\ prev \in [Tx -> Pointer]
          /\ Nil \notin Tx /\ tail \in Pointer /\ cursor \in Pointer
        BY PoolAssumption DEF ListInv, PoolType
    <2>3. /\ {tail, cursor} \subseteq txids \cup {Nil}
          /\ \A t \in txids : {next[t], prev[t]} \subseteq (txids \cup {Nil}) \ {t}
          /\ \A s, t \in txids : next[s] = t <=> prev[t] = s
          /\ tail # Nil => next[tail] = Nil
        BY DEF ListInv, ListIsSound
    <2>4. IsFiniteSet(txids') /\ length' = Cardinality(txids') /\ length' \in 0 .. MaxTxNum
        <3>1. /\ IsFiniteSet(txids') /\ Cardinality(txids') = Cardinality(txids) - 1
              /\ Cardinality(txids') \in Nat
            BY <1>2, <2>1, FS_RemoveElement, FS_CardinalityType DEF ListInv
        <3> QED BY <2>1, <3>1, PoolAssumption DEF ListInv, ListIsSound, PoolType
    <2>5. PoolType'
        BY <1>2, <2>1, <2>2, <2>4 DEF PoolType, Pointer
    <2>6. PICK age \in [Tx -> Nat] : \A t \in txids : next[t] # Nil => age[t] < age[next[t]]
        BY DEF ListInv, Ordered
    <2>7. ASSUME NEW t \in txids, prev[tx] = t, next[tx] # Nil
          PROVE  age[t] < age[next[tx]] /\ t # next[tx]
        <3>1. next[t] = tx /\ next[tx] \in txids
            BY <1>2, <2>3, <2>7
        <3>2. age[t] < age[tx] /\ age[tx] < age[next[tx]]
            BY <1>2, <2>2, <2>6, <2>7, <3>1
        <3>3. age[t] \in Nat /\ age[tx] \in Nat /\ age[next[tx]] \in Nat
            BY <2>2, <3>1
        <3> QED BY <3>2, <3>3
    <2>8. {tail', cursor'} \subseteq txids' \cup {Nil}
        BY <1>2, <2>1, <2>2, <2>3
    <2>9. \A t \in txids' : {next'[t], prev'[t]} \subseteq (txids' \cup {Nil}) \ {t}
        <3> SUFFICES ASSUME NEW t \in txids'
                     PROVE  {next'[t], prev'[t]} \subseteq (txids' \cup {Nil}) \ {t}
            OBVIOUS
        <3>1. next'[t] \in (txids' \cup {Nil}) \ {t}
            BY <1>2, <2>1, <2>2, <2>3, <2>7
        <3>2. prev'[t] \in (txids' \cup {Nil}) \ {t}
            BY <1>2, <2>1, <2>2, <2>3, <2>7
        <3> QED BY <3>1, <3>2
    <2>10. \A s, t \in txids' : next'[s] = t <=> prev'[t] = s
        <3> SUFFICES ASSUME NEW s \in txids', NEW t \in txids' PROVE next'[s] = t <=> prev'[t] = s
            OBVIOUS
        <3>1. CASE s = prev[tx]
            BY <1>2, <2>1, <2>2, <2>3, <3>1
        <3>2. CASE s # prev[tx]
            BY <1>2, <2>1, <2>2, <2>3, <3>2
        <3> QED BY <3>1, <3>2
    <2>11. tail' # Nil => next'[tail'] = Nil
        BY <1>2, <2>1, <2>2, <2>3
    <2>12. Ordered'
        <3>1. ASSUME NEW t \in txids', next'[t] # Nil PROVE age[t] < age[next'[t]]
            BY <2>1, <2>2, <2>6, <2>7, <3>1
        <3> QED BY <3>1 DEF Ordered
    <2> QED BY <2>4, <2>5, <2>8, <2>9, <2>10, <2>11, <2>12 DEF ListInv, ListIsSound
<1> QED BY <1>1, <1>2 DEF delValue

(***************************************************************************)
(* Reading: the walk from the cursor.                                      *)
(***************************************************************************)

\* Walk is a recursive function; this is what it computes.
LEMMA WalkDef ==
    ASSUME PoolType, NEW k \in Nat
    PROVE  /\ Walk(k) \in [0 .. k -> Pointer]
           /\ Walk(k)[0] = cursor
           /\ \A i \in 1 .. k :
                 Walk(k)[i] = IF Walk(k)[i - 1] = Nil THEN Nil ELSE next[Walk(k)[i - 1]]
<1> DEFINE F == [p \in Pointer |-> IF p = Nil THEN Nil ELSE next[p]]
           Def(f) == f = [i \in 0 .. k |-> IF i = 0 THEN cursor
                                           ELSE IF f[i - 1] = Nil THEN Nil ELSE next[f[i - 1]]]
<1>1. F \in [Pointer -> Pointer] /\ cursor \in Pointer
    BY DEF PoolType, Pointer
<1>2. PICK f \in [0 .. k -> Pointer] : f[0] = cursor /\ \A i \in 1 .. k : f[i] = F[f[i - 1]]
    <2>1. \E f : IsIteration(f, F, cursor, k, Pointer)
        <3> HIDE DEF F
        <3> QED BY <1>1, Iterates
    <2> QED BY <2>1 DEF IsIteration
<1>3. \A i \in 1 .. k : i - 1 \in 0 .. k /\ f[i - 1] \in Pointer
    OBVIOUS
<1>4. \A i \in 1 .. k : f[i] = IF f[i - 1] = Nil THEN Nil ELSE next[f[i - 1]]
    BY <1>2, <1>3
<1>5. Def(f)
    BY <1>2, <1>4
<1>6. Walk(k) = CHOOSE g : Def(g)
    BY DEF Walk
<1>7. Def(Walk(k))
    <2> HIDE DEF Def
    <2> QED BY <1>5, <1>6
<1> DEFINE w == Walk(k)
<1>8. w = [i \in 0 .. k |-> IF i = 0 THEN cursor
                            ELSE IF w[i - 1] = Nil THEN Nil ELSE next[w[i - 1]]]
    BY <1>7
<1> HIDE DEF w
<1>9. /\ DOMAIN w = 0 .. k /\ w[0] = cursor
      /\ \A i \in 1 .. k : w[i] = IF w[i - 1] = Nil THEN Nil ELSE next[w[i - 1]]
    BY <1>8
<1> DEFINE T == {i \in Nat : i <= k => w[i] = f[i]}
<1>10. 0 \in T
    BY <1>2, <1>9
<1>11. ASSUME NEW i \in T PROVE i + 1 \in T
    <2> SUFFICES ASSUME i + 1 <= k PROVE w[i + 1] = f[i + 1]
        OBVIOUS
    <2>1. w[i] = f[i] /\ i + 1 \in 1 .. k /\ (i + 1) - 1 = i
        OBVIOUS
    <2> QED BY <1>4, <1>9, <2>1
<1> HIDE DEF T
<1>12. T = Nat
    BY <1>10, <1>11, EveryNatural DEF T
<1>13. \A i \in 0 .. k : w[i] = f[i]
    BY <1>12 DEF T
<1>14. w = f
    BY <1>8, <1>13
<1> QED BY <1>9, <1>14 DEF w

\* The walk stays in the list.
LEMMA WalkInList ==
    ASSUME ListInv, NEW k \in Nat, NEW i \in 0 .. k
    PROVE  Walk(k)[i] \in txids \cup {Nil}
<1> DEFINE w == Walk(k)
           T == {j \in Nat : j <= k => w[j] \in txids \cup {Nil}}
<1>1. /\ w[0] = cursor
      /\ \A j \in 1 .. k : w[j] = IF w[j - 1] = Nil THEN Nil ELSE next[w[j - 1]]
    BY WalkDef DEF ListInv
<1>2. /\ cursor \in txids \cup {Nil}
      /\ \A t \in txids : next[t] \in txids \cup {Nil}
    BY DEF ListInv, ListIsSound
<1> HIDE DEF w
<1>3. 0 \in T
    BY <1>1, <1>2
<1>4. ASSUME NEW j \in T PROVE j + 1 \in T
    <2> SUFFICES ASSUME j + 1 <= k PROVE w[j + 1] \in txids \cup {Nil}
        OBVIOUS
    <2>1. w[j] \in txids \cup {Nil} /\ j + 1 \in 1 .. k /\ (j + 1) - 1 = j
        OBVIOUS
    <2> QED BY <1>1, <1>2, <2>1
<1> HIDE DEF T
<1>5. T = Nat
    BY <1>3, <1>4, EveryNatural DEF T
<1> QED BY <1>5 DEF T, w

\* Reading moves the cursor along the list and changes nothing else
\* (pool.go:60-88).
LEMMA ScanKeepsList == ASSUME ListInv, NEW k \in Nat, scanValue(k) PROVE ListInv'
<1>1. cursor' \in txids \cup {Nil}
    BY WalkInList DEF scanValue
<1>2. UNCHANGED <<txids, next, prev, tail, length>>
    BY DEF scanValue
<1>3. cursor' \in Pointer
    BY <1>1 DEF ListInv, PoolType, Pointer
<1> QED BY <1>1, <1>2, <1>3 DEF ListInv, PoolType, ListIsSound, Ordered

\* What is read is the walk up to its first Nil.
LEMMA ScannedDef ==
    ASSUME PoolType, NEW k \in Nat
    PROVE  \E n \in 0 .. k :
              /\ scanned(k) = [i \in 1 .. n |-> Walk(k)[i - 1]]
              /\ \A j \in 0 .. (n - 1) : Walk(k)[j] \in Tx
              /\ Walk(k)[k] # Nil => n = k
              /\ n < k => Walk(k)[n] = Nil
<1> DEFINE w == Walk(k)
           B == {j \in 0 .. k : j = k \/ w[j] = Nil}
<1>1. /\ w \in [0 .. k -> Pointer]
      /\ \A i \in 1 .. k : w[i] = IF w[i - 1] = Nil THEN Nil ELSE next[w[i - 1]]
    BY WalkDef
<1> HIDE DEF w
<1>2. k \in B /\ B \in SUBSET Nat
    OBVIOUS
<1>3. PICK n \in B : \A j \in B : n <= j
    BY <1>2, LeastNatural
<1>4. n \in 0 .. k /\ (n < k => w[n] = Nil)
    OBVIOUS
<1>5. \A j \in 0 .. (n - 1) : w[j] # Nil
    BY <1>3, <1>4
<1> DEFINE T == {i \in Nat : n + i <= k /\ n < k => w[n + i] = Nil}
<1>6. 0 \in T
    BY <1>4
<1>7. ASSUME NEW i \in T PROVE i + 1 \in T
    <2> SUFFICES ASSUME n + (i + 1) <= k, n < k PROVE w[n + (i + 1)] = Nil
        OBVIOUS
    <2>1. w[n + i] = Nil /\ n + (i + 1) \in 1 .. k /\ (n + (i + 1)) - 1 = n + i
        BY <1>4
    <2> QED BY <1>1, <2>1
<1> HIDE DEF T
<1>8. T = Nat
    BY <1>6, <1>7, EveryNatural DEF T
<1>9. \A j \in n .. k : n < k => w[j] = Nil
    <2> TAKE j \in n .. k
    <2>1. j - n \in Nat /\ n + (j - n) = j /\ j <= k
        BY <1>4
    <2>2. j - n \in T
        BY <1>8, <2>1
    <2> QED BY <2>1, <2>2 DEF T
<1>10. {j \in 0 .. (k - 1) : w[j] # Nil} = 0 .. (n - 1)
    BY <1>4, <1>5, <1>9
<1>11. Cardinality(0 .. (n - 1)) = n
    BY <1>4, FS_Interval
<1>12. scanned(k) = [i \in 1 .. n |-> w[i - 1]]
    BY <1>10, <1>11 DEF scanned, w
<1>13. \A j \in 0 .. (n - 1) : w[j] \in Tx
    BY <1>1, <1>4, <1>5 DEF Pointer
<1>14. w[k] # Nil => n = k
    BY <1>4, <1>9
<1> QED BY <1>4, <1>12, <1>13, <1>14 DEF w

\* What is read is a sequence of at most k transactions.
LEMMA ScannedType ==
    ASSUME PoolType, NEW k \in Nat
    PROVE  scanned(k) \in Seq(Tx) /\ Len(scanned(k)) <= k
<1>1. PICK n \in 0 .. k :
         /\ scanned(k) = [i \in 1 .. n |-> Walk(k)[i - 1]]
         /\ \A j \in 0 .. (n - 1) : Walk(k)[j] \in Tx
    BY ScannedDef
<1>2. \A i \in 1 .. n : Walk(k)[i - 1] \in Tx
    BY <1>1
<1>3. n \in Nat /\ n <= k
    OBVIOUS
<1> DEFINE w == Walk(k)
<1> HIDE DEF w
<1>4. scanned(k) \in [1 .. n -> Tx]
    BY <1>1, <1>2 DEF w
<1> QED BY <1>3, <1>4

(***************************************************************************)
(* Type correctness, and the list in every reachable state.                *)
(***************************************************************************)

\* The sequences of length at most n.
LEMMA Bounded ==
    ASSUME NEW S, NEW n \in Nat, NEW s
    PROVE  s \in BoundedSeq(S, n) <=> s \in Seq(S) /\ Len(s) <= n
<1>1. ASSUME s \in BoundedSeq(S, n) PROVE s \in Seq(S) /\ Len(s) <= n
    <2>1. PICK m \in 0 .. n : s \in [1 .. m -> S]
        BY <1>1 DEF BoundedSeq, SeqOf
    <2> QED BY <2>1
<1>2. ASSUME s \in Seq(S), Len(s) <= n PROVE s \in BoundedSeq(S, n)
    <2>1. Len(s) \in 0 .. n /\ s \in [1 .. Len(s) -> S]
        BY <1>2, LenProperties
    <2> QED BY <2>1 DEF BoundedSeq, SeqOf
<1> QED BY <1>1, <1>2

\* The packer has no more receipts than transactions it has evaluated.
PackingInv ==
    /\ phase \in {"idle", "reading", "evaluating", "done"}
    /\ packed \in Seq(Tx) /\ Len(packed) <= MaxBlockTxs
    /\ evaluated \in 0 .. Len(packed)
    /\ receipts \in Seq(Tx) /\ Len(receipts) <= evaluated
    /\ snap \subseteq Tx

ChainInv ==
    /\ applying \in Seq(Tx) /\ Len(applying) <= MaxBlockTxs
    /\ executed \subseteq Tx

IInv == ListInv /\ PackingInv /\ ChainInv

LEMMA InitEstablishes == Init => IInv
<1> SUFFICES ASSUME Init PROVE IInv
    OBVIOUS
<1>1. PackingInv /\ ChainInv
    BY PoolAssumption, EmptySeq DEF Init, PackingInv, ChainInv
<1> QED BY <1>1, ListInit DEF IInv

LEMMA InvGivesType == IInv => TypeOK
<1> SUFFICES ASSUME IInv PROVE TypeOK
    OBVIOUS
<1>1. MaxBlockTxs \in Nat /\ Len(packed) \in Nat /\ Len(receipts) \in Nat
    BY PoolAssumption, LenProperties DEF IInv, PackingInv
<1>2. Len(receipts) <= MaxBlockTxs
    BY <1>1 DEF IInv, PackingInv
<1>3. /\ packed \in BoundedSeq(Tx, MaxBlockTxs)
      /\ receipts \in BoundedSeq(Tx, MaxBlockTxs)
      /\ applying \in BoundedSeq(Tx, MaxBlockTxs)
    BY <1>1, <1>2, Bounded DEF IInv, PackingInv, ChainInv
<1> QED BY <1>3 DEF TypeOK, IInv, ListInv, PoolType, PackingInv, ChainInv

\* The invariant holds after every step.
LEMMA StepKeeps == ASSUME IInv, [Next]_vars PROVE IInv'
<1> USE DEF IInv
<1>0. MaxBlockTxs \in Nat \ {0} /\ Len(packed) \in Nat /\ Len(receipts) \in Nat
    BY PoolAssumption, LenProperties DEF PackingInv
<1>1. ASSUME UNCHANGED pool PROVE ListInv'
    BY <1>1 DEF pool, ListInv, PoolType, ListIsSound, Ordered
<1>2. ASSUME UNCHANGED packing PROVE PackingInv'
    BY <1>2 DEF packing, PackingInv
<1>3. ASSUME UNCHANGED chain PROVE ChainInv'
    BY <1>3 DEF chain, ChainInv
<1>4. CASE UNCHANGED vars
    BY <1>1, <1>2, <1>3, <1>4 DEF vars
<1>5. ASSUME NEW tx \in Tx, AddTx(tx) PROVE IInv'
    BY <1>2, <1>3, <1>5, AddKeepsList DEF AddTx
<1>6. CASE StartPackaging
    <2>1. PackingInv'
        BY <1>0, <1>6, EmptySeq DEF StartPackaging, PackingInv
    <2> QED BY <1>1, <1>3, <1>6, <2>1 DEF StartPackaging
<1>7. CASE GetTx
    <2>1. ListInv'
        BY <1>0, <1>7, ScanKeepsList DEF GetTx
    <2>2. scanned(MaxBlockTxs) \in Seq(Tx)
        BY <1>0, ScannedType DEF ListInv
    <2> DEFINE ts == scanned(MaxBlockTxs)
    <2>3. /\ packed \o ts \in Seq(Tx) /\ Len(packed \o ts) = Len(packed) + Len(ts)
          /\ Len(ts) \in Nat
        BY <2>2, ConcatProperties, LenProperties DEF PackingInv
    <2>4. /\ UNCHANGED <<evaluated, receipts, snap>>
          /\ \/ phase' = "evaluating" /\ UNCHANGED packed
             \/ /\ ~ (Len(packed) + Len(ts) > MaxBlockTxs)
                /\ packed' = packed \o ts /\ UNCHANGED phase
        BY <1>7 DEF GetTx
    <2> HIDE DEF ts
    <2>5. /\ packed' \in Seq(Tx) /\ Len(packed') <= MaxBlockTxs
          /\ evaluated' \in 0 .. Len(packed')
        <3>1. /\ packed \in Seq(Tx) /\ Len(packed) <= MaxBlockTxs
              /\ evaluated \in 0 .. Len(packed) /\ evaluated' = evaluated
            BY <2>4 DEF PackingInv
        <3>2. CASE UNCHANGED packed
            BY <3>1, <3>2
        <3>3. CASE ~ (Len(packed) + Len(ts) > MaxBlockTxs) /\ packed' = packed \o ts
            BY <1>0, <2>3, <3>1, <3>3
        <3> QED BY <2>4, <3>2, <3>3
    <2>6. PackingInv'
        BY <2>4, <2>5 DEF PackingInv
    <2> QED BY <1>3, <1>7, <2>1, <2>6 DEF GetTx
<1>8. CASE Eval
    <2> DEFINE tx == packed[evaluated + 1]
    <2>1. evaluated < Len(packed) /\ evaluated' = evaluated + 1 /\ UNCHANGED <<phase, packed>>
        BY <1>8 DEF Eval
    <2>2. evaluated + 1 \in 1 .. Len(packed) /\ evaluated + 1 \in 0 .. Len(packed)
        BY <1>0, <2>1 DEF PackingInv
    <2>3. tx \in Tx
        BY <2>2, ElementOfSeq DEF PackingInv
    <2>4. \/ delValue(tx) /\ UNCHANGED <<receipts, snap>>
          \/ /\ receipts' = Append(receipts, tx)
             /\ snap' \in {snap, snap \cup {tx}}
             /\ UNCHANGED pool
        BY <1>8 DEF Eval
    <2> HIDE DEF tx
    <2>5. ListInv'
        BY <1>1, <2>3, <2>4, DelKeepsList
    <2>6. Append(receipts, tx) \in Seq(Tx) /\ Len(Append(receipts, tx)) = Len(receipts) + 1
        BY <2>3, AppendProperties DEF PackingInv
    <2>7. receipts' \in Seq(Tx) /\ Len(receipts') <= evaluated' /\ snap' \subseteq Tx
        <3>1. /\ evaluated \in Int /\ receipts \in Seq(Tx) /\ Len(receipts) <= evaluated
              /\ snap \subseteq Tx
            BY <1>0 DEF PackingInv
        <3>2. CASE UNCHANGED <<receipts, snap>>
            BY <1>0, <2>1, <3>1, <3>2
        <3>3. CASE receipts' = Append(receipts, tx) /\ snap' \in {snap, snap \cup {tx}}
            BY <1>0, <2>1, <2>3, <2>6, <3>1, <3>3
        <3> QED BY <2>4, <3>2, <3>3
    <2>8. PackingInv'
        BY <2>1, <2>2, <2>7 DEF PackingInv
    <2> QED BY <1>3, <1>8, <2>5, <2>8 DEF Eval
<1>9. CASE EndPackaging
    <2>1. PackingInv'
        BY <1>9 DEF EndPackaging, PackingInv
    <2> QED BY <1>1, <1>3, <1>9, <2>1 DEF EndPackaging
<1>10. CASE StartApplying
    <2>1. applying' \in BoundedSeq(Tx \ executed, MaxBlockTxs) /\ UNCHANGED executed
        BY <1>10 DEF StartApplying
    <2>2. applying' \in Seq(Tx \ executed) /\ Len(applying') <= MaxBlockTxs
        BY <1>0, <2>1, Bounded
    <2>3. applying' \in Seq(Tx)
        BY <2>2, SeqMonotonic
    <2>4. ChainInv'
        BY <2>1, <2>2, <2>3 DEF ChainInv
    <2> QED BY <1>1, <1>2, <1>10, <2>4 DEF StartApplying
<1>11. CASE Exec
    <2>1. /\ Head(applying) \in Tx /\ Tail(applying) \in Seq(Tx)
          /\ Len(Tail(applying)) = Len(applying) - 1 /\ Len(applying) \in Nat
        BY <1>11, HeadTailProperties, LenProperties DEF Exec, ChainInv
    <2>2. ListInv'
        BY <1>11, <2>1, DelKeepsList DEF Exec
    <2>3. ChainInv'
        BY <1>0, <1>11, <2>1 DEF Exec, ChainInv
    <2> QED BY <1>2, <1>11, <2>2, <2>3 DEF Exec
<1> QED
    BY <1>4, <1>5, <1>6, <1>7, <1>8, <1>9, <1>10, <1>11 DEF Next

\* The pool, the packer and the executor keep their types whatever the
\* interleaving, for every set of transactions and every capacity.
THEOREM TypeCorrect == Spec => []TypeOK
BY InitEstablishes, StepKeeps, InvGivesType, PTL DEF Spec

\* The list is well formed in every reachable state: no pointer leads to a
\* node that was removed (pool.go:90-116).
THEOREM ListStaysSound == Spec => []ListIsSound
<1>1. IInv => ListIsSound
    BY DEF IInv, ListInv
<1> QED BY <1>1, InitEstablishes, StepKeeps, PTL DEF Spec

(***************************************************************************)
(* Refinement: the pool is a queue.  What reading will still return is the *)
(* one sequence of nodes that starts at the cursor, follows next and ends  *)
(* at a node without one.                                                  *)
(***************************************************************************)

\* a lists nodes from the cursor on, as next leads.
Path(a) ==
    /\ a \in Seq(Tx)
    /\ Len(a) > 0 => a[1] = cursor
    /\ \A i \in 1 .. (Len(a) - 1) : next[a[i]] = a[i + 1]

\* a lists all of them.
Chain(a) ==
    /\ Path(a)
    /\ Len(a) = 0 => cursor = Nil
    /\ Len(a) > 0 => next[a[Len(a)]] = Nil

\* A path stays in the pool and meets no node twice.
LEMMA PathInPool ==
    ASSUME ListInv, NEW a, Path(a)
    PROVE  /\ \A i \in 1 .. Len(a) : a[i] \in txids
           /\ \A i, j \in 1 .. Len(a) : a[i] = a[j] => i = j
<1>0. /\ a \in Seq(Tx) /\ Len(a) \in Nat /\ \A i \in 1 .. Len(a) : a[i] \in Tx
      /\ Nil \notin Tx
    BY LenProperties, PoolAssumption DEF Path
<1>1. \A i \in 1 .. Len(a) : a[i] \in txids
    <2> DEFINE T == {d \in Nat : d + 1 <= Len(a) => a[d + 1] \in txids}
    <2>1. 0 \in T
        BY <1>0 DEF Path, ListInv, ListIsSound
    <2>2. ASSUME NEW d \in T PROVE d + 1 \in T
        <3> SUFFICES ASSUME (d + 1) + 1 <= Len(a) PROVE a[(d + 1) + 1] \in txids
            OBVIOUS
        <3>1. a[d + 1] \in txids /\ d + 1 \in 1 .. (Len(a) - 1) /\ (d + 1) + 1 \in 1 .. Len(a)
            BY <1>0
        <3>2. next[a[d + 1]] = a[(d + 1) + 1] /\ next[a[d + 1]] \in txids \cup {Nil}
            BY <3>1 DEF Path, ListInv, ListIsSound
        <3> QED BY <1>0, <3>1, <3>2
    <2> HIDE DEF T
    <2>3. T = Nat
        BY <2>1, <2>2, EveryNatural DEF T
    <2> TAKE i \in 1 .. Len(a)
    <2>4. i - 1 \in T /\ (i - 1) + 1 = i
        BY <1>0, <2>3
    <2> QED BY <1>0, <2>4 DEF T
<1>2. PICK age \in [Tx -> Nat] : \A t \in txids : next[t] # Nil => age[t] < age[next[t]]
    BY DEF ListInv, Ordered
<1>3. \A i \in 1 .. (Len(a) - 1) : age[a[i]] < age[a[i + 1]]
    <2> TAKE i \in 1 .. (Len(a) - 1)
    <2>1. i \in 1 .. Len(a) /\ i + 1 \in 1 .. Len(a)
        BY <1>0
    <2> QED BY <1>0, <1>1, <1>2, <2>1 DEF Path
<1> DEFINE T == {d \in Nat : \A i \in 1 .. Len(a) :
                                i + (d + 1) <= Len(a) => age[a[i]] < age[a[i + (d + 1)]]}
<1>4. 0 \in T
    BY <1>0, <1>3
<1>5. ASSUME NEW d \in T PROVE d + 1 \in T
    <2> SUFFICES ASSUME NEW i \in 1 .. Len(a), i + ((d + 1) + 1) <= Len(a)
                 PROVE  age[a[i]] < age[a[i + ((d + 1) + 1)]]
        OBVIOUS
    <2> DEFINE j == i + (d + 1)
    <2>1. j \in 1 .. (Len(a) - 1) /\ j \in 1 .. Len(a) /\ j + 1 \in 1 .. Len(a)
          /\ j + 1 = i + ((d + 1) + 1)
        BY <1>0
    <2>2. age[a[i]] < age[a[j]]
        BY <1>0, <2>1
    <2>3. age[a[j]] < age[a[j + 1]]
        BY <1>3, <2>1
    <2>4. age[a[i]] \in Nat /\ age[a[j]] \in Nat /\ age[a[j + 1]] \in Nat
        BY <1>0, <2>1
    <2> HIDE DEF j
    <2>5. age[a[i]] < age[a[j + 1]]
        BY <2>2, <2>3, <2>4
    <2> QED BY <2>1, <2>5
<1> HIDE DEF T
<1>6. T = Nat
    BY <1>4, <1>5, EveryNatural DEF T
<1>7. ASSUME NEW i \in 1 .. Len(a), NEW j \in 1 .. Len(a), i < j PROVE a[i] # a[j]
    <2>1. j - (i + 1) \in T /\ i + ((j - (i + 1)) + 1) = j
        BY <1>0, <1>6, <1>7
    <2>2. age[a[i]] < age[a[j]]
        BY <1>0, <2>1 DEF T
    <2>3. age[a[i]] \in Nat
        BY <1>0
    <2> QED BY <2>2, <2>3
<1> QED BY <1>0, <1>1, <1>7

\* So it is no longer than the pool is large.
LEMMA PathIsShort ==
    ASSUME ListInv, NEW a, Path(a) PROVE Len(a) \in Nat /\ Len(a) <= MaxTxNum
<1>1. a \in Seq(Tx) /\ Len(a) \in Nat /\ a \in [1 .. Len(a) -> Tx]
    BY LenProperties DEF Path
<1>2. a \in [1 .. Len(a) -> txids]
    BY <1>1, PathInPool
<1>3. /\ IsFiniteSet(1 .. Len(a)) /\ Cardinality(1 .. Len(a)) = Len(a)
    BY <1>1, FS_Interval
<1>4. IsFiniteSet(txids) /\ Cardinality(txids) = length /\ length \in Nat /\ length <= MaxTxNum
    BY PoolAssumption DEF ListInv, ListIsSound, PoolType
<1>5. ~ (Cardinality(txids) < Cardinality(1 .. Len(a)))
    BY <1>2, <1>3, <1>4, FS_PigeonHole, PathInPool
<1> QED BY <1>1, <1>3, <1>4, <1>5, PoolAssumption

\* Walking k steps along the chain.
LEMMA WalkAlong ==
    ASSUME ListInv, NEW a, Chain(a), NEW k \in Nat, NEW j \in 0 .. k
    PROVE  Walk(k)[j] = IF j < Len(a) THEN a[j + 1] ELSE Nil
<1> DEFINE w == Walk(k)
           T == {i \in Nat : i <= k => w[i] = IF i < Len(a) THEN a[i + 1] ELSE Nil}
<1>1. /\ w[0] = cursor
      /\ \A i \in 1 .. k : w[i] = IF w[i - 1] = Nil THEN Nil ELSE next[w[i - 1]]
    BY WalkDef DEF ListInv
<1> HIDE DEF w
<1>2. /\ Len(a) \in Nat /\ \A i \in 1 .. Len(a) : a[i] \in Tx
      /\ Nil \notin Tx
    BY LenProperties, PoolAssumption DEF Chain, Path
<1>3. 0 \in T
    BY <1>1, <1>2 DEF Chain, Path
<1>4. ASSUME NEW i \in T PROVE i + 1 \in T
    <2> SUFFICES ASSUME i + 1 <= k
                 PROVE  w[i + 1] = IF i + 1 < Len(a) THEN a[(i + 1) + 1] ELSE Nil
        OBVIOUS
    <2>1. /\ w[i] = IF i < Len(a) THEN a[i + 1] ELSE Nil
          /\ i + 1 \in 1 .. k /\ (i + 1) - 1 = i
        OBVIOUS
    <2>2. w[i + 1] = IF w[i] = Nil THEN Nil ELSE next[w[i]]
        BY <1>1, <2>1
    <2>3. CASE i + 1 < Len(a)
        <3>1. w[i] = a[i + 1] /\ a[i + 1] # Nil /\ i + 1 \in 1 .. (Len(a) - 1)
            BY <1>2, <2>1, <2>3
        <3> QED BY <2>2, <2>3, <3>1 DEF Chain, Path
    <2>4. CASE i + 1 = Len(a)
        <3>1. w[i] = a[Len(a)] /\ a[Len(a)] # Nil /\ Len(a) > 0
            BY <1>2, <2>1, <2>4
        <3> QED BY <2>2, <2>4, <3>1 DEF Chain
    <2>5. CASE i + 1 > Len(a)
        BY <1>2, <2>1, <2>2, <2>5
    <2> QED BY <1>2, <2>3, <2>4, <2>5
<1> HIDE DEF T
<1>5. T = Nat
    BY <1>3, <1>4, EveryNatural DEF T
<1> QED BY <1>5 DEF T, w

\* Reading k transactions returns the first k of the chain, or all of it.
LEMMA ReadsChain ==
    ASSUME ListInv, NEW a, Chain(a), NEW k \in Nat
    PROVE  /\ scanned(k) \in Seq(Tx)
           /\ Len(scanned(k)) = IF k <= Len(a) THEN k ELSE Len(a)
           /\ \A i \in 1 .. Len(scanned(k)) : scanned(k)[i] = a[i]
<1> DEFINE w == Walk(k)
<1>1. PICK n \in 0 .. k :
         /\ scanned(k) = [i \in 1 .. n |-> w[i - 1]]
         /\ \A j \in 0 .. (n - 1) : w[j] \in Tx
         /\ n < k => w[n] = Nil
    BY ScannedDef DEF ListInv
<1>2. \A j \in 0 .. k : w[j] = IF j < Len(a) THEN a[j + 1] ELSE Nil
    BY WalkAlong
<1>3. /\ Len(a) \in Nat /\ \A i \in 1 .. Len(a) : a[i] \in Tx
      /\ Nil \notin Tx
    BY LenProperties, PoolAssumption DEF Chain, Path
<1> HIDE DEF w
<1>4. n \in Nat /\ n <= k
    OBVIOUS
<1>5. n = IF k <= Len(a) THEN k ELSE Len(a)
    <2>1. n < k => ~ (n < Len(a))
        <3> SUFFICES ASSUME n < k, n < Len(a) PROVE FALSE
            OBVIOUS
        <3>1. w[n] = a[n + 1] /\ n + 1 \in 1 .. Len(a)
            BY <1>2, <1>3, <1>4
        <3> QED BY <1>1, <1>3, <3>1
    <2>2. ~ (Len(a) < n)
        <3> SUFFICES ASSUME Len(a) < n PROVE FALSE
            OBVIOUS
        <3>1. w[Len(a)] = Nil /\ Len(a) \in 0 .. (n - 1)
            BY <1>2, <1>3, <1>4
        <3> QED BY <1>1, <1>3, <3>1
    <2> QED BY <1>3, <1>4, <2>1, <2>2
<1>6. \A i \in 1 .. n : i - 1 \in 0 .. (n - 1) /\ i - 1 \in 0 .. k /\ i - 1 < Len(a) /\ (i - 1) + 1 = i
    BY <1>3, <1>4, <1>5
<1>7. \A i \in 1 .. n : w[i - 1] = a[i] /\ w[i - 1] \in Tx
    BY <1>1, <1>2, <1>6
<1>8. scanned(k) \in [1 .. n -> Tx] /\ \A i \in 1 .. n : scanned(k)[i] = a[i]
    BY <1>1, <1>7
<1>9. scanned(k) \in Seq(Tx) /\ Len(scanned(k)) = n
    BY <1>4, <1>8
<1> QED BY <1>5, <1>8, <1>9

\* What the refinement calls ahead is the chain.
LEMMA AheadIsChain == ASSUME ListInv PROVE Chain(scanned(MaxTxNum))
<1> DEFINE M == MaxTxNum
           w == Walk(M)
           s == scanned(M)
<1>0. M \in Nat /\ Nil \notin Tx
    BY PoolAssumption
<1>1. PICK n \in 0 .. M :
         /\ s = [i \in 1 .. n |-> w[i - 1]]
         /\ \A j \in 0 .. (n - 1) : w[j] \in Tx
         /\ n < M => w[n] = Nil
    BY <1>0, ScannedDef DEF ListInv
<1>2. /\ w[0] = cursor
      /\ \A i \in 1 .. M : w[i] = IF w[i - 1] = Nil THEN Nil ELSE next[w[i - 1]]
    BY <1>0, WalkDef DEF ListInv
<1> HIDE DEF M, w, s
<1>3. n \in Nat /\ n <= M
    BY <1>0
<1>4. \A i \in 1 .. n : i - 1 \in 0 .. (n - 1)
    BY <1>3
<1>5. s \in [1 .. n -> Tx]
    BY <1>1, <1>4
<1>6. s \in Seq(Tx) /\ Len(s) = n
    BY <1>3, <1>5
<1>7. n > 0 => s[1] = cursor /\ s[n] = w[n - 1] /\ w[n - 1] \in Tx
    BY <1>1, <1>2, <1>3
<1>8. \A i \in 1 .. (n - 1) : next[s[i]] = s[i + 1]
    <2> TAKE i \in 1 .. (n - 1)
    <2>1. /\ i \in 1 .. n /\ i + 1 \in 1 .. n /\ i \in 1 .. M
          /\ i - 1 \in 0 .. (n - 1) /\ (i + 1) - 1 = i
        BY <1>0, <1>3
    <2>2. s[i] = w[i - 1] /\ s[i + 1] = w[i] /\ w[i - 1] # Nil
        BY <1>0, <1>1, <2>1
    <2> QED BY <1>2, <2>1, <2>2
<1>9. Path(s)
    BY <1>6, <1>7, <1>8 DEF Path
<1> DEFINE e == IF n = 0 THEN cursor ELSE next[w[n - 1]]
<1>10. e = Nil
    <2>1. CASE n < M
        <3>1. w[n] = Nil
            BY <1>1, <2>1
        <3>2. CASE n = 0
            BY <1>2, <3>1, <3>2
        <3>3. CASE n > 0
            <4>1. n \in 1 .. M /\ w[n - 1] # Nil
                BY <1>0, <1>3, <1>7, <2>1, <3>3
            <4> QED BY <1>2, <3>1, <3>3, <4>1
        <3> QED BY <1>3, <3>2, <3>3
    <2>2. CASE n = M
        <3> SUFFICES ASSUME e # Nil PROVE FALSE
            OBVIOUS
        <3>1. e \in Tx
            BY <1>3, <1>7 DEF ListInv, PoolType, Pointer
        <3> DEFINE a == Append(s, e)
        <3> HIDE DEF e
        <3>2. /\ a \in Seq(Tx) /\ Len(a) = n + 1
              /\ \A i \in 1 .. n : a[i] = s[i]
              /\ a[n + 1] = e
            BY <1>6, <3>1, AppendProperties
        <3> HIDE DEF a
        <3>3. a[1] = cursor
            BY <1>3, <1>7, <3>2 DEF e
        <3>4. \A i \in 1 .. n : next[a[i]] = a[i + 1]
            <4> TAKE i \in 1 .. n
            <4>1. CASE i < n
                BY <1>3, <1>8, <3>2, <4>1
            <4>2. CASE i = n
                BY <1>3, <1>7, <3>2, <4>2 DEF e
            <4> QED BY <1>3, <4>1, <4>2
        <3>5. (n + 1) - 1 = n
            BY <1>3
        <3>6. Path(a)
            BY <3>2, <3>3, <3>4, <3>5 DEF Path
        <3>7. n + 1 <= M
            BY <3>2, <3>6, PathIsShort DEF M
        <3> QED BY <1>0, <2>2, <3>7
    <2> QED BY <1>0, <1>3, <2>1, <2>2
<1>11. Chain(s)
    BY <1>3, <1>6, <1>7, <1>9, <1>10 DEF Chain
<1> QED BY <1>11 DEF s, M

\* There is only one chain.
LEMMA ChainIsAhead == ASSUME ListInv, NEW a, Chain(a) PROVE scanned(MaxTxNum) = a
<1>1. /\ scanned(MaxTxNum) \in Seq(Tx)
      /\ Len(scanned(MaxTxNum)) = IF MaxTxNum <= Len(a) THEN MaxTxNum ELSE Len(a)
      /\ \A i \in 1 .. Len(scanned(MaxTxNum)) : scanned(MaxTxNum)[i] = a[i]
    BY ReadsChain, PoolAssumption
<1>2. a \in Seq(Tx) /\ Len(a) \in Nat /\ Len(a) <= MaxTxNum /\ MaxTxNum \in Nat
    BY PathIsShort, PoolAssumption DEF Chain, Path
<1>3. Len(scanned(MaxTxNum)) = Len(a)
    BY <1>1, <1>2
<1> DEFINE s == scanned(MaxTxNum)
<1> HIDE DEF s
<1>4. s = a
    BY <1>1, <1>2, <1>3, SeqEqual DEF s
<1> QED BY <1>4 DEF s

\* The same, told so that it can be used of the next state.
OnlyChain == ListInv => \A a \in Seq(Tx) : Chain(a) => scanned(MaxTxNum) = a

LEMMA OneChain == OnlyChain
BY ChainIsAhead DEF OnlyChain

LEMMA OneChainNext ==
    ASSUME ListInv', NEW a \in Seq(Tx), Chain(a)' PROVE scanned(MaxTxNum)' = a
<1>1. OnlyChain'
    BY OneChain, PTL
<1> QED BY <1>1 DEF OnlyChain

\* What is ahead, and facts about it that every step needs.
LEMMA AheadFacts ==
    ASSUME ListInv
    PROVE  LET s == scanned(MaxTxNum) IN
           /\ s \in Seq(Tx) /\ Len(s) \in Nat
           /\ Len(s) > 0 => s[1] = cursor
           /\ Len(s) = 0 => cursor = Nil
           /\ \A i \in 1 .. (Len(s) - 1) : next[s[i]] = s[i + 1]
           /\ Len(s) > 0 => next[s[Len(s)]] = Nil
           /\ \A i \in 1 .. Len(s) : s[i] \in txids /\ s[i] \in Tx
           /\ \A i, j \in 1 .. Len(s) : s[i] = s[j] => i = j
<1> DEFINE s == scanned(MaxTxNum)
<1>1. Chain(s)
    BY AheadIsChain
<1> HIDE DEF s
<1>2. /\ \A i \in 1 .. Len(s) : s[i] \in txids
      /\ \A i, j \in 1 .. Len(s) : s[i] = s[j] => i = j
    BY <1>1, PathInPool DEF Chain
<1>3. s \in Seq(Tx) /\ Len(s) \in Nat /\ \A i \in 1 .. Len(s) : s[i] \in Tx
    BY <1>1, LenProperties DEF Chain, Path
<1>4. /\ s \in Seq(Tx) /\ Len(s) \in Nat
      /\ Len(s) > 0 => s[1] = cursor
      /\ Len(s) = 0 => cursor = Nil
      /\ \A i \in 1 .. (Len(s) - 1) : next[s[i]] = s[i + 1]
      /\ Len(s) > 0 => next[s[Len(s)]] = Nil
      /\ \A i \in 1 .. Len(s) : s[i] \in txids /\ s[i] \in Tx
      /\ \A i, j \in 1 .. Len(s) : s[i] = s[j] => i = j
    BY <1>1, <1>2, <1>3 DEF Chain, Path
<1> QED BY <1>4 DEF s

\* A pool that is left alone has the same ahead of it.
LEMMA SamePool ==
    ASSUME ListInv, ListInv', UNCHANGED pool
    PROVE  UNCHANGED <<txids, scanned(MaxTxNum)>>
<1> DEFINE s == scanned(MaxTxNum)
<1>1. Chain(s) /\ s \in Seq(Tx)
    BY AheadIsChain DEF Chain, Path
<1> HIDE DEF s
<1>2. Chain(s) /\ next' = next /\ cursor' = cursor /\ txids' = txids
    BY <1>1 DEF pool
<1> SUFFICES ASSUME NEW a, a = s PROVE scanned(MaxTxNum)' = a
    BY <1>2 DEF s
<1>3. Chain(a)' /\ a \in Seq(Tx)
    BY <1>1, <1>2 DEF Chain, Path
<1> QED BY <1>3, OneChainNext

\* A transaction that is added comes last, or behind a list that does not
\* lead to it.
LEMMA AddStep ==
    ASSUME ListInv, ListInv', NEW tx \in Tx, addValue(tx)
    PROVE  \/ UNCHANGED <<txids, scanned(MaxTxNum)>>
           \/ /\ tx \notin txids /\ txids' = txids \cup {tx}
              /\ \/ scanned(MaxTxNum)' = Append(scanned(MaxTxNum), tx)
                 \/ scanned(MaxTxNum) # <<>> /\ scanned(MaxTxNum)' = scanned(MaxTxNum)
<1>1. CASE UNCHANGED pool
    BY <1>1, SamePool
<1>2. CASE ~ (tx \in txids \/ length >= MaxTxNum)
    <2> SUFFICES ASSUME NEW s, s = scanned(MaxTxNum)
                 PROVE  \/ scanned(MaxTxNum)' = Append(s, tx)
                        \/ s # <<>> /\ scanned(MaxTxNum)' = s
        BY <1>2 DEF addValue
    <2>1. /\ s \in Seq(Tx) /\ Len(s) \in Nat
          /\ Len(s) > 0 => s[1] = cursor
          /\ Len(s) = 0 => cursor = Nil
          /\ \A i \in 1 .. (Len(s) - 1) : next[s[i]] = s[i + 1]
          /\ Len(s) > 0 => next[s[Len(s)]] = Nil
          /\ \A i \in 1 .. Len(s) : s[i] \in txids /\ s[i] \in Tx
          /\ \A i, j \in 1 .. Len(s) : s[i] = s[j] => i = j
        BY AheadFacts
    <2>2. /\ next' = [t \in Tx |-> IF t = tx THEN Nil ELSE IF t = tail THEN tx ELSE next[t]]
          /\ cursor' = (IF cursor = Nil THEN tx ELSE cursor)
          /\ tx \notin txids
        BY <1>2 DEF addValue
    <2>3. /\ Nil \notin Tx /\ cursor \in Pointer
          /\ tail # Nil => next[tail] = Nil
        BY PoolAssumption DEF ListInv, PoolType, ListIsSound
    <2> DEFINE c == Append(s, tx)
    <2>4. /\ c \in Seq(Tx) /\ Len(c) = Len(s) + 1
          /\ \A i \in 1 .. Len(s) : c[i] = s[i]
          /\ c[Len(s) + 1] = tx
        BY <2>1, AppendProperties
    <2> HIDE DEF c
    <2>5. CASE Len(s) = 0
        <3>1. cursor' = tx /\ next'[tx] = Nil /\ c[1] = tx /\ Len(c) = 1
            BY <2>1, <2>2, <2>4, <2>5
        <3>2. 1 .. (Len(c) - 1) = {} /\ c[Len(c)] = tx
            BY <3>1
        <3>3. Chain(c)'
            BY <2>4, <3>1, <3>2 DEF Chain, Path
        <3> QED BY <2>4, <3>3, OneChainNext DEF c
    <2>6. CASE Len(s) > 0 /\ tail = s[Len(s)]
        <3>1. Len(s) \in 1 .. Len(s)
            BY <2>1, <2>6
        <3>2. cursor' = s[1] /\ s[1] \in Tx
            BY <2>1, <2>2, <2>3, <2>6
        <3>3. \A i \in 1 .. (Len(s) - 1) : next'[s[i]] = s[i + 1]
            <4> TAKE i \in 1 .. (Len(s) - 1)
            <4>1. i \in 1 .. Len(s) /\ i # Len(s)
                BY <2>1
            <4>2. s[i] # tail /\ s[i] # tx /\ s[i] \in Tx
                BY <2>1, <2>2, <2>6, <3>1, <4>1
            <4> QED BY <2>1, <2>2, <4>2
        <3>4. next'[s[Len(s)]] = tx /\ next'[tx] = Nil
            BY <2>1, <2>2, <2>6, <3>1
        <3>5. \A i \in 1 .. (Len(c) - 1) : next'[c[i]] = c[i + 1]
            <4> TAKE i \in 1 .. (Len(c) - 1)
            <4>1. CASE i = Len(s)
                BY <2>4, <3>1, <3>4, <4>1
            <4>2. CASE i # Len(s)
                <5>1. i \in 1 .. (Len(s) - 1) /\ i \in 1 .. Len(s) /\ i + 1 \in 1 .. Len(s)
                    BY <2>1, <2>4, <4>2
                <5> QED BY <2>4, <3>3, <5>1
            <4> QED BY <4>1, <4>2
        <3>6. Len(c) > 0 /\ c[1] = cursor' /\ next'[c[Len(c)]] = Nil
            BY <2>1, <2>4, <2>6, <3>1, <3>2, <3>4
        <3>7. Chain(c)'
            BY <2>4, <3>5, <3>6 DEF Chain, Path
        <3> QED BY <2>4, <3>7, OneChainNext DEF c
    <2>7. CASE Len(s) > 0 /\ tail # s[Len(s)]
        <3>1. cursor' = s[1] /\ s # <<>>
            BY <2>1, <2>2, <2>3, <2>7
        <3>2. \A i \in 1 .. Len(s) : s[i] # tail
            <4> TAKE i \in 1 .. Len(s)
            <4>1. CASE i = Len(s)
                BY <2>7, <4>1
            <4>2. CASE i # Len(s)
                <5>1. i \in 1 .. (Len(s) - 1) /\ i + 1 \in 1 .. Len(s)
                    BY <2>1, <4>2
                <5>2. next[s[i]] \in Tx /\ s[i] \in Tx
                    BY <2>1, <5>1
                <5> QED BY <2>3, <5>2
            <4> QED BY <4>1, <4>2
        <3>3. \A i \in 1 .. Len(s) : next'[s[i]] = next[s[i]]
            BY <2>1, <2>2, <3>2
        <3>4. \A i \in 1 .. (Len(s) - 1) : next'[s[i]] = s[i + 1]
            BY <2>1, <3>3
        <3>5. next'[s[Len(s)]] = Nil
            BY <2>1, <2>7, <3>3
        <3>6. Chain(s)'
            BY <2>1, <2>7, <3>1, <3>4, <3>5 DEF Chain, Path
        <3> QED BY <2>1, <3>1, <3>6, OneChainNext
    <2> QED BY <2>1, <2>5, <2>6, <2>7
<1> QED BY <1>1, <1>2 DEF addValue

\* A transaction that is removed is no longer ahead; the others stay in order.
LEMMA DelStep ==
    ASSUME ListInv, ListInv', NEW tx \in Tx, delValue(tx)
    PROVE  LET s == scanned(MaxTxNum) IN
           \/ UNCHANGED <<txids, scanned(MaxTxNum)>>
           \/ /\ tx \in txids /\ txids' = txids \ {tx}
              /\ \/ \E i \in 1 .. Len(s) :
                       /\ s[i] = tx
                       /\ scanned(MaxTxNum)' = SubSeq(s, 1, i - 1) \o SubSeq(s, i + 1, Len(s))
                 \/ (\A i \in 1 .. Len(s) : s[i] # tx) /\ scanned(MaxTxNum)' = s
<1>1. CASE UNCHANGED pool
    BY <1>1, SamePool
<1>2. CASE tx \in txids
    <2> SUFFICES ASSUME NEW s, s = scanned(MaxTxNum)
                 PROVE  \/ \E i \in 1 .. Len(s) :
                              /\ s[i] = tx
                              /\ scanned(MaxTxNum)' = SubSeq(s, 1, i - 1) \o SubSeq(s, i + 1, Len(s))
                        \/ (\A i \in 1 .. Len(s) : s[i] # tx) /\ scanned(MaxTxNum)' = s
        BY <1>2 DEF delValue
    <2>1. /\ s \in Seq(Tx) /\ Len(s) \in Nat
          /\ Len(s) > 0 => s[1] = cursor
          /\ Len(s) = 0 => cursor = Nil
          /\ \A i \in 1 .. (Len(s) - 1) : next[s[i]] = s[i + 1]
          /\ Len(s) > 0 => next[s[Len(s)]] = Nil
          /\ \A i \in 1 .. Len(s) : s[i] \in txids /\ s[i] \in Tx
          /\ \A i, j \in 1 .. Len(s) : s[i] = s[j] => i = j
        BY AheadFacts
    <2>2. /\ next' = [t \in Tx |-> IF t = prev[tx] THEN next[tx] ELSE next[t]]
          /\ cursor' = (IF cursor = tx THEN next[tx] ELSE cursor)
        BY <1>2 DEF delValue
    <2>3. /\ Nil \notin Tx /\ tx # Nil
          /\ \A t \in txids : next[t] = tx <=> prev[tx] = t
        BY <1>2, PoolAssumption DEF ListInv, PoolType, ListIsSound
    \* only the node before tx gets another next
    <2>4. \A i \in 1 .. Len(s) : next[s[i]] # tx => next'[s[i]] = next[s[i]]
        BY <2>1, <2>2, <2>3
    <2>5. \A i \in 1 .. Len(s) : next[s[i]] = tx => next'[s[i]] = next[tx]
        BY <2>1, <2>2, <2>3
    <2>6. CASE \A i \in 1 .. Len(s) : s[i] # tx
        <3>1. \A i \in 1 .. Len(s) : next'[s[i]] = next[s[i]]
            <4> TAKE i \in 1 .. Len(s)
            <4>1. CASE i = Len(s)
                BY <2>1, <2>3, <2>4, <4>1
            <4>2. CASE i # Len(s)
                <5>1. i \in 1 .. (Len(s) - 1) /\ i + 1 \in 1 .. Len(s)
                    BY <2>1, <4>2
                <5>2. next[s[i]] # tx
                    BY <2>1, <2>6, <5>1
                <5> QED BY <2>4, <5>2
            <4> QED BY <4>1, <4>2
        <3>2. cursor # tx
            BY <2>1, <2>3, <2>6
        <3>3. Len(s) > 0 => Len(s) \in 1 .. Len(s)
            BY <2>1
        <3>4. \A i \in 1 .. (Len(s) - 1) : i \in 1 .. Len(s)
            BY <2>1
        <3>5. Chain(s)'
            BY <2>1, <2>2, <3>1, <3>2, <3>3, <3>4 DEF Chain, Path
        <3> QED BY <2>1, <2>6, <3>5, OneChainNext
    <2>7. ASSUME NEW i \in 1 .. Len(s), s[i] = tx
          PROVE  scanned(MaxTxNum)' = SubSeq(s, 1, i - 1) \o SubSeq(s, i + 1, Len(s))
        <3> DEFINE n == Len(s)
                   c == [j \in 1 .. (n - 1) |-> IF j < i THEN s[j] ELSE s[j + 1]]
        <3>1. n \in Nat /\ n > 0 /\ i \in Nat /\ i >= 1 /\ i <= n
            BY <2>1
        <3>2. \A j \in 1 .. (n - 1) : j \in 1 .. n /\ j + 1 \in 1 .. n /\ j \in Nat
            BY <3>1
        <3>3. c \in [1 .. (n - 1) -> Tx] /\ n - 1 \in Nat
            BY <2>1, <3>1, <3>2
        <3>4. c \in Seq(Tx) /\ Len(c) = n - 1
            <4> HIDE DEF c, n
            <4> QED BY <3>3
        <3>5. \A j \in 1 .. (n - 1) : c[j] = IF j < i THEN s[j] ELSE s[j + 1]
            OBVIOUS
        <3> HIDE DEF c
        <3>6. SubSeq(s, 1, i - 1) \o SubSeq(s, i + 1, n) = c
            <4> DEFINE l == SubSeq(s, 1, i - 1)
                       r == SubSeq(s, i + 1, n)
            <4>1. /\ l \in Seq(Tx) /\ Len(l) = i - 1
                  /\ \A j \in 1 .. (i - 1) : l[j] = s[j]
                <5>1. \A j \in 1 .. (i - 1) : s[j] \in Tx
                    BY <2>1, <3>1
                <5>2. /\ l \in Seq(Tx) /\ Len(l) = IF 1 <= i - 1 THEN (i - 1) - 1 + 1 ELSE 0
                      /\ \A j \in 1 .. (i - 1) - 1 + 1 : l[j] = s[1 + j - 1]
                    BY <3>1, <5>1, SubSeqProperties
                <5> QED BY <3>1, <5>2
            <4>2. /\ r \in Seq(Tx) /\ Len(r) = n - i
                  /\ \A j \in 1 .. (n - i) : r[j] = s[i + j]
                <5>1. \A j \in (i + 1) .. n : s[j] \in Tx
                    BY <2>1, <3>1
                <5>2. /\ r \in Seq(Tx) /\ Len(r) = IF i + 1 <= n THEN n - (i + 1) + 1 ELSE 0
                      /\ \A j \in 1 .. n - (i + 1) + 1 : r[j] = s[i + 1 + j - 1]
                    BY <3>1, <5>1, SubSeqProperties
                <5>3. \A j \in 1 .. (n - i) : i + 1 + j - 1 = i + j /\ j \in 1 .. n - (i + 1) + 1
                    BY <3>1
                <5> QED BY <3>1, <5>2, <5>3
            <4> HIDE DEF l, r
            <4>3. /\ l \o r \in Seq(Tx) /\ Len(l \o r) = n - 1
                  /\ \A j \in 1 .. (n - 1) :
                        (l \o r)[j] = IF j <= i - 1 THEN l[j] ELSE r[j - (i - 1)]
                <5>1. (i - 1) + (n - i) = n - 1
                    BY <3>1
                <5> QED BY <4>1, <4>2, <5>1, ConcatProperties
            <4>4. \A j \in 1 .. (n - 1) : (l \o r)[j] = c[j]
                <5> TAKE j \in 1 .. (n - 1)
                <5>1. CASE j < i
                    BY <3>1, <3>5, <4>1, <4>3, <5>1
                <5>2. CASE ~ (j < i)
                    <6>1. j - (i - 1) \in 1 .. (n - i) /\ i + (j - (i - 1)) = j + 1
                          /\ ~ (j <= i - 1)
                        BY <3>1, <5>2
                    <6> QED BY <3>5, <4>2, <4>3, <5>2, <6>1
                <5> QED BY <5>1, <5>2
            <4> QED BY <3>4, <4>3, <4>4, SeqEqual DEF l, r
        <3>7. Len(c) > 0 => c[1] = cursor'
            <4> SUFFICES ASSUME Len(c) > 0 PROVE c[1] = cursor'
                OBVIOUS
            <4>1. 1 \in 1 .. (n - 1)
                BY <3>1, <3>4
            <4>2. CASE i = 1
                BY <2>1, <2>2, <2>7, <3>1, <3>5, <4>1, <4>2
            <4>3. CASE i # 1
                <5>1. s[1] # tx /\ 1 < i
                    BY <2>1, <2>7, <3>1, <4>1, <4>3
                <5> QED BY <2>1, <2>2, <3>1, <3>5, <4>1, <5>1
            <4> QED BY <4>2, <4>3
        <3>8. Len(c) = 0 => cursor' = Nil
            <4> SUFFICES ASSUME Len(c) = 0 PROVE cursor' = Nil
                OBVIOUS
            <4>1. n - 1 = 0
                BY <3>4
            <4>2. n = 1 /\ i = 1
                <5> HIDE DEF n
                <5>1. n = 1
                    BY <3>1, <4>1
                <5> QED BY <3>1, <5>1
            <4> QED BY <2>1, <2>2, <2>7, <4>2
        <3>9. \A j \in 1 .. n : next'[s[j]] =
                  IF j = i - 1 THEN next[tx] ELSE next[s[j]]
            <4> TAKE j \in 1 .. n
            <4>1. next[s[j]] = tx <=> j = i - 1
                <5>1. CASE j = n
                    BY <2>1, <2>3, <3>1, <5>1
                <5>2. CASE j # n
                    <6>1. j \in 1 .. (n - 1) /\ j + 1 \in 1 .. n
                        BY <3>1, <5>2
                    <6>2. next[s[j]] = s[j + 1]
                        BY <2>1, <6>1
                    <6>3. s[j + 1] = tx <=> j + 1 = i
                        BY <2>1, <2>7, <6>1
                    <6> QED BY <3>1, <6>1, <6>2, <6>3
                <5> QED BY <5>1, <5>2
            <4> QED BY <2>4, <2>5, <4>1
        <3>10. \A j \in 1 .. (Len(c) - 1) : next'[c[j]] = c[j + 1]
            <4> TAKE j \in 1 .. (Len(c) - 1)
            <4>1. /\ j \in 1 .. (n - 1) /\ j + 1 \in 1 .. (n - 1)
                  /\ j \in 1 .. n /\ j + 1 \in 1 .. n /\ (j + 1) + 1 = j + 2
                BY <3>1, <3>4
            <4>2. CASE j < i - 1
                <5>1. c[j] = s[j] /\ c[j + 1] = s[j + 1] /\ j # i - 1
                    BY <3>1, <3>5, <4>1, <4>2
                <5> QED BY <2>1, <3>9, <4>1, <5>1
            <4>3. CASE j = i - 1
                <5>1. c[j] = s[j] /\ c[j + 1] = s[i + 1] /\ i \in 1 .. (n - 1)
                    BY <3>1, <3>5, <4>1, <4>3
                <5>2. next[tx] = s[i + 1]
                    BY <2>1, <2>7, <5>1
                <5> QED BY <3>9, <4>1, <4>3, <5>1, <5>2
            <4>4. CASE j > i - 1
                <5>1. c[j] = s[j + 1] /\ c[j + 1] = s[(j + 1) + 1] /\ j + 1 # i - 1
                    BY <3>1, <3>5, <4>1, <4>4
                <5> QED BY <2>1, <3>9, <4>1, <5>1
            <4> QED BY <3>1, <4>1, <4>2, <4>3, <4>4
        <3>11. Len(c) > 0 => next'[c[Len(c)]] = Nil
            <4> SUFFICES ASSUME n - 1 > 0 PROVE next'[c[n - 1]] = Nil
                BY <3>4
            <4>1. n - 1 \in 1 .. (n - 1) /\ n \in 1 .. n /\ n - 1 \in 1 .. n /\ (n - 1) + 1 = n
                BY <3>1
            <4>2. CASE i = n
                <5>1. c[n - 1] = s[n - 1]
                    BY <3>1, <3>5, <4>1, <4>2
                <5> QED BY <2>1, <2>7, <3>1, <3>9, <4>1, <4>2, <5>1
            <4>3. CASE i # n
                <5>1. n # i - 1 /\ ~ (n - 1 < i)
                    BY <3>1, <4>3
                <5>2. c[n - 1] = s[n]
                    BY <3>5, <4>1, <5>1
                <5> QED BY <5>2, <2>1, <3>1, <3>9, <4>1, <5>1
            <4> QED BY <4>2, <4>3
        <3>12. Chain(c)'
            BY <3>4, <3>7, <3>8, <3>10, <3>11 DEF Chain, Path
        <3>13. scanned(MaxTxNum)' = c
            BY <3>4, <3>12, OneChainNext
        <3> QED BY <3>6, <3>13
    <2> QED BY <2>6, <2>7
<1> QED BY <1>1, <1>2 DEF delValue

\* A batch is what comes first; what is left keeps its order (pool.go:61-88).
LEMMA ReadStep ==
    ASSUME ListInv, ListInv', scanValue(MaxBlockTxs)
    PROVE  LET s == scanned(MaxTxNum)
               b == scanned(MaxBlockTxs)
           IN  /\ txids' = txids
               /\ \/ b = <<>> /\ scanned(MaxTxNum)' = s
                  \/ \E k \in 1 .. Len(s) :
                        /\ b = SubSeq(s, 1, k) /\ Len(b) = k
                        /\ scanned(MaxTxNum)' = SubSeq(s, k + 1, Len(s))
<1> DEFINE b == scanned(MaxBlockTxs)
           K == MaxBlockTxs
<1>0. txids' = txids /\ next' = next /\ cursor' = Walk(K)[K] /\ K \in Nat /\ K >= 1
    BY PoolAssumption DEF scanValue
<1> SUFFICES ASSUME NEW s, s = scanned(MaxTxNum)
             PROVE  \/ b = <<>> /\ scanned(MaxTxNum)' = s
                    \/ \E k \in 1 .. Len(s) :
                          /\ b = SubSeq(s, 1, k) /\ Len(b) = k
                          /\ scanned(MaxTxNum)' = SubSeq(s, k + 1, Len(s))
    BY <1>0
<1>1. /\ s \in Seq(Tx) /\ Len(s) \in Nat
      /\ Len(s) > 0 => s[1] = cursor
      /\ Len(s) = 0 => cursor = Nil
      /\ \A i \in 1 .. (Len(s) - 1) : next[s[i]] = s[i + 1]
      /\ Len(s) > 0 => next[s[Len(s)]] = Nil
      /\ \A i \in 1 .. Len(s) : s[i] \in txids /\ s[i] \in Tx
    BY AheadFacts
<1>2. Chain(s)
    BY AheadIsChain
<1> DEFINE k == IF K <= Len(s) THEN K ELSE Len(s)
           n == Len(s)
<1>3. b \in Seq(Tx) /\ Len(b) = k /\ \A i \in 1 .. k : b[i] = s[i]
    BY <1>0, <1>2, ReadsChain
<1>4. cursor' = IF k < n THEN s[k + 1] ELSE Nil
    <2>1. K \in 0 .. K
        BY <1>0
    <2>2. Walk(K)[K] = IF K < Len(s) THEN s[K + 1] ELSE Nil
        BY <1>0, <1>2, <2>1, WalkAlong
    <2> QED BY <1>0, <1>1, <2>2
<1>5. k \in Nat /\ n \in Nat /\ k <= n /\ (k = 0 <=> n = 0)
    BY <1>0, <1>1
<1> HIDE DEF b, k, K, n
<1>6. CASE n = 0
    <2>1. b = <<>>
        BY <1>3, <1>5, <1>6
    <2>2. cursor' = Nil /\ Len(s) = 0
        BY <1>4, <1>5, <1>6 DEF n
    <2>3. Chain(s)'
        BY <1>0, <1>1, <2>2 DEF Chain, Path
    <2> QED BY <1>1, <2>1, <2>3, OneChainNext
<1>7. CASE n > 0
    <2> DEFINE c == SubSeq(s, k + 1, n)
    <2>1. k \in 1 .. n
        BY <1>5, <1>7
    <2>2. b = SubSeq(s, 1, k)
        <3> DEFINE p == SubSeq(s, 1, k)
        <3>1. \A i \in 1 .. k : s[i] \in Tx
            BY <1>1, <1>5 DEF n
        <3>2. /\ p \in Seq(Tx) /\ Len(p) = IF 1 <= k THEN k - 1 + 1 ELSE 0
              /\ \A i \in 1 .. k - 1 + 1 : p[i] = s[1 + i - 1]
            BY <1>1, <1>5, <2>1, <3>1, SubSeqProperties DEF n
        <3>3. p \in Seq(Tx) /\ Len(p) = k /\ \A i \in 1 .. k : p[i] = s[i]
            BY <1>5, <2>1, <3>2
        <3> HIDE DEF p
        <3>4. p = b
            BY <1>3, <1>5, <3>3, SeqEqual
        <3> QED BY <3>4 DEF p
    <2>3. /\ c \in Seq(Tx) /\ Len(c) = n - k
          /\ \A i \in 1 .. (n - k) : c[i] = s[k + i]
        <3>1. \A i \in (k + 1) .. n : s[i] \in Tx
            BY <1>1, <1>5 DEF n
        <3>2. /\ c \in Seq(Tx) /\ Len(c) = IF k + 1 <= n THEN n - (k + 1) + 1 ELSE 0
              /\ \A i \in 1 .. n - (k + 1) + 1 : c[i] = s[k + 1 + i - 1]
            BY <1>1, <1>5, <3>1, SubSeqProperties DEF n
        <3>3. \A i \in 1 .. (n - k) : k + 1 + i - 1 = k + i /\ i \in 1 .. n - (k + 1) + 1
            BY <1>5
        <3> QED BY <1>5, <3>2, <3>3
    <2> HIDE DEF c
    <2>4. Chain(c)'
        <3>1. Len(c) > 0 => c[1] = cursor'
            BY <1>4, <1>5, <2>3
        <3>2. Len(c) = 0 => cursor' = Nil
            BY <1>4, <1>5, <2>3
        <3>3. \A i \in 1 .. (Len(c) - 1) : next[c[i]] = c[i + 1]
            <4> TAKE i \in 1 .. (Len(c) - 1)
            <4>1. /\ i \in 1 .. (n - k) /\ i + 1 \in 1 .. (n - k)
                  /\ k + i \in 1 .. (n - 1) /\ k + (i + 1) = (k + i) + 1
                BY <1>5, <2>3
            <4>2. c[i] = s[k + i] /\ c[i + 1] = s[(k + i) + 1]
                BY <2>3, <4>1
            <4> QED BY <1>1, <4>1, <4>2 DEF n
        <3>4. Len(c) > 0 => next[c[Len(c)]] = Nil
            <4> SUFFICES ASSUME n - k > 0 PROVE next[c[n - k]] = Nil
                BY <2>3
            <4>1. n - k \in 1 .. (n - k) /\ k + (n - k) = n
                BY <1>5
            <4> QED BY <1>1, <1>7, <2>3, <4>1 DEF n
        <3> QED BY <1>0, <2>3, <3>1, <3>2, <3>3, <3>4 DEF Chain, Path
    <2>5. scanned(MaxTxNum)' = c
        BY <2>3, <2>4, OneChainNext
    <2>6. Len(b) = k
        BY <1>3
    <2> QED BY <2>1, <2>2, <2>5, <2>6 DEF c, n
<1> QED BY <1>5, <1>6, <1>7

\* Pointers, cursor and mutex make the queue: a transaction is read once, in
\* the order it came, unless it came behind a list that does not lead to it.
THEOREM PoolIsAQueue == Spec => ImplementsQueue
<1> DEFINE QStep == [Q!Next]_(Q!vars)
           s == scanned(MaxTxNum)
<1>1. Init => Q!Init
    <2> SUFFICES ASSUME Init PROVE Q!Init
        OBVIOUS
    <2>1. ListInv
        BY ListInit
    <2>2. Chain(<<>>)
        BY DEF Init, Chain, Path
    <2>3. scanned(MaxTxNum) = <<>>
        BY <2>1, <2>2, ChainIsAhead
    <2> QED BY <2>3 DEF Init, Q!Init
<1>2. ASSUME IInv, IInv', [Next]_vars PROVE QStep
    <2> USE DEF QStep
    <2>0. ListInv /\ ListInv'
        BY <1>2 DEF IInv
    <2>1. ASSUME NEW tx \in Tx, AddTx(tx) PROVE QStep
        <3>1. UNCHANGED packed /\ addValue(tx)
            BY <2>1 DEF AddTx, packing
        <3> HIDE DEF s
        <3>2. \/ txids' = txids /\ s' = s
              \/ /\ tx \notin txids /\ txids' = txids \cup {tx}
                 /\ s' = Append(s, tx) \/ (s # <<>> /\ s' = s)
            BY <2>0, <3>1, AddStep DEF s
        <3> QED BY <3>1, <3>2 DEF Q!Next, Q!Add, Q!vars, s
    <2>2. ASSUME NEW tx \in Tx, delValue(tx), UNCHANGED packed PROVE QStep
        <3> HIDE DEF s
        <3>1. \/ txids' = txids /\ s' = s
              \/ /\ tx \in txids /\ txids' = txids \ {tx}
                 /\ \/ \E i \in 1 .. Len(s) :
                          /\ s[i] = tx
                          /\ s' = SubSeq(s, 1, i - 1) \o SubSeq(s, i + 1, Len(s))
                    \/ (\A i \in 1 .. Len(s) : s[i] # tx) /\ s' = s
            BY <2>0, <2>2, DelStep DEF s
        <3>2. CASE txids' = txids /\ s' = s
            BY <2>2, <3>2 DEF Q!vars, s
        <3>3. CASE ~ (txids' = txids /\ s' = s)
            <4>1. Q!Remove(tx)
                BY <2>2, <3>1, <3>3 DEF Q!Remove, s
            <4> QED BY <4>1 DEF Q!Next
        <3> QED BY <3>2, <3>3
    <2>3. ASSUME UNCHANGED pool, packed' \in {packed, <<>>} PROVE QStep
        <3>1. txids' = txids /\ s' = s
            BY <2>0, <2>3, SamePool
        <3> QED BY <2>3, <3>1 DEF Q!Next, Q!NewBlock, Q!vars
    <2>4. CASE GetTx
        <3> DEFINE b == scanned(MaxBlockTxs)
        <3>0. /\ scanValue(MaxBlockTxs)
              /\ packed' = IF b = <<>> \/ Len(packed) + Len(b) > MaxBlockTxs
                           THEN packed ELSE packed \o b
            BY <2>4 DEF GetTx
        <3> HIDE DEF s, b
        <3>1. /\ txids' = txids
              /\ \/ b = <<>> /\ s' = s
                 \/ \E k \in 1 .. Len(s) : /\ b = SubSeq(s, 1, k) /\ Len(b) = k
                                           /\ s' = SubSeq(s, k + 1, Len(s))
            BY <2>0, <3>0, ReadStep DEF s, b
        <3>2. CASE b = <<>> /\ s' = s
            BY <3>0, <3>1, <3>2 DEF Q!vars, s
        <3>3. ASSUME NEW k \in 1 .. Len(s), b = SubSeq(s, 1, k), Len(b) = k,
                     s' = SubSeq(s, k + 1, Len(s))
              PROVE  QStep
            <4>0. Len(s) \in Nat /\ Len(packed) \in Nat /\ MaxBlockTxs \in Nat
                <5>1. packed \in Seq(Tx)
                    BY <1>2 DEF IInv, PackingInv, BoundedSeq
                <5> QED BY <2>0, <5>1, AheadFacts, PoolAssumption, LenProperties DEF s
            <4>1. b # <<>>
                <5>1. k \in Nat /\ k # 0
                    BY <4>0
                <5>2. Len(b) # 0
                    BY <3>3, <5>1
                <5> QED BY <5>2
            <4>2. IF Len(packed) + k <= MaxBlockTxs
                  THEN packed' = packed \o SubSeq(s, 1, k)
                  ELSE packed' = packed
                <5>1. k \in Nat
                    BY <4>0
                <5>2. Len(packed) + Len(b) > MaxBlockTxs <=> ~ (Len(packed) + k <= MaxBlockTxs)
                    BY <3>3, <4>0, <5>1
                <5> QED BY <3>0, <3>3, <4>1, <5>2
            <4>3. Q!Read
                BY <3>1, <3>3, <4>2 DEF Q!Read, s
            <4> QED BY <4>3 DEF Q!Next
        <3> QED BY <3>1, <3>2, <3>3
    <2>5. CASE StartPackaging
        BY <2>3, <2>5 DEF StartPackaging
    <2>6. CASE Eval
        <3>1. packed[evaluated + 1] \in Tx
            BY <1>2, <2>6 DEF IInv, PackingInv, Eval
        <3> QED BY <2>2, <2>3, <2>6, <3>1 DEF Eval
    <2>7. CASE EndPackaging
        BY <2>3, <2>7 DEF EndPackaging
    <2>8. CASE StartApplying
        BY <2>3, <2>8 DEF StartApplying, packing
    <2>9. CASE Exec
        <3>1. Head(applying) \in Tx
            BY <1>2, <2>9 DEF IInv, ChainInv, Exec
        <3> QED BY <2>2, <2>9, <3>1 DEF Exec, packing
    <2>10. CASE UNCHANGED vars
        BY <2>3, <2>10 DEF vars, packing
    <2> HIDE DEF QStep
    <2> QED BY <1>2, <2>1, <2>4, <2>5, <2>6, <2>7, <2>8, <2>9, <2>10 DEF Next
<1>3. IInv /\ IInv' /\ [Next]_vars => QStep
    BY <1>2
<1>4. Spec => []IInv
    BY InitEstablishes, StepKeeps, PTL DEF Spec
<1> QED BY <1>1, <1>3, <1>4, PTL DEF Spec, ImplementsQueue, Q!Spec

=============================================================================
