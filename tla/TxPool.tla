------------------------------- MODULE TxPool -------------------------------
(***************************************************************************)
(* A verifier's transaction pool and the three that use it at once: the    *)
(* network, which adds what peers gossip; packageBlock, which reads a      *)
(* block's worth and evaluates it; and ApplyBlock, for a block committed   *)
(* by the engine or downloaded by the blockchain module, which may run     *)
(* while the daemon is still packing.                                      *)
(*                                                                         *)
(* The pool is the linked list of pool.go, pointer by pointer.  Its mutex  *)
(* makes each of addValue, scanValue and delValue atomic; between two of   *)
(* their calls anything may happen.  A list node is named by the id of its *)
(* transaction, which ListIsSound justifies: nothing points to a node that *)
(* was deleted, so a later node of the same id is not confused with it.    *)
(***************************************************************************)
EXTENDS Integers, Sequences, FiniteSets, SequencesExt

CONSTANTS
    Tx,          \* transactions, named by their signature
    Nil,         \* the nil pointer
    MaxTxNum,    \* the capacity of the pool
    MaxBlockTxs, \* packageBlock's max: 3000 transactions in a block
    SyncWhilePacking  \* may a downloaded block be applied during packageBlock?

ASSUME PoolAssumption ==
    /\ Nil \notin Tx
    /\ MaxTxNum \in Nat
    /\ MaxBlockTxs \in Nat \ {0}
    /\ SyncWhilePacking \in BOOLEAN

VARIABLES
    txids, next, prev, tail, cursor, length,  \* the Pool
    phase,      \* where packageBlock is
    packed,     \* its txs
    evaluated,  \* how many of them it has evaluated
    receipts,   \* the transactions it has receipts for, in order
    snap,       \* the transactions in its snapshot
    applying,   \* what ApplyBlock has still to execute of its block
    executed    \* the transactions in the database

pool == <<txids, next, prev, tail, cursor, length>>
packing == <<phase, packed, evaluated, receipts, snap>>
chain == <<applying, executed>>
vars == <<pool, packing, chain>>

Pointer == Tx \cup {Nil}

TypeOK ==
    /\ txids \subseteq Tx
    /\ next \in [Tx -> Pointer] /\ prev \in [Tx -> Pointer]
    /\ tail \in Pointer /\ cursor \in Pointer
    /\ length \in 0 .. MaxTxNum
    /\ phase \in {"idle", "reading", "evaluating", "done"}
    /\ packed \in BoundedSeq(Tx, MaxBlockTxs)
    /\ evaluated \in 0 .. Len(packed)
    /\ receipts \in BoundedSeq(Tx, MaxBlockTxs)
    /\ snap \subseteq Tx
    /\ applying \in BoundedSeq(Tx, MaxBlockTxs)
    /\ executed \subseteq Tx

Init ==
    /\ txids = {}
    /\ next = [t \in Tx |-> Nil] /\ prev = [t \in Tx |-> Nil]
    /\ tail = Nil /\ cursor = Nil
    /\ length = 0
    /\ phase = "idle"
    /\ packed = <<>> /\ evaluated = 0 /\ receipts = <<>> /\ snap = {}
    /\ applying = <<>> /\ executed = {}

-----------------------------------------------------------------------------
(***************************************************************************)
(* pool.go                                                                 *)
(***************************************************************************)

addValue(tx) ==
    IF tx \in txids \/ length >= MaxTxNum
    THEN UNCHANGED pool
    ELSE /\ txids' = txids \cup {tx}
         /\ next' = [t \in Tx |-> IF t = tx THEN Nil ELSE IF t = tail THEN tx ELSE next[t]]
         /\ prev' = [prev EXCEPT ![tx] = tail]
         /\ tail' = tx
         /\ cursor' = IF cursor = Nil THEN tx ELSE cursor
         /\ length' = length + 1

\* The list from the cursor on: its first k nodes and Nil beyond its end.
Walk(k) ==
    LET at[i \in 0 .. k] ==
            IF i = 0 THEN cursor
            ELSE IF at[i - 1] = Nil THEN Nil ELSE next[at[i - 1]]
    IN  at

\* What reading at most k transactions returns: the nodes before the first Nil.
scanned(k) ==
    LET at == Walk(k)
    IN  [i \in 1 .. Cardinality({j \in 0 .. (k - 1) : at[j] # Nil}) |-> at[i - 1]]

\* A scan that leaves the cursor on the last transaction it returned.
scanValueShort(k) ==
    /\ cursor' = IF Walk(k)[k] # Nil THEN Walk(k)[k - 1] ELSE Nil
    /\ UNCHANGED <<txids, next, prev, tail, length>>

scanValue(k) ==
    /\ cursor' = Walk(k)[k]
    /\ UNCHANGED <<txids, next, prev, tail, length>>

\* A delValue that forgets the cursor.
delValueKeepingCursor(tx) ==
    IF tx \notin txids
    THEN UNCHANGED pool
    ELSE /\ txids' = txids \ {tx}
         /\ next' = [t \in Tx |-> IF t = prev[tx] THEN next[tx] ELSE next[t]]
         /\ prev' = [t \in Tx |-> IF t = next[tx] THEN prev[tx] ELSE prev[t]]
         /\ tail' = IF tail = tx THEN next[tx] ELSE tail
         /\ length' = length - 1
         /\ UNCHANGED cursor

\* delValue unlinks a node.  When the last one goes, tail becomes its next,
\* which is nil, though other nodes may remain: what is added from then on is
\* a list of its own, which the cursor does not reach from the old one.
delValue(tx) ==
    IF tx \notin txids
    THEN UNCHANGED pool
    ELSE /\ txids' = txids \ {tx}
         /\ next' = [t \in Tx |-> IF t = prev[tx] THEN next[tx] ELSE next[t]]
         /\ prev' = [t \in Tx |-> IF t = next[tx] THEN prev[tx] ELSE prev[t]]
         /\ tail' = IF tail = tx THEN next[tx] ELSE tail
         /\ cursor' = IF cursor = tx THEN next[tx] ELSE cursor
         /\ length' = length - 1

-----------------------------------------------------------------------------
(***************************************************************************)
(* The network, the packer and the executor.                               *)
(***************************************************************************)

\* A transaction comes from a peer, from the API, or once more.  VerifyTx asks
\* for its signature and its sender's balance, not whether it was executed.
AddTx(tx) == addValue(tx) /\ UNCHANGED <<packing, chain>>

StartPackaging ==
    /\ phase \in {"idle", "done"}
    /\ SyncWhilePacking \/ applying = <<>>
    /\ phase' = "reading"
    /\ packed' = <<>> /\ evaluated' = 0 /\ receipts' = <<>> /\ snap' = {}
    /\ UNCHANGED <<pool, chain>>

\* A GetTx loop that takes every batch.
GetTxUnchecked ==
    /\ phase = "reading"
    /\ scanValue(MaxBlockTxs)
    /\ LET ts == scanned(MaxBlockTxs)
       IN  IF ts = <<>>
           THEN phase' = "evaluating" /\ UNCHANGED packed
           ELSE packed' = packed \o ts /\ UNCHANGED phase
    /\ UNCHANGED <<evaluated, receipts, snap, chain>>

\* GetTx: the last batch, empty or too large for the block, is not packed; the
\* cursor has passed it all the same.
GetTx ==
    /\ phase = "reading"
    /\ scanValue(MaxBlockTxs)
    /\ LET ts == scanned(MaxBlockTxs)
       IN  IF ts = <<>> \/ Len(packed) + Len(ts) > MaxBlockTxs
           THEN phase' = "evaluating" /\ UNCHANGED packed
           ELSE packed' = packed \o ts /\ UNCHANGED phase
    /\ UNCHANGED <<evaluated, receipts, snap, chain>>

\* Eval of the next transaction.  One that exists already is taken out of the
\* pool, gets no receipt and stays in the block.  Any other gets a receipt; it
\* is in the snapshot unless its sender cannot pay.
Eval ==
    /\ phase = "evaluating"
    /\ evaluated < Len(packed)
    /\ evaluated' = evaluated + 1
    /\ LET tx == packed[evaluated + 1]
       IN  IF tx \in executed \cup snap
           THEN delValue(tx) /\ UNCHANGED <<receipts, snap>>
           ELSE /\ receipts' = Append(receipts, tx)
                /\ snap' \in {snap, snap \cup {tx}}
                /\ UNCHANGED pool
    /\ UNCHANGED <<phase, packed, chain>>

EndPackaging ==
    /\ phase = "evaluating"
    /\ evaluated = Len(packed)
    /\ phase' = "done"
    /\ UNCHANGED <<pool, packed, evaluated, receipts, snap, chain>>

\* TryApplyBlock, on the count and identity of transactions and receipts.
TryApplyBlock(txs, rs) == rs = txs /\ IsInjective(txs)

\* A quorum has accepted a block, of this packer or another one: all of its
\* transactions are new to the chain.
StartApplying ==
    /\ applying = <<>>
    /\ SyncWhilePacking \/ phase \in {"idle", "done"}
    /\ applying' \in {txs \in BoundedSeq(Tx \ executed, MaxBlockTxs) : IsInjective(txs)}
    /\ UNCHANGED <<pool, packing, executed>>

\* ApplyBlock executes the next transaction and takes it out of the pool; one
\* whose sender cannot pay leaves no trace in the database.
Exec ==
    /\ applying # <<>>
    /\ LET tx == Head(applying)
       IN  executed' \in {executed, executed \cup {tx}} /\ delValue(tx)
    /\ applying' = Tail(applying)
    /\ UNCHANGED packing

Next ==
    \/ \E tx \in Tx : AddTx(tx)
    \/ StartPackaging
    \/ GetTx
    \/ Eval
    \/ EndPackaging
    \/ StartApplying
    \/ Exec

Spec == Init /\ [][Next]_vars

-----------------------------------------------------------------------------
(***************************************************************************)
(* Properties.                                                             *)
(***************************************************************************)

\* The list stays well formed whoever adds, reads and removes in between: no
\* pointer, and in particular not the cursor of the packer, leads to a node
\* that delValue has removed, next and prev mirror each other, and length
\* counts the nodes (pool.go:90-116).
ListIsSound ==
    /\ {tail, cursor} \subseteq txids \cup {Nil}
    /\ \A t \in txids : {next[t], prev[t]} \subseteq (txids \cup {Nil}) \ {t}
    /\ \A s, t \in txids : next[s] = t <=> prev[t] = s
    /\ tail # Nil => next[tail] = Nil
    /\ length = Cardinality(txids)

\* Pointers, cursor and mutex make a queue: transactions are read in the order
\* they came, none twice ("no repeated value can be read", pool.go:75), and
\* none after it was removed; and the packer loses no batch that fits.
Q == INSTANCE TxQueue WITH
        pooled <- txids, ahead <- scanned(MaxTxNum), block <- packed

ImplementsQueue == Q!Spec

\* Verifiers accept the block a packer proposes: it has as many receipts as
\* transactions (TryApplyBlock, block.go:118-126), because a transaction that
\* fails its evaluation "must not be packed" (block.go:52).
PackedBlockIsAccepted ==
    phase = "done" => TryApplyBlock(packed, receipts)

=============================================================================
