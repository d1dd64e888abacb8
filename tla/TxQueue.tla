------------------------------ MODULE TxQueue ------------------------------
(***************************************************************************)
(* What a verifier's transaction pool promises the packer of blocks: a     *)
(* queue without repetitions.  pooled is what the pool knows, and refuses  *)
(* to take again; ahead is what reading will still return, in this order;  *)
(* block is what the packer has read for the block it is making.           *)
(*                                                                         *)
(* The promise has two holes, and the specification states them: a         *)
(* transaction that comes while others wait to be read may be pooled and   *)
(* never be read (Pool.delValue), and a batch that does not fit in the     *)
(* block any more is read and lost (packageBlock).                         *)
(***************************************************************************)
EXTENDS Integers, Sequences

CONSTANTS
    Tx,          \* transactions, named by their signature
    MaxBlockTxs  \* how many transactions a block may have

VARIABLES pooled, ahead, block

vars == <<pooled, ahead, block>>

Init == pooled = {} /\ ahead = <<>> /\ block = <<>>

Add(tx) ==
    /\ tx \notin pooled
    /\ pooled' = pooled \cup {tx}
    /\ \/ ahead' = Append(ahead, tx)
       \/ ahead # <<>> /\ UNCHANGED ahead
    /\ UNCHANGED block

NewBlock == block' = <<>> /\ UNCHANGED <<pooled, ahead>>

\* Reading takes from the front and leaves what it reads in the pool.
Read ==
    /\ \E k \in 1 .. Len(ahead) :
          /\ ahead' = SubSeq(ahead, k + 1, Len(ahead))
          /\ IF Len(block) + k <= MaxBlockTxs
             THEN block' = block \o SubSeq(ahead, 1, k)
             ELSE UNCHANGED block
    /\ UNCHANGED pooled

\* What is ahead is there once: the queue takes no transaction it has.
Remove(tx) ==
    /\ tx \in pooled
    /\ pooled' = pooled \ {tx}
    /\ \/ \E i \in 1 .. Len(ahead) :
             /\ ahead[i] = tx
             /\ ahead' = SubSeq(ahead, 1, i - 1) \o SubSeq(ahead, i + 1, Len(ahead))
       \/ (\A i \in 1 .. Len(ahead) : ahead[i] # tx) /\ UNCHANGED ahead
    /\ UNCHANGED block

Next == (\E tx \in Tx : Add(tx) \/ Remove(tx)) \/ NewBlock \/ Read

Spec == Init /\ [][Next]_vars

=============================================================================
