------------------------------ MODULE MCTxPool ------------------------------
(***************************************************************************)
(* Instances of TxPool for TLC: transactions differ only in their names.   *)
(***************************************************************************)
EXTENDS TxPool, TLC

TxSymmetry == Permutations(Tx)

=============================================================================
