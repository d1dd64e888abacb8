------------------------------ MODULE MCLedger ------------------------------
(***************************************************************************)
(* Ledger for TLC: two configured accounts, a third made by a payment.     *)
(***************************************************************************)
EXTENDS Ledger

CONSTANTS A1, A2, A3

MCAddress == {A1, A2, A3}
MCAccountCfg == <<[id |-> A1, amount |-> 2], [id |-> A3, amount |-> 1]>>

\* The second has no sender before the first; the third, of an account to
\* itself, is more than it can pay before the second.
MCTx == {[id |-> 1, from |-> A1, to |-> A2, amount |-> 2],
         [id |-> 2, from |-> A2, to |-> A3, amount |-> 1],
         [id |-> 3, from |-> A3, to |-> A3, amount |-> 2]}
=============================================================================
