------------------------------ MODULE PbftBase ------------------------------
(***************************************************************************)
(* What every consensus module shares: the verifiers, the quorum size, the *)
(* primary of a (height, view) and the blocks.                             *)
(*                                                                         *)
(* Verifiers are named by their index in ws.Verifiers, the list the        *)
(* genesis configuration fixes for every node.  A block is its header: the *)
(* hash covers PrevBlock, BlockNum, TxRoot, TxReceiptsRoot, TimeStamp and  *)
(* View, so Body stands for the roots and the time stamp together.         *)
(***************************************************************************)
EXTENDS Integers, FiniteSets

CONSTANTS
    N,       \* len(ws.Verifiers)
    Bodies   \* what two packagings of one slot can differ in

ASSUME NAssumption == N \in Nat \ {0}

Node == 0 .. (N - 1)

Block == [num : Nat, view : Nat, prev : Nat \X Nat \X (Bodies \cup {0}), body : Bodies]

Hash(b) == <<b.num, b.view, b.body>>

GenesisHash == <<0, 0, 0>>

\* A mutant of minNodeNum: no allowance for f = 0.
OneShort == IF N \div 3 = 0 THEN N ELSE 2 * (N \div 3)

\* PBFT.minNodeNum: with f = n/3, all n verifiers if f = 0, else 2f+1.
minNodeNum ==
    LET f == N \div 3
    IN  IF f = 0 THEN N ELSE 2 * f + 1

\* The primary of a slot: verifier (BlockNum + 1 + View) mod n.
Primary(num, view) == (num + view) % N

=============================================================================
