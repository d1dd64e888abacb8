--------------------------- MODULE MCPbftProtocol ---------------------------
(***************************************************************************)
(* Instances of PbftProtocol for TLC.  Nothing tells one body from another *)
(* so the bodies are a symmetry set; the verifiers are not, since the      *)
(* primary depends on the index.                                           *)
(***************************************************************************)
EXTENDS PbftProtocol, TLC

BodySymmetry == Permutations(Bodies)

=============================================================================
