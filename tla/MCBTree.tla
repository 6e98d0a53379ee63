------------------------------ MODULE MCBTree -------------------------------
(* BTree on small pages that hold three or four cells, of the sizes that   *)
(* the theorems of BTree_proofs ask for.                                   *)
EXTENDS BTree

ASSUME SafeSizes
=============================================================================
