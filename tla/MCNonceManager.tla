--------------------------- MODULE MCNonceManager ---------------------------
(***************************************************************************)
(* Three slots and five values: the table can be full, a slot freed in the *)
(* middle by cleanup, filled again and the table full once more.           *)
(***************************************************************************)
EXTENDS NonceManager, TLC
CONSTANTS n1, n2, n3, n4, n5

MCNonces == {n1, n2, n3, n4, n5}
Symmetry == Permutations(MCNonces)
=============================================================================
