----------------------------- MODULE MCUidStore -----------------------------
(***************************************************************************)
(* Three slots, so that a removal may shift two entries and a crash can    *)
(* come between them, and four cards, so that the table can be full with   *)
(* one card left outside.  The cards are interchangeable.                  *)
(***************************************************************************)
EXTENDS UidStore, TLC
CONSTANTS a, b, c, d

MCCards == {a, b, c, d}
Symmetry == Permutations(MCCards)
=============================================================================
