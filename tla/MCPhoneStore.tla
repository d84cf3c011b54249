---------------------------- MODULE MCPhoneStore ----------------------------
(***************************************************************************)
(* Three entries and four phones: a removal moves up to two entries, and a *)
(* full table turns a phone away.  The phones are interchangeable.         *)
(*                                                                         *)
(* Bounded: what a callback has disordered is followed until both tasks    *)
(* are at rest or a reset tears the table too, not through the operations  *)
(* that come after.                                                        *)
(***************************************************************************)
EXTENDS PhoneStore, TLC
CONSTANTS p1, p2, p3, p4

MCPhones == {p1, p2, p3, p4}
Symmetry == Permutations(MCPhones)
Bounded  == raced => pc # AtRest /\ ~torn
=============================================================================
