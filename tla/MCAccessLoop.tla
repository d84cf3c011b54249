---------------------------- MODULE MCAccessLoop ----------------------------
(***************************************************************************)
(* Model values for AccessLoop: a card that will be or is the master, one  *)
(* regular card, and one whose UID has a bad length; a table of one user,  *)
(* so that it can be full.  The timeouts keep the order the code's have:   *)
(* away <= redetect < hold, and warning < exit.                            *)
(***************************************************************************)
EXTENDS AccessLoop
CONSTANTS master, tag, odd, r1

MCCards == {master, tag, odd}
MCBadLength == {odd}
MCLockouts == <<1, 2>>
MCRelays == {r1}

S(mask, duration, gap) == [mask |-> mask, duration |-> duration, gap |-> gap]
Macro1(d) == [step_count |-> 1, steps |-> [s \in 0..0 |-> S({r1}, d, 0)]]
MCTagMacro == Macro1(1)
MCMacros == {MCTagMacro}
MCTwoMacros == {MCTagMacro, Macro1(2)}   \* the second is only sent remotely
=============================================================================
