-------------------------- MODULE MCMacroExecutor --------------------------
(***************************************************************************)
(* Model values for MacroExecutor.  Two relays, macros of one and of two   *)
(* steps with different relays, durations and gaps, and a second table     *)
(* whose slot 1 became an empty macro: a check made against the first      *)
(* table and a copy made from the second then disagree on step_count.      *)
(***************************************************************************)
EXTENDS MacroExecutor
CONSTANTS r1, r2

S(mask, duration, gap) == [mask |-> mask, duration |-> duration, gap |-> gap]
M(s1)      == [step_count |-> 1, steps |-> [s \in 0..1 |-> IF s = 0 THEN s1 ELSE NoStep]]
M2(s1, s2) == [step_count |-> 2, steps |-> [s \in 0..1 |-> IF s = 0 THEN s1 ELSE s2]]
Table(n, m0, m1) == [macro_count |-> n,
                     macros |-> [i \in 0..1 |-> IF i = 0 THEN m0 ELSE m1]]

MCRelays == {r1, r2}
Unlock == M(S({r1}, 1, 0))
Twice  == M2(S({r1, r2}, 2, 1), S({r2}, 1, 0))
MCConfigs == {Table(2, Unlock, Twice), Table(2, Twice, NoMacro), Table(1, M(S({r2}, 2, 0)), Unlock)}
=============================================================================
