------------------------------- MODULE UidSet -------------------------------
(***************************************************************************)
(* What a UID table promises the access loop: a set of cards on which one  *)
(* operation at a time is under way, with the card it was called for.  The *)
(* set changes only by that operation, once, and only in that card.  A     *)
(* crash ends the operation and changes no card.  A removal that ended has *)
(* revoked its card, unless a crash has cut an earlier removal short       *)
(* (damaged); only clearing the table repairs that.                        *)
(***************************************************************************)
EXTENDS Naturals

CONSTANT Cards
VARIABLES uids, op, damaged

vars == <<uids, op, damaged>>

Idle        == [kind |-> "idle"]
Adding(c)   == [kind |-> "add", card |-> c]
Removing(c) == [kind |-> "remove", card |-> c]

Init == uids = {} /\ op = Idle /\ damaged = FALSE

BeginAdd(c) ==
  /\ op = Idle /\ c \notin uids
  /\ op' = Adding(c)
  /\ UNCHANGED <<uids, damaged>>

EndAdd(c) ==
  /\ op = Adding(c)
  /\ uids' = uids \cup {c} /\ op' = Idle
  /\ UNCHANGED damaged

BeginRemove(c) ==
  /\ op = Idle /\ c \in uids
  /\ op' = Removing(c)
  /\ UNCHANGED <<uids, damaged>>

Revoke(c) ==
  /\ op = Removing(c)
  /\ uids' = uids \ {c}
  /\ UNCHANGED <<op, damaged>>

EndRemove(c) ==
  /\ op = Removing(c) /\ (c \notin uids \/ damaged)
  /\ op' = Idle
  /\ UNCHANGED <<uids, damaged>>

Clear == op = Idle /\ uids' = {} /\ damaged' = FALSE /\ UNCHANGED op

Crash(c) ==
  /\ op \in {Adding(c), Removing(c)}
  /\ op' = Idle
  /\ damaged' = (damaged \/ op = Removing(c))
  /\ UNCHANGED uids

Next == \/ Clear
        \/ \E c \in Cards : \/ BeginAdd(c) \/ EndAdd(c) \/ Crash(c)
                            \/ BeginRemove(c) \/ Revoke(c) \/ EndRemove(c)
Spec == Init /\ [][Next]_vars
=============================================================================
