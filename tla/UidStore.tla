------------------------------ MODULE UidStore ------------------------------
(***************************************************************************)
(* The user UID table of lib/storage/user_uid_manager.h as it lies in NVS: *)
(* u_uid_0, u_uid_1, ... and u_count, every key written by a call of its   *)
(* own.  A single key is written atomically; a power cut, a watchdog reset *)
(* or a restart commanded over BLE may come between any two writes.  What  *)
(* was written stays, the rest of the operation is lost.                   *)
(*                                                                         *)
(* The master table (master_uid_manager.h) is written by the add steps of  *)
(* this module; nothing calls its removeUID.                               *)
(***************************************************************************)
EXTENDS Naturals

CONSTANTS
  Cards, None,      \* the cards, and an absent NVS key
  MAX_USER_UIDS     \* the capacity of the table

ASSUME StoreConstants ==
  /\ None \notin Cards
  /\ MAX_USER_UIDS \in Nat

VARIABLES
  slots,    \* the blobs u_uid_i that exist
  count,    \* u_count
  pc,       \* where in an operation the loop task is
  uid,      \* the argument of the operation
  i,        \* the index of the shift
  torn      \* ghost: a crash has interrupted a removal since the last clear

vars == <<slots, count, pc, uid, i, torn>>

Index == 0..MAX_USER_UIDS - 1

TypeOK ==
  /\ slots \in [Index -> Cards \cup {None}]
  /\ count \in 0..MAX_USER_UIDS
  /\ pc \in {"rest", "put", "grow", "shift", "shrink"}
  /\ uid \in Cards \cup {None}
  /\ i \in 0..MAX_USER_UIDS
  /\ torn \in BOOLEAN

Init ==
  /\ slots = [s \in Index |-> None]
  /\ count = 0
  /\ pc = "rest" /\ uid = None /\ i = 0
  /\ torn = FALSE

----------------------------------------------------------------------------
Used == 0..count - 1

\* checkUID finds exactly these cards.
Visible == {slots[s] : s \in Used} \ {None}

\* addUID: an unknown card, and room in the table.
Add(c) ==
  /\ pc = "rest"
  /\ c \notin Visible
  /\ count < MAX_USER_UIDS
  /\ pc' = "put" /\ uid' = c
  /\ UNCHANGED <<slots, count, i, torn>>

\* Variants named Mut* are plausible bugs: the checks of this module's
\* properties replace an operator by its variant and expect a violation.

\* Variant of PutSlot: the new card goes over the last one.
MutPutSlot ==
  /\ pc = "put"
  /\ slots' = [slots EXCEPT ![IF count > 0 THEN count - 1 ELSE 0] = uid]
  /\ pc' = "grow"
  /\ UNCHANGED <<count, uid, i, torn>>

\* Variant of PutSlot: the slot written is one too far.
MutPutSlotPast ==
  /\ pc = "put"
  /\ slots' = [s \in Index \cup {count + 1} |-> IF s = count + 1 THEN uid ELSE slots[s]]
  /\ pc' = "grow"
  /\ UNCHANGED <<count, uid, i, torn>>

PutSlot ==
  /\ pc = "put"
  /\ slots' = [slots EXCEPT ![count] = uid]
  /\ pc' = "grow"
  /\ UNCHANGED <<count, uid, i, torn>>

Grow ==
  /\ pc = "grow"
  /\ count' = count + 1
  /\ pc' = "rest" /\ uid' = None
  /\ UNCHANGED <<slots, i, torn>>

\* removeUID: the first slot that holds the card is found.
Remove(c, s) ==
  /\ pc = "rest"
  /\ s \in Used /\ slots[s] = c
  /\ \A t \in Used : slots[t] = c => s <= t
  /\ pc' = "shift" /\ uid' = c /\ i' = s
  /\ UNCHANGED <<slots, count, torn>>

\* Variant of Shift: source and destination are swapped.
MutShift ==
  /\ pc = "shift" /\ i + 1 < count
  /\ slots' = [slots EXCEPT ![i + 1] = slots[i]]
  /\ i' = i + 1
  /\ UNCHANGED <<count, pc, uid, torn>>

\* One entry moves down.  putBytes with no bytes writes nothing, so a hole
\* does not move.
Shift ==
  /\ pc = "shift" /\ i + 1 < count
  /\ slots' = IF slots[i + 1] = None THEN slots
              ELSE [slots EXCEPT ![i] = slots[i + 1]]
  /\ i' = i + 1
  /\ UNCHANGED <<count, pc, uid, torn>>

RemoveLast ==
  /\ pc = "shift" /\ i + 1 >= count
  /\ slots' = [slots EXCEPT ![count - 1] = None]
  /\ pc' = "shrink"
  /\ UNCHANGED <<count, uid, i, torn>>

\* Variant of Shrink: the count is not written.
MutShrink ==
  /\ pc = "shrink"
  /\ pc' = "rest" /\ uid' = None /\ i' = 0
  /\ UNCHANGED <<slots, count, torn>>

Shrink ==
  /\ pc = "shrink"
  /\ count' = count - 1
  /\ pc' = "rest" /\ uid' = None /\ i' = 0
  /\ UNCHANGED <<slots, torn>>

\* clearUsers, on a factory reset.
ClearUsers ==
  /\ pc = "rest"
  /\ slots' = [s \in Index |-> None] /\ count' = 0
  /\ torn' = FALSE
  /\ UNCHANGED <<pc, uid, i>>

\* A crash in an operation, and the reboot after it.
Crash ==
  /\ pc # "rest"
  /\ pc' = "rest" /\ uid' = None /\ i' = 0
  /\ torn' = (torn \/ pc \in {"shift", "shrink"})
  /\ UNCHANGED <<slots, count>>

----------------------------------------------------------------------------
Next == \/ \E c \in Cards : Add(c) \/ \E s \in Index : Remove(c, s)
        \/ PutSlot \/ Grow \/ Shift \/ RemoveLast \/ Shrink
        \/ ClearUsers \/ Crash

Spec == Init /\ [][Next]_vars

----------------------------------------------------------------------------
\* Properties

\* addUID or removeUID in progress, with the card it was called for.
AbsOp ==
  CASE pc = "rest"               -> [kind |-> "idle"]
    [] pc \in {"put", "grow"}     -> [kind |-> "add", card |-> uid]
    [] pc \in {"shift", "shrink"} -> [kind |-> "remove", card |-> uid]

\* At every write, crash and reboot the cards that checkUID finds change as if
\* addUID, removeUID and clearUsers were atomic.  No write of the shift, no
\* crash, and no operation on a table that an earlier crash has torn, admits
\* or revokes a card other than the one presented; one that is presented is
\* admitted by the last write of addUID alone, and revoked at the latest when
\* removeUID returns, on a table that is not torn.
Table == INSTANCE UidSet WITH uids <- Visible, op <- AbsOp, damaged <- torn
ImplementsUidSet == Table!Spec

\* Unless a crash tore the table, a card is no longer found once its removal
\* has written the table, however many cards were added and removed before.
RemovedIsGone == pc = "shrink" /\ ~torn => uid \notin Visible

\* Unless a crash tore the table, it holds no card twice and no hole, so that
\* addUID refuses a card only when MAX_USER_UIDS others are stored.
Dense ==
  pc = "rest" /\ ~torn =>
    \A s \in Used : /\ slots[s] # None
                    /\ \A t \in Used : slots[s] = slots[t] => s = t
=============================================================================
