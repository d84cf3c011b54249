----------------------------- MODULE PhoneStore -----------------------------
(***************************************************************************)
(* The paired phones of lib/auth/phone_token_manager.hpp as they lie in    *)
(* NVS, and their three writers: handlePair and handleUnpair in the loop   *)
(* task, the pairing callback in the NimBLE host task.                     *)
(*                                                                         *)
(* Every NVS key is written by a call of its own.  A callback may pre-empt *)
(* the loop between any two writes, or between two reads of a search, and  *)
(* then runs to completion; a reset may come at the same points of either  *)
(* task.  No decision depends on the p_ver_i keys, which are left out.     *)
(*                                                                         *)
(* A token is represented by the phone it was issued to.  Any phone may    *)
(* pair at any time: the pairing windows only forbid some of these calls.  *)
(***************************************************************************)
EXTENDS Naturals

CONSTANTS
  Phones, None,         \* the device ids, and an absent NVS key
  MAX_PAIRED_PHONES,
  BleEnabled            \* TRUE when the NimBLE host task runs

ASSUME PhoneConstants ==
  /\ None \notin Phones
  /\ MAX_PAIRED_PHONES \in Nat
  /\ BleEnabled \in BOOLEAN

VARIABLES
  ids, tokens,    \* the keys p_id_i and p_token_i
  count,          \* p_count
  pc,             \* where in an operation each task is
  phone,          \* deviceId
  pairing,        \* pairing that phone, not unpairing it
  n, i,           \* the locals count and i
  told,           \* ghost: phones told they are paired, and not removed since
  torn,           \* ghost: a reset has interrupted a removal since clearAll
  raced           \* ghost: a callback has pre-empted an operation since clearAll

nvs    == <<ids, tokens, count>>
locals == <<phone, pairing, n, i>>
ghosts == <<told, torn, raced>>
vars   == <<nvs, pc, locals, ghosts>>

Index == 0..MAX_PAIRED_PHONES - 1
Tasks == {"loop", "ble"}

Removing == {"shift", "token", "drop", "shrink"}
Adding   == {"add", "check", "putid", "puttoken", "grow"}

\* Every variable has its type: the entries never outgrow their keys.
TypeOK ==
  /\ ids \in [Index -> Phones \cup {None}]
  /\ tokens \in [Index -> Phones \cup {None}]
  /\ count \in 0..MAX_PAIRED_PHONES
  /\ pc \in [Tasks -> {"rest", "remove", "find"} \cup Removing \cup Adding]
  /\ phone \in [Tasks -> Phones \cup {None}]
  /\ pairing \in [Tasks -> BOOLEAN]
  /\ n \in [Tasks -> 0..MAX_PAIRED_PHONES]
  /\ i \in [Tasks -> 0..MAX_PAIRED_PHONES]
  /\ told \in SUBSET Phones
  /\ torn \in BOOLEAN /\ raced \in BOOLEAN

AtRest == [t \in Tasks |-> "rest"]

Init ==
  /\ ids = [s \in Index |-> None] /\ tokens = [s \in Index |-> None] /\ count = 0
  /\ pc = AtRest
  /\ phone = [t \in Tasks |-> None] /\ pairing = [t \in Tasks |-> FALSE]
  /\ n = [t \in Tasks |-> 0] /\ i = [t \in Tasks |-> 0]
  /\ told = {} /\ torn = FALSE /\ raced = FALSE

----------------------------------------------------------------------------
Used == 0..count - 1

\* A command of phone p is accepted: the first entry with its id has its token.
Accepted(p) ==
  \E s \in Used : /\ ids[s] = p /\ tokens[s] = p
                  /\ \A r \in Used : ids[r] = p => s <= r

\* Task t makes its step from one point of an operation to another.
Step(t, from, to) ==
  /\ t = "loop" => pc["ble"] = "rest"
  /\ pc[t] = from
  /\ pc' = [pc EXCEPT ![t] = to]

\* Variants named Mut* are plausible bugs: the checks of this module's
\* properties replace an operator by its variant and expect a violation.

\* The operation is over, its locals are gone.
Return(t) ==
  /\ phone' = [phone EXCEPT ![t] = None] /\ pairing' = [pairing EXCEPT ![t] = FALSE]
  /\ n' = [n EXCEPT ![t] = 0] /\ i' = [i EXCEPT ![t] = 0]

\* handlePair, PairingCallbacks::onWrite: removePhone, then addPhoneEncrypted.
Pair(t, p) ==
  /\ t = "ble" => BleEnabled
  /\ Step(t, "rest", "remove")
  /\ phone' = [phone EXCEPT ![t] = p] /\ pairing' = [pairing EXCEPT ![t] = TRUE]
  /\ raced' = (raced \/ (t = "ble" /\ pc["loop"] # "rest"))
  /\ UNCHANGED <<nvs, n, i, told, torn>>

\* handleUnpair: removePhone for a phone that sent its token.
Unpair(p) ==
  /\ Accepted(p)
  /\ Step("loop", "rest", "remove")
  /\ phone' = [phone EXCEPT !["loop"] = p]
  /\ UNCHANGED <<nvs, pairing, n, i, ghosts>>

\* removePhone and addPhoneEncrypted read the count, then look for the id.
ReadCount(t) ==
  /\ Step(t, "remove", "find") \/ Step(t, "add", "check")
  /\ n' = [n EXCEPT ![t] = count] /\ i' = [i EXCEPT ![t] = 0]
  /\ UNCHANGED <<nvs, phone, pairing, ghosts>>

Advance(t) == i' = [i EXCEPT ![t] = i[t] + 1]

LookAt(t) ==
  /\ pc[t] \in {"find", "check"} /\ i[t] < n[t] /\ ids[i[t]] # phone[t]
  /\ Step(t, pc[t], pc[t])
  /\ Advance(t)
  /\ UNCHANGED <<nvs, phone, pairing, n, ghosts>>

Found(t) ==
  /\ i[t] < n[t] /\ ids[i[t]] = phone[t]
  /\ Step(t, "find", "shift")
  /\ UNCHANGED <<nvs, locals, ghosts>>

NotFound(t) ==
  /\ i[t] >= n[t]
  /\ IF pairing[t]
       THEN Step(t, "find", "add") /\ UNCHANGED <<locals, told>>
       ELSE Step(t, "find", "rest") /\ Return(t) /\ told' = told \ {phone[t]}
  /\ UNCHANGED <<nvs, torn, raced>>

----------------------------------------------------------------------------
\* removePhone: entries above the one found move down, id first.

\* Variant of ShiftId: the id is moved away instead of copied.
MutShiftId(t) ==
  /\ i[t] + 1 < n[t]
  /\ Step(t, "shift", "token")
  /\ ids' = [ids EXCEPT ![i[t]] = ids[i[t] + 1], ![i[t] + 1] = None]
  /\ UNCHANGED <<tokens, count, locals, ghosts>>

ShiftId(t) ==
  /\ i[t] + 1 < n[t]
  /\ Step(t, "shift", "token")
  /\ ids' = [ids EXCEPT ![i[t]] = ids[i[t] + 1]]
  /\ UNCHANGED <<tokens, count, locals, ghosts>>

\* Variant of ShiftToken: only the ids move down.
MutShiftToken(t) ==
  /\ Step(t, "token", "shift")
  /\ Advance(t)
  /\ UNCHANGED <<nvs, phone, pairing, n, ghosts>>

ShiftToken(t) ==
  /\ Step(t, "token", "shift")
  /\ tokens' = IF tokens[i[t] + 1] = None THEN tokens
               ELSE [tokens EXCEPT ![i[t]] = tokens[i[t] + 1]]
  /\ Advance(t)
  /\ UNCHANGED <<ids, count, phone, pairing, n, ghosts>>

DropId(t) ==
  /\ i[t] + 1 >= n[t]
  /\ Step(t, "shift", "drop")
  /\ ids' = [ids EXCEPT ![n[t] - 1] = None]
  /\ UNCHANGED <<tokens, count, locals, ghosts>>

DropToken(t) ==
  /\ Step(t, "drop", "shrink")
  /\ tokens' = [tokens EXCEPT ![n[t] - 1] = None]
  /\ UNCHANGED <<ids, count, locals, ghosts>>

Shrink(t) ==
  /\ count' = n[t] - 1
  /\ told' = told \ {phone[t]}
  /\ IF pairing[t] THEN Step(t, "shrink", "add") /\ UNCHANGED locals
                   ELSE Step(t, "shrink", "rest") /\ Return(t)
  /\ UNCHANGED <<ids, tokens, torn, raced>>

----------------------------------------------------------------------------
\* addPhoneEncrypted

\* Variant of Full: the capacity is allowed one entry too many.
MutFull(t) == n[t] > MAX_PAIRED_PHONES

Full(t) == n[t] >= MAX_PAIRED_PHONES

\* Already paired, or no room: the phone is told that it is not paired.
Refused(t) ==
  /\ IF i[t] < n[t] THEN ids[i[t]] = phone[t] ELSE Full(t)
  /\ Step(t, "check", "rest") /\ Return(t)
  /\ UNCHANGED <<nvs, ghosts>>

Admitted(t) ==
  /\ i[t] >= n[t] /\ ~Full(t)
  /\ Step(t, "check", "putid")
  /\ UNCHANGED <<nvs, locals, ghosts>>

PutId(t) ==
  /\ Step(t, "putid", "puttoken")
  /\ ids' = [ids EXCEPT ![n[t]] = phone[t]]
  /\ UNCHANGED <<tokens, count, locals, ghosts>>

PutToken(t) ==
  /\ Step(t, "puttoken", "grow")
  /\ tokens' = [tokens EXCEPT ![n[t]] = phone[t]]
  /\ UNCHANGED <<ids, count, locals, ghosts>>

Grow(t) ==
  /\ Step(t, "grow", "rest") /\ Return(t)
  /\ count' = n[t] + 1
  /\ told' = told \cup {phone[t]}
  /\ UNCHANGED <<ids, tokens, torn, raced>>

----------------------------------------------------------------------------
\* clearAll, on a factory reset.
ClearAll ==
  /\ pc = AtRest
  /\ ids' = [s \in Index |-> None] /\ tokens' = [s \in Index |-> None] /\ count' = 0
  /\ told' = {} /\ torn' = FALSE /\ raced' = FALSE
  /\ UNCHANGED <<pc, locals>>

\* A reset in the middle of an operation.
Crash ==
  /\ pc # AtRest
  /\ pc' = AtRest
  /\ phone' = [t \in Tasks |-> None] /\ pairing' = [t \in Tasks |-> FALSE]
  /\ n' = [t \in Tasks |-> 0] /\ i' = [t \in Tasks |-> 0]
  /\ torn' = (torn \/ \E t \in Tasks : pc[t] \in Removing)
  /\ UNCHANGED <<nvs, told, raced>>

Remove(t) == ReadCount(t) \/ LookAt(t) \/ Found(t) \/ NotFound(t) \/ ShiftId(t)
             \/ ShiftToken(t) \/ DropId(t) \/ DropToken(t) \/ Shrink(t)
Add(t)    == Refused(t) \/ Admitted(t) \/ PutId(t) \/ PutToken(t) \/ Grow(t)

Next ==
  \/ \E t \in Tasks : Remove(t) \/ Add(t) \/ \E p \in Phones : Pair(t, p)
  \/ \E p \in Phones : Unpair(p)
  \/ ClearAll
  \/ Crash

Spec == Init /\ [][Next]_vars

----------------------------------------------------------------------------
\* Properties

\* Between operations the phones whose commands are accepted are exactly those
\* that were told so: no pairing, re-pairing, unpairing, or reset while an entry
\* was being added, gives or takes away another phone's access -- unless a reset
\* interrupted a removal or a callback pre-empted an operation.
PairedAsTold ==
  pc = AtRest /\ ~torn /\ ~raced => \A p \in Phones : Accepted(p) <=> p \in told

\* At every write, so wherever a reset may strike, the id and the token of every
\* phone but the operation's own still stand together in an entry in use.  (After
\* a reset between ShiftId and ShiftToken the id also stands one entry lower with
\* another token, and hides the good entry from _findPhone.)
NothingLost ==
  ~torn /\ ~raced =>
    \A p \in told : \/ \E t \in Tasks : phone[t] = p
                    \/ \E s \in Used : ids[s] = p /\ tokens[s] = p
=============================================================================
