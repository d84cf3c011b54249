---------------------------- MODULE NonceManager ----------------------------
(***************************************************************************)
(* The single-use nonces of lib/security/nonce_manager.hpp and the command *)
(* handler of lib/network/wifi_auth_endpoints_hardened.hpp that consumes   *)
(* them.  Both handlers run to completion in the loop task.                *)
(*                                                                         *)
(* A nonce is 16 random bytes: generateNonce picks a value never issued    *)
(* before.  Timestamps are represented by the time elapsed since them, in  *)
(* ticks, as far as the code can tell it apart.  A command carries a value *)
(* the device once issued, one it never did, or the value of an empty slot *)
(* (16 zero bytes, None), which validateAndConsume finds like any other.   *)
(* An empty slot's timestamp is 0, and setup() takes longer than           *)
(* NONCE_EXPIRY: it is long ago, until millis() wraps (not modelled).      *)
(*                                                                         *)
(* The specification is NonceSpec, so that SecurityProofs can extend this  *)
(* module together with RateLimiter.                                       *)
(***************************************************************************)
EXTENDS Naturals

CONSTANTS
  Nonces, None,          \* the nonce values, and that of an empty slot
  MAX_NONCES, NONCE_EXPIRY, CLEANUP_INTERVAL

ASSUME NonceConstants ==
  /\ None \notin Nonces
  /\ MAX_NONCES \in Nat \ {0}
  /\ NONCE_EXPIRY \in Nat
  /\ CLEANUP_INTERVAL \in Nat

VARIABLES
  nonces,         \* the slots: value, time since timestamp, used, time since usedAt
  nextIndex,
  sinceCleanup,   \* millis() - lastCleanup
  status,         \* ghost: what has become of each value
  since,          \* ghost: time since the value was issued
  evicted         \* ghost: values overwritten because every slot was taken

nonceVars == <<nonces, nextIndex, sinceCleanup, status, since, evicted>>

Slots == 0..MAX_NONCES - 1
Slot  == [value : Nonces \cup {None}, age : 0..2 * NONCE_EXPIRY + 1,
          used : BOOLEAN, usedAge : 0..NONCE_EXPIRY + 1]
Empty == [value |-> None, age |-> 2 * NONCE_EXPIRY + 1, used |-> FALSE, usedAge |-> 0]
Values == Nonces \cup {None}

\* Every variable has its type.
TypeOK ==
  /\ nonces \in [Slots -> Slot]
  /\ nextIndex \in Slots
  /\ sinceCleanup \in 0..CLEANUP_INTERVAL
  /\ status \in [Values -> {"fresh", "issued", "accepted", "replayed", "lost"}]
  /\ since \in [Nonces -> 0..NONCE_EXPIRY + 1]
  /\ evicted \in SUBSET Nonces

NonceInit ==
  /\ nonces = [s \in Slots |-> Empty]
  /\ nextIndex = 0
  /\ sinceCleanup = 0
  /\ status = [v \in Values |-> "fresh"]
  /\ since = [v \in Nonces |-> 0]
  /\ evicted = {}

----------------------------------------------------------------------------
\* Variants named Mut* are plausible bugs: the checks of this module's
\* properties replace an operator by its variant and expect a violation.

\* Variant of Stale: cleanup drops nonces that have not expired.
MutStale(n) == n.value # None /\ (n.used \/ n.age > 0)

\* cleanupExpiredNonces, which generateNonce and validateAndConsume call first.
Stale(n) ==
  /\ n.value # None
  /\ \/ n.used /\ n.usedAge > NONCE_EXPIRY
     \/ n.age > 2 * NONCE_EXPIRY

CleanupDue == sinceCleanup >= CLEANUP_INTERVAL

\* Variant of Cleaned: the slot is freed but keeps the value it had.
MutCleaned ==
  [s \in Slots |-> IF CleanupDue /\ Stale(nonces[s])
                     THEN [nonces[s] EXCEPT !.used = FALSE, !.age = 0] ELSE nonces[s]]

Cleaned ==
  [s \in Slots |-> IF CleanupDue /\ Stale(nonces[s]) THEN Empty ELSE nonces[s]]

Cleanup == sinceCleanup' = IF CleanupDue THEN 0 ELSE sinceCleanup

----------------------------------------------------------------------------
\* handleGetNonce: generateNonce takes the first empty slot or, when there is
\* none, the slot after the one it wrote last.

Fresh(v) == [value |-> v, age |-> 0, used |-> FALSE, usedAge |-> 0]

\* Variant of After: the index does not wrap.
MutAfter(s) == s + 1

After(s) == (s + 1) % MAX_NONCES

Target(s) ==
  LET free == {t \in Slots : Cleaned[t].value = None}
  IN  IF free = {} THEN s = nextIndex ELSE s \in free /\ \A t \in free : s <= t

GetNonce(v) ==
  /\ status[v] = "fresh"
  /\ \E s \in Slots :
       /\ Target(s)
       /\ nonces' = [t \in Slots |-> IF t = s THEN Fresh(v) ELSE Cleaned[t]]
       /\ nextIndex' = After(s)
       /\ evicted' = IF \E t \in Slots : Cleaned[t].value = None THEN evicted
                     ELSE evicted \cup {Cleaned[s].value}
  /\ Cleanup
  /\ status' = [status EXCEPT ![v] = "issued"]
  /\ UNCHANGED since

----------------------------------------------------------------------------
\* handleCommand up to validateAndConsume.  The checks after it (timestamp,
\* device, token, rate) decide whether the command is dispatched; a nonce they
\* turn down is consumed all the same.  An expired nonce, and so an empty slot
\* that matches, is marked as used, too.

Consumed(n) == [value |-> n.value, age |-> n.age, used |-> TRUE, usedAge |-> 0]

\* Variant of Valid: an old nonce is still good.
MutValid(n) == ~n.used

Valid(n) == ~n.used /\ n.age <= NONCE_EXPIRY

Command(v) ==
  /\ \/ /\ \A s \in Slots : Cleaned[s].value # v
        /\ nonces' = Cleaned
        /\ UNCHANGED status
     \/ \E s \in Slots :
          /\ Cleaned[s].value = v /\ \A t \in Slots : Cleaned[t].value = v => s <= t
          /\ nonces' = [t \in Slots |-> IF t = s /\ ~Cleaned[t].used
                                          THEN Consumed(Cleaned[t]) ELSE Cleaned[t]]
          /\ status' = IF ~Valid(Cleaned[s]) THEN status
                       ELSE [status EXCEPT ![v] = IF status[v] = "issued"
                                                    THEN "accepted" ELSE "replayed"]
  /\ Cleanup
  /\ UNCHANGED <<nextIndex, since, evicted>>

----------------------------------------------------------------------------
Up(t, limit) == IF t < limit THEN t + 1 ELSE t

Older(n) ==
  IF n.value = None THEN n
  ELSE [value |-> n.value, age |-> Up(n.age, 2 * NONCE_EXPIRY + 1), used |-> n.used,
        usedAge |-> IF n.used THEN Up(n.usedAge, NONCE_EXPIRY + 1) ELSE 0]

Age ==
  /\ nonces' = [s \in Slots |-> Older(nonces[s])]
  /\ sinceCleanup' = Up(sinceCleanup, CLEANUP_INTERVAL)
  /\ since' = [v \in Nonces |-> IF status[v] = "fresh" THEN 0
                                ELSE Up(since[v], NONCE_EXPIRY + 1)]
  /\ UNCHANGED <<nextIndex, status, evicted>>

\* clear, which setup calls at every boot and a factory reset before its own.
Reboot ==
  /\ nonces' = [s \in Slots |-> Empty]
  /\ nextIndex' = 0
  /\ sinceCleanup' = 0
  /\ status' = [v \in Values |-> IF status[v] = "issued" THEN "lost" ELSE status[v]]
  /\ UNCHANGED <<since, evicted>>

NonceNext ==
  \/ Age \/ Reboot
  \/ \E v \in Nonces : GetNonce(v)
  \/ \E v \in Values : Command(v)
NonceSpec == NonceInit /\ [][NonceNext]_nonceVars

----------------------------------------------------------------------------
\* Properties

\* No command is carried out twice on one nonce: although cleanup forgets that
\* a nonce was used, a reboot forgets every nonce, and slots are given to others,
\* a value is accepted at most once, and only after this boot issued it, the
\* value of an empty slot never.
SingleUse == \A v \in Values : status[v] # "replayed"

\* A nonce is accepted only until NONCE_EXPIRY after it was issued, measured
\* from the issue and not from whatever the slot says.
AcceptedInTime ==
  \A v \in Nonces :
    status'[v] = "accepted" /\ status[v] # "accepted" => since[v] <= NONCE_EXPIRY
NoLateAcceptance == [][AcceptedInTime]_nonceVars

\* A client that comes back in time is not turned away: until it expires, an
\* issued nonce that no command has used stays valid through every cleanup,
\* unless all slots were taken and it was overwritten, or a reboot lost it.
LiveNonceKept ==
  \A v \in Nonces :
    status[v] = "issued" /\ since[v] <= NONCE_EXPIRY /\ v \notin evicted =>
      \E s \in Slots : nonces[s].value = v /\ Valid(nonces[s])
=============================================================================
