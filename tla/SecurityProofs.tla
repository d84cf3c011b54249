--------------------------- MODULE SecurityProofs ---------------------------
(***************************************************************************)
(* Proofs about the two guards of lib/security.                            *)
(*                                                                         *)
(* RateLimiter: for every set of clients and endpoints, every limit and    *)
(* every length of a lockout and of a window, until the clock wraps:       *)
(* NoWrap bounds the times considered by those millis() can tell apart.    *)
(* (Beyond it LockoutLasts is false: run rate_limiter_wrap.)  The          *)
(* inductive invariant ties a client's entry to what has happened to the   *)
(* client: the end of its lockout to the time it was locked out, and the   *)
(* time it was told to come back to the end of its lockout.                *)
(* CountInv adds what the entry's count says of the requests of a window,  *)
(* for lockouts of half a window (HalfWindow).                             *)
(*                                                                         *)
(* NonceManager: for every number of slots and of nonces, and for every    *)
(* expiry and cleanup interval.  Held is the part of the invariant that    *)
(* matters: a value is in one slot at most, a slot that could still be     *)
(* accepted holds a value that was issued and not yet accepted, and the    *)
(* age of a slot is the time since the issue as far as expiry is           *)
(* concerned.  An empty slot's value is never accepted (EmptyLate).        *)
(***************************************************************************)
EXTENDS RateLimiter, NonceManager, TLAPS

NoWrap == MaxTime + Lockout < Modulus

Entry == [tracked : BOOLEAN, lastRequestTime : Nat, requestCount : Nat,
          windowStart : Nat, isLocked : BOOLEAN, lockoutUntil : Nat]

Typed ==
  /\ now \in 0..MaxTime
  /\ entries \in [Clients -> Entry]
  /\ lockedAt \in [Clients -> Int] /\ retryAt \in [Clients -> Int]
  /\ allowed \in [Clients -> [0..MaxTime -> Nat]]

\* An entry's times are not in the future.
Past(x) == x.lastRequestTime <= now /\ x.windowStart <= now

\* What client c's entry says of its lockout is when it was locked out.
Locked(c) ==
  LET x == entries[c] IN
  IF x.isLocked
  THEN /\ x.tracked /\ lockedAt[c] \in 0..now /\ x.lockoutUntil = lockedAt[c] + Lockout
       /\ x.lastRequestTime <= lockedAt[c]
  ELSE lockedAt[c] = Never \/ lockedAt[c] + Lockout <= now

\* A refused client is locked out, and was told no time before the end of it.
ToldInTime(c) ==
  retryAt[c] # Never =>
    /\ entries[c].tracked /\ entries[c].isLocked
    /\ retryAt[c] >= entries[c].lockoutUntil

IInv ==
  /\ Typed
  /\ \A c \in Clients : Past(entries[c]) /\ Locked(c) /\ ToldInTime(c)

\* A lockout takes half a window or more, and at most one.
HalfWindow == 0 < Lockout /\ Lockout <= Window /\ Window <= 2 * Lockout

\* What entry x keeps of its client's requests, of which h[t] came from time t
\* on: the last of them, and no more than there were since its window began.
Counted(x, h) ==
  /\ ~x.tracked => \A t \in 0..MaxTime : h[t] = 0
  /\ \A t \in 0..MaxTime : h[t] > 0 => t <= x.lastRequestTime
  /\ 0 < x.lastRequestTime /\ now - Window <= x.lastRequestTime
       => h[x.lastRequestTime] > 0
  /\ ~x.isLocked =>
       /\ x.lastRequestTime <= x.windowStart + Window
       /\ \A t \in 0..MaxTime :
            now - Window <= t /\ t <= x.windowStart => x.requestCount <= h[t]

\* At most m requests came since the window began, or the lockout, m more in a
\* lockout's time before that, and as many again in another.
Start(x) == IF x.isLocked THEN x.lockoutUntil - Lockout ELSE x.windowStart
Bounded(x, h, m) ==
  LET n == IF x.isLocked THEN m ELSE x.requestCount
  IN  /\ x.requestCount <= m
      /\ \A t \in 0..MaxTime :
           /\ Start(x) <= t => h[t] <= n
           /\ Start(x) - Lockout <= t => h[t] <= n + m
           /\ Start(x) - 2 * Lockout <= t => h[t] <= n + 2 * m

CountInv ==
  \A c \in Clients :
    /\ \A t \in 0..MaxTime : t < now - Window => allowed[c][t] = 0
    /\ Counted(entries[c], allowed[c])
    /\ \A d \in Endpoints :
         MostGenerous(d) => Bounded(entries[c], allowed[c], MaxPerWindow[d])

----------------------------------------------------------------------------
\* Constants, and the clock as long as it does not wrap.

LEMMA Constants ==
  /\ {MAX_IPS, Window, Lockout, MaxTime} \subseteq Nat
  /\ Second \in Nat \ {0} /\ Modulus \in Nat \ {0}
  /\ \A e \in Endpoints : MaxPerWindow[e] \in Nat \ {0} /\ MinInterval[e] \in 0..Lockout
BY LimiterConstants

LEMMA Small == ASSUME NEW a \in Nat, a < Modulus PROVE a % Modulus = a
BY Constants

LEMMA Clock ==
  ASSUME NoWrap, Typed
  PROVE  /\ millis = now
         /\ (millis + Lockout) % Modulus = now + Lockout
         /\ \A t \in 0..now : Since(t) = now - t
<1>1. now \in Nat /\ now + Lockout \in Nat /\ now + Lockout < Modulus /\ now < Modulus
  BY Constants DEF NoWrap, Typed
<1>2. millis = now
  BY <1>1, Small DEF millis
<1>3. (millis + Lockout) % Modulus = now + Lockout
  BY <1>1, <1>2, Small
<1>4. ASSUME NEW t \in 0..now PROVE Since(t) = now - t
  <2>1. now - t \in Nat /\ now - t < Modulus
    BY <1>1, <1>4, Constants
  <2> QED BY <1>2, <2>1, Small DEF Since
<1> QED BY <1>2, <1>3, <1>4

\* Seconds are rounded up: nobody is told to come back too early.
LEMMA RoundedUp ==
  ASSUME NEW r \in Nat
  PROVE  /\ ((r + Second - 1) \div Second) * Second >= r
         /\ ((r + Second - 1) \div Second) * Second \in Int
BY Constants

----------------------------------------------------------------------------
\* What the parts of checkRateLimit make of an entry.

LEMMA Found ==
  ASSUME NoWrap, IInv, NEW c \in Clients
  PROVE  LET x == FindOrCreate(c) IN
         /\ x \in Entry /\ x.tracked /\ Past(x)
         /\ x.isLocked => entries[c].tracked /\ x = entries[c]
         /\ entries[c].tracked => x = entries[c]
         /\ ~x.isLocked => lockedAt[c] = Never \/ lockedAt[c] + Lockout <= now
<1>1. CASE entries[c].tracked
  BY <1>1 DEF FindOrCreate, IInv, Typed, Locked
<1>2. CASE ~entries[c].tracked
  <2>1. FindOrCreate(c) = [tracked |-> TRUE, lastRequestTime |-> 0, requestCount |-> 0,
                           windowStart |-> now, isLocked |-> FALSE, lockoutUntil |-> 0]
    BY <1>2, Clock DEF FindOrCreate, Free, IInv
  <2>2. lockedAt[c] = Never \/ lockedAt[c] + Lockout <= now
    BY <1>2 DEF IInv, Locked
  <2> QED BY <1>2, <2>1, <2>2 DEF Entry, Past, IInv, Typed
<1> QED BY <1>1, <1>2

\* After Unlocked: not locked, and a lockout that has ended has emptied it.
LEMMA AfterUnlock ==
  ASSUME NoWrap, IInv, NEW x \in Entry, x.tracked, Past(x)
  PROVE  LET y == Unlocked(x) IN
         /\ y \in Entry /\ y.tracked /\ ~y.isLocked /\ Past(y)
         /\ y.lastRequestTime = x.lastRequestTime
         /\ x.isLocked => y.requestCount = 0
<1>1. now \in Nat /\ millis = now
  BY Clock, Constants DEF IInv, Typed
<1>2. CASE x.isLocked
  <2>1. Unlocked(x) = [tracked |-> TRUE, lastRequestTime |-> x.lastRequestTime,
                       requestCount |-> 0, windowStart |-> now, isLocked |-> FALSE,
                       lockoutUntil |-> x.lockoutUntil]
    BY <1>1, <1>2 DEF Unlocked, Entry
  <2> QED BY <1>1, <2>1 DEF Entry, Past
<1>3. CASE ~x.isLocked
  BY <1>3 DEF Unlocked
<1> QED BY <1>2, <1>3

LEMMA AfterRoll ==
  ASSUME NoWrap, IInv, NEW y \in Entry, y.tracked, ~y.isLocked, Past(y)
  PROVE  LET z == Rolled(y) IN
         /\ z \in Entry /\ z.tracked /\ ~z.isLocked /\ Past(z)
         /\ z.lastRequestTime = y.lastRequestTime
         /\ y.requestCount = 0 => z.requestCount = 0
<1>1. now \in Nat /\ millis = now
  BY Clock, Constants DEF IInv, Typed
<1>2. CASE Since(y.windowStart) > Window
  <2>1. Rolled(y) = [tracked |-> TRUE, lastRequestTime |-> y.lastRequestTime,
                     requestCount |-> 0, windowStart |-> now, isLocked |-> FALSE,
                     lockoutUntil |-> y.lockoutUntil]
    BY <1>1, <1>2 DEF Rolled, Entry
  <2> QED BY <1>1, <2>1 DEF Entry, Past
<1>3. CASE ~(Since(y.windowStart) > Window)
  BY <1>3 DEF Rolled
<1> QED BY <1>2, <1>3

LEMMA AfterTrigger ==
  ASSUME NoWrap, IInv, NEW y \in Entry, y.tracked, ~y.isLocked, Past(y)
  PROVE  LET z == triggerLockout(y) IN
         /\ z \in Entry /\ z.tracked /\ z.isLocked /\ Past(z)
         /\ z.lastRequestTime = y.lastRequestTime
         /\ z.lockoutUntil = now + Lockout
<1>1. now \in Nat /\ (millis + Lockout) % Modulus = now + Lockout /\ Lockout \in Nat
  BY Clock, Constants DEF IInv, Typed
<1>2. triggerLockout(y) = [tracked |-> TRUE, lastRequestTime |-> y.lastRequestTime,
                           requestCount |-> 0, windowStart |-> y.windowStart,
                           isLocked |-> TRUE, lockoutUntil |-> now + Lockout]
  <2> DEFINE until == (millis + LockoutTime(y)) % Modulus
  <2>1. triggerLockout(y) = [y EXCEPT !.isLocked = TRUE, !.requestCount = 0,
                                      !.lockoutUntil = until]
    BY DEF triggerLockout
  <2>2. until = now + Lockout
    BY <1>1 DEF LockoutTime
  <2> HIDE DEF until
  <2> QED BY <2>1, <2>2 DEF Entry
<1> QED BY <1>1, <1>2 DEF Entry, Past

\* A refused client is told at least the time its lockout has left.
LEMMA RetryLate ==
  ASSUME NoWrap, IInv, NEW x \in Entry, x.isLocked
  PROVE  now + RetryAfter(x) \in Int /\ now + RetryAfter(x) >= x.lockoutUntil
<1>1. now \in Nat /\ millis = now /\ x.lockoutUntil \in Nat
  BY Clock, Constants DEF IInv, Typed, Entry
<1>2. /\ LockoutTimeRemaining(x) \in Nat
      /\ now + LockoutTimeRemaining(x) >= x.lockoutUntil
  BY <1>1 DEF LockoutTimeRemaining, LockedOut
<1>3. RetryAfter(x) \in Int /\ RetryAfter(x) >= LockoutTimeRemaining(x)
  BY <1>2, RoundedUp DEF RetryAfter
<1> HIDE DEF LockoutTimeRemaining, RetryAfter
<1> QED BY <1>1, <1>2, <1>3

----------------------------------------------------------------------------
LEMMA Initially == Init => IInv
<1> SUFFICES ASSUME Init PROVE IInv
  OBVIOUS
<1>1. now = 0 /\ MaxTime \in Nat
  BY Constants DEF Init
<1>2. Free \in Entry
  BY DEF Free, Entry
<1>3. Typed
  BY <1>1, <1>2 DEF Init, Typed, Never
<1> QED BY <1>1, <1>3 DEF Init, IInv, Past, Locked, ToldInTime, Free, Never

LEMMA RefusedStep ==
  ASSUME NoWrap, IInv, NEW c \in Clients, NEW e \in Endpoints, RefuseLocked(c, e)
  PROVE  IInv'
<1>1. LockedOut(FindOrCreate(c))
  BY DEF RefuseLocked, Verdict
<1>2. entries[c] \in Entry /\ entries[c].isLocked /\ entries[c].tracked
  BY <1>1, Found DEF LockedOut, IInv, Typed
<1>3. now + RetryAfter(entries[c]) \in Int /\
      now + RetryAfter(entries[c]) >= entries[c].lockoutUntil
  BY <1>2, RetryLate
<1>4. UNCHANGED <<now, entries, lockedAt, allowed>>
  BY DEF RefuseLocked
<1>5. retryAt' = [retryAt EXCEPT ![c] = now + RetryAfter(entries[c])]
  BY DEF RefuseLocked
<1>6. Typed'
  BY <1>3, <1>4, <1>5 DEF IInv, Typed
<1>7. ASSUME NEW d \in Clients PROVE (Past(entries[d]) /\ Locked(d))'
  BY <1>4 DEF IInv, Past, Locked
<1>8. ASSUME NEW d \in Clients PROVE ToldInTime(d)'
  <2>1. CASE d = c
    BY <1>2, <1>3, <1>4, <1>5, <2>1 DEF IInv, Typed, ToldInTime
  <2>2. CASE d # c
    BY <1>4, <1>5, <2>2 DEF IInv, Typed, ToldInTime
  <2> QED BY <2>1, <2>2
<1> QED BY <1>6, <1>7, <1>8 DEF IInv

LEMMA LockOutStep ==
  ASSUME NoWrap, IInv, NEW c \in Clients, NEW e \in Endpoints, LockOut(c, e)
  PROVE  IInv'
<1> DEFINE y == Unlocked(FindOrCreate(c))
           w == IF Verdict(c, e) = "tooMany" THEN Rolled(y) ELSE y
           z == triggerLockout(w)
<1>1. w \in Entry /\ w.tracked /\ ~w.isLocked /\ Past(w)
  BY Found, AfterUnlock, AfterRoll
<1>2. /\ z \in Entry /\ z.tracked /\ z.isLocked /\ Past(z)
      /\ z.lastRequestTime = w.lastRequestTime /\ z.lockoutUntil = now + Lockout
  <2> HIDE DEF w
  <2> QED BY <1>1, AfterTrigger
<1>3. now + RetryAfter(z) \in Int /\ now + RetryAfter(z) >= z.lockoutUntil
  <2> HIDE DEF z
  <2> QED BY <1>2, RetryLate
<1>4. /\ entries' = [entries EXCEPT ![c] = z]
      /\ retryAt' = [retryAt EXCEPT ![c] = now + RetryAfter(z)]
      /\ lockedAt' = [lockedAt EXCEPT ![c] = now]
      /\ UNCHANGED <<now, allowed>>
  BY DEF LockOut
<1> HIDE DEF z, w, y
<1>5. Typed'
  BY <1>2, <1>3, <1>4 DEF IInv, Typed
<1>6. ASSUME NEW d \in Clients PROVE (Past(entries[d]) /\ Locked(d) /\ ToldInTime(d))'
  <2>1. CASE d = c
    <3>1. entries'[d] = z /\ retryAt'[d] = now + RetryAfter(z) /\ lockedAt'[d] = now
      BY <1>4, <2>1 DEF IInv, Typed
    <3>2. z.lastRequestTime <= now /\ now' = now /\ now \in Nat
      BY <1>2, <1>4, Constants DEF Past, IInv, Typed
    <3> QED BY <1>2, <1>3, <3>1, <3>2 DEF Past, Locked, ToldInTime
  <2>2. CASE d # c
    <3>1. entries'[d] = entries[d] /\ retryAt'[d] = retryAt[d] /\ lockedAt'[d] = lockedAt[d]
      BY <1>4, <2>2 DEF IInv, Typed
    <3> QED BY <1>4, <3>1 DEF IInv, Past, Locked, ToldInTime
  <2> QED BY <2>1, <2>2
<1> QED BY <1>5, <1>6 DEF IInv

LEMMA OneMoreTyped ==
  ASSUME Typed, NEW c \in Clients
  PROVE  OneMore(allowed[c]) \in [0..MaxTime -> Nat]
<1> SUFFICES ASSUME NEW t \in 0..MaxTime
             PROVE  (IF now - Window <= t /\ t <= now THEN allowed[c][t] + 1
                     ELSE allowed[c][t]) \in Nat
  BY DEF OneMore
<1>1. allowed[c][t] \in Nat
  BY DEF Typed
<1> QED BY <1>1

LEMMA AllowStep ==
  ASSUME NoWrap, IInv, NEW c \in Clients, NEW e \in Endpoints, Allow(c, e)
  PROVE  IInv'
<1> DEFINE x == FindOrCreate(c)
           w == Rolled(Unlocked(x))
           z == [w EXCEPT !.lastRequestTime = millis, !.requestCount = @ + 1]
<1>1. w \in Entry /\ w.tracked /\ ~w.isLocked /\ Past(w)
  BY Found, AfterUnlock, AfterRoll
<1>2. now \in Nat /\ millis = now
  BY Clock, Constants DEF IInv, Typed
<1>3. z \in Entry /\ ~z.isLocked /\ Past(z)
  <2> DEFINE n == w.requestCount + 1
  <2>1. z = [w EXCEPT !.lastRequestTime = now, !.requestCount = n] /\ n \in Nat
    <3> HIDE DEF w
    <3> QED BY <1>1, <1>2 DEF Entry
  <2> HIDE DEF w, z, n
  <2>2. z \in Entry
    BY <1>1, <1>2, <2>1 DEF Entry
  <2>3. z.lastRequestTime = now /\ z.windowStart = w.windowStart /\ z.isLocked = w.isLocked
    BY <1>1, <2>1 DEF Entry
  <2> QED BY <1>1, <1>2, <2>2, <2>3 DEF Past
<1>4. /\ entries' = [entries EXCEPT ![c] = z]
      /\ retryAt' = [retryAt EXCEPT ![c] = Never]
      /\ allowed' = [allowed EXCEPT ![c] = OneMore(@)]
      /\ UNCHANGED <<now, lockedAt>>
  BY DEF Allow
<1>5. lockedAt[c] = Never \/ lockedAt[c] + Lockout <= now
  <2>1. ~LockedOut(x)
    BY DEF Allow, Verdict
  <2>2. CASE x.isLocked
    <3>1. x = entries[c] /\ ~(now < x.lockoutUntil)
      BY <1>2, <2>1, <2>2, Found DEF LockedOut
    <3>2. x.lockoutUntil = lockedAt[c] + Lockout /\ lockedAt[c] \in 0..now
      BY <2>2, <3>1 DEF IInv, Locked
    <3> QED BY <1>2, <3>1, <3>2, Constants
  <2>3. CASE ~x.isLocked
    BY <2>3, Found
  <2> QED BY <2>2, <2>3
<1> HIDE DEF z, w, x
<1>6. Typed'
  BY <1>3, <1>4, OneMoreTyped DEF IInv, Typed, Never
<1>7. ASSUME NEW d \in Clients PROVE (Past(entries[d]) /\ Locked(d) /\ ToldInTime(d))'
  <2>1. CASE d = c
    <3>1. entries'[d] = z /\ retryAt'[d] = Never /\ lockedAt'[d] = lockedAt[d]
      BY <1>4, <2>1 DEF IInv, Typed
    <3> QED BY <1>3, <1>4, <1>5, <2>1, <3>1 DEF Past, Locked, ToldInTime
  <2>2. CASE d # c
    <3>1. entries'[d] = entries[d] /\ retryAt'[d] = retryAt[d] /\ lockedAt'[d] = lockedAt[d]
      BY <1>4, <2>2 DEF IInv, Typed
    <3> QED BY <1>4, <3>1 DEF IInv, Past, Locked, ToldInTime
  <2> QED BY <2>1, <2>2
<1> QED BY <1>6, <1>7 DEF IInv

LEMMA TickStep == IInv /\ Tick => IInv'
<1> SUFFICES ASSUME IInv, Tick PROVE IInv'
  OBVIOUS
<1>1. now \in Nat /\ now' = now + 1 /\ now' \in 0..MaxTime
  BY Constants DEF Tick, IInv, Typed
<1>2. UNCHANGED <<entries, lockedAt, retryAt>>
  BY DEF Tick
<1>3. allowed' \in [Clients -> [0..MaxTime -> Nat]]
  BY DEF Tick, IInv, Typed
<1>4. Typed'
  BY <1>1, <1>2, <1>3 DEF IInv, Typed
<1>5. ASSUME NEW d \in Clients PROVE (Past(entries[d]) /\ Locked(d) /\ ToldInTime(d))'
  BY <1>1, <1>2, Constants DEF IInv, Typed, Entry, Past, Locked, ToldInTime
<1> QED BY <1>4, <1>5 DEF IInv

LEMMA NextStep == NoWrap /\ IInv /\ [Next]_vars => IInv'
<1>1. IInv /\ UNCHANGED vars => IInv'
  BY DEF vars, IInv, Typed, Past, Locked, ToldInTime
<1>2. ASSUME NEW c \in Clients, NEW e \in Endpoints, RefuseFull(c, e) PROVE UNCHANGED vars
  BY <1>2 DEF RefuseFull
<1> QED BY <1>1, <1>2, RefusedStep, LockOutStep, AllowStep, TickStep DEF Next, checkRateLimit

LEMMA Invariance == NoWrap /\ Spec => []IInv
<1>1. ASSUME NoWrap PROVE Spec => []IInv
  <2>1. IInv /\ [Next]_vars => IInv'
    BY <1>1, NextStep
  <2> QED BY Initially, <2>1, PTL DEF Spec
<1> QED BY <1>1

----------------------------------------------------------------------------
\* The requests of a window.  Each part of checkRateLimit keeps Counted and
\* Bounded of the entry it is given.

History == [0..MaxTime -> Nat]

LEMMA Numbers ==
  ASSUME IInv
  PROVE  /\ now \in 0..MaxTime /\ Window \in Nat /\ Lockout \in Nat /\ MaxTime \in Nat
         /\ allowed \in [Clients -> History]
BY Constants DEF IInv, Typed, History

LEMMA FoundCounts ==
  ASSUME NoWrap, IInv, CountInv, NEW c \in Clients
  PROVE  /\ Counted(FindOrCreate(c), allowed[c])
         /\ \A d \in Endpoints :
              MostGenerous(d) => Bounded(FindOrCreate(c), allowed[c], MaxPerWindow[d])
<1> DEFINE h == allowed[c]
           x == FindOrCreate(c)
<1>1. h \in History
  BY Numbers
<1>2. CASE entries[c].tracked
  BY <1>2 DEF FindOrCreate, CountInv
<1>3. CASE ~entries[c].tracked
  <2>1. x = [tracked |-> TRUE, lastRequestTime |-> 0, requestCount |-> 0,
             windowStart |-> now, isLocked |-> FALSE, lockoutUntil |-> 0]
    BY <1>3, Clock DEF FindOrCreate, Free, IInv
  <2>2. \A t \in 0..MaxTime : h[t] = 0
    BY <1>3 DEF CountInv, Counted
  <2>3. x.tracked /\ ~x.isLocked /\ x.lastRequestTime = 0 /\ x.requestCount = 0
        /\ x.windowStart = now
    BY <2>1
  <2> HIDE DEF x, h
  <2>4. Counted(x, h)
    BY <2>2, <2>3, Numbers DEF Counted
  <2>5. ASSUME NEW d \in Endpoints PROVE Bounded(x, h, MaxPerWindow[d])
    <3>1. MaxPerWindow[d] \in Nat
      BY Constants
    <3> QED BY <2>2, <2>3, <3>1, Numbers DEF Bounded
  <2> QED BY <2>4, <2>5 DEF x, h
<1> QED BY <1>2, <1>3

\* An entry as it is when checkRateLimit gets past the lockout.
Over(x) ==
  x.isLocked => x.lockoutUntil <= now /\ x.lastRequestTime <= x.lockoutUntil - Lockout

LEMMA UnlockCounts ==
  ASSUME NoWrap, HalfWindow, IInv, NEW x \in Entry, x.tracked, Past(x), Over(x),
         NEW h \in History, Counted(x, h)
  PROVE  /\ Counted(Unlocked(x), h)
         /\ \A m \in Nat : Bounded(x, h, m) => Bounded(Unlocked(x), h, m)
<1> DEFINE y == Unlocked(x)
<1>1. now \in 0..MaxTime /\ Window \in Nat /\ Lockout \in Nat /\ millis = now
  BY Numbers, Clock DEF IInv
<1>2. CASE x.isLocked
  <2>1. y = [tracked |-> TRUE, lastRequestTime |-> x.lastRequestTime, requestCount |-> 0,
             windowStart |-> now, isLocked |-> FALSE, lockoutUntil |-> x.lockoutUntil]
    BY <1>1, <1>2 DEF Unlocked, Entry
  <2>2. /\ y.tracked /\ ~y.isLocked /\ y.requestCount = 0 /\ y.windowStart = now
        /\ y.lastRequestTime = x.lastRequestTime
    BY <2>1
  <2>3. /\ x.lockoutUntil \in Nat /\ x.lastRequestTime \in Nat
        /\ x.lockoutUntil <= now /\ x.lastRequestTime <= x.lockoutUntil - Lockout
    BY <1>2 DEF Over, Entry
  <2>4. \A t \in 0..MaxTime : h[t] \in Nat
    BY DEF History
  <2> HIDE DEF y
  <2>5. Counted(y, h)
    BY <1>1, <2>2, <2>3, <2>4 DEF Counted, Past
  <2>6. ASSUME NEW m \in Nat, Bounded(x, h, m) PROVE Bounded(y, h, m)
    <3> SUFFICES ASSUME NEW t \in 0..MaxTime
                 PROVE  /\ now <= t => h[t] <= 0
                        /\ now - Lockout <= t => h[t] <= m
                        /\ now - 2 * Lockout <= t => h[t] <= 2 * m
      BY <2>2, <1>1 DEF Bounded, Start
    <3>1. /\ x.lockoutUntil - Lockout <= t => h[t] <= m
          /\ x.lockoutUntil - Lockout - Lockout <= t => h[t] <= m + m
      BY <1>2, <2>6 DEF Bounded, Start
    <3>2. h[t] > 0 => t <= x.lastRequestTime
      BY DEF Counted
    <3>3. h[t] \in Nat
      BY <2>4
    <3> QED BY <1>1, <2>3, <3>1, <3>2, <3>3 DEF HalfWindow
  <2> QED BY <2>5, <2>6 DEF y
<1>3. CASE ~x.isLocked
  BY <1>3 DEF Unlocked
<1> QED BY <1>2, <1>3

LEMMA RollCounts ==
  ASSUME NoWrap, HalfWindow, IInv, NEW y \in Entry, y.tracked, ~y.isLocked, Past(y),
         NEW h \in History, Counted(y, h), \A t \in 0..MaxTime : t < now - Window => h[t] = 0
  PROVE  /\ Counted(Rolled(y), h) /\ now <= Rolled(y).windowStart + Window
         /\ \A m \in Nat : Bounded(y, h, m) => Bounded(Rolled(y), h, m)
<1> DEFINE z == Rolled(y)
<1>1. now \in 0..MaxTime /\ Window \in Nat /\ Lockout \in Nat /\ millis = now
  BY Numbers, Clock DEF IInv
<1>2. y.windowStart \in 0..now /\ y.lastRequestTime \in 0..now /\ y.requestCount \in Nat
  BY <1>1 DEF Entry, Past
<1>3. Since(y.windowStart) = now - y.windowStart
  BY <1>2, Clock DEF IInv
<1>4. CASE Since(y.windowStart) > Window
  <2>1. z = [tracked |-> TRUE, lastRequestTime |-> y.lastRequestTime, requestCount |-> 0,
             windowStart |-> now, isLocked |-> FALSE, lockoutUntil |-> y.lockoutUntil]
    BY <1>1, <1>4 DEF Rolled, Entry
  <2>2. /\ z.tracked /\ ~z.isLocked /\ z.requestCount = 0 /\ z.windowStart = now
        /\ z.lastRequestTime = y.lastRequestTime
    BY <2>1
  <2>3. y.windowStart + Window < now
    BY <1>1, <1>2, <1>3, <1>4
  <2>4. \A t \in 0..MaxTime : h[t] \in Nat
    BY DEF History
  <2>5. y.lastRequestTime < now
    BY <1>1, <1>2, <2>3 DEF Counted
  <2> HIDE DEF z
  <2>6. Counted(z, h) /\ now <= z.windowStart + Window
    BY <1>1, <1>2, <2>2, <2>4 DEF Counted
  <2>7. ASSUME NEW m \in Nat, Bounded(y, h, m) PROVE Bounded(z, h, m)
    <3> SUFFICES ASSUME NEW t \in 0..MaxTime
                 PROVE  /\ now <= t => h[t] <= 0
                        /\ h[t] <= m /\ h[t] <= 2 * m
      BY <2>2, <1>1 DEF Bounded, Start
    <3>1. y.windowStart <= t => h[t] <= y.requestCount
      BY <2>7 DEF Bounded, Start
    <3>2. h[t] > 0 => t <= y.lastRequestTime
      BY DEF Counted
    <3>3. h[t] \in Nat /\ y.requestCount <= m
      BY <2>4, <2>7 DEF Bounded
    <3>4. t < now - Window => h[t] = 0
      OBVIOUS
    <3> QED BY <1>1, <1>2, <2>3, <2>5, <3>1, <3>2, <3>3, <3>4
  <2> QED BY <2>6, <2>7 DEF z
<1>5. CASE ~(Since(y.windowStart) > Window)
  <2>1. z = y /\ now <= y.windowStart + Window
    BY <1>1, <1>2, <1>3, <1>5 DEF Rolled
  <2> QED BY <2>1
<1> QED BY <1>4, <1>5

LEMMA TriggerCounts ==
  ASSUME NoWrap, IInv, NEW y \in Entry, y.tracked, ~y.isLocked, Past(y),
         NEW h \in History, Counted(y, h)
  PROVE  /\ Counted(triggerLockout(y), h)
         /\ \A m \in Nat : Bounded(y, h, m) => Bounded(triggerLockout(y), h, m)
<1> DEFINE z == triggerLockout(y)
<1>1. /\ z \in Entry /\ z.tracked /\ z.isLocked
      /\ z.lastRequestTime = y.lastRequestTime /\ z.lockoutUntil = now + Lockout
  BY AfterTrigger
<1>2. z.requestCount = 0
  BY DEF triggerLockout, Entry
<1>3. now \in 0..MaxTime /\ Window \in Nat /\ Lockout \in Nat
  BY Numbers
<1>4. y.windowStart \in 0..now /\ y.requestCount \in Nat
  BY <1>3 DEF Entry, Past
<1> HIDE DEF z
<1>5. Counted(z, h)
  BY <1>1 DEF Counted
<1>6. ASSUME NEW m \in Nat, Bounded(y, h, m) PROVE Bounded(z, h, m)
  <2> SUFFICES ASSUME NEW t \in 0..MaxTime
               PROVE  /\ now <= t => h[t] <= m
                      /\ now - Lockout <= t => h[t] <= m + m
                      /\ now - 2 * Lockout <= t => h[t] <= m + 2 * m
    BY <1>1, <1>2, <1>3 DEF Bounded, Start
  <2>1. /\ y.windowStart <= t => h[t] <= y.requestCount
        /\ y.windowStart - Lockout <= t => h[t] <= y.requestCount + m
        /\ y.windowStart - 2 * Lockout <= t => h[t] <= y.requestCount + 2 * m
        /\ y.requestCount <= m
    BY <1>6 DEF Bounded, Start
  <2>2. h[t] \in Nat
    BY DEF History
  <2> QED BY <1>3, <1>4, <2>1, <2>2
<1> QED BY <1>5, <1>6 DEF z

LEMMA AllowCounts ==
  ASSUME IInv, NEW w \in Entry, w.tracked, ~w.isLocked, Past(w),
         now <= w.windowStart + Window,
         NEW h \in History, Counted(w, h),
         NEW z \in Entry, z.tracked, ~z.isLocked, z.lastRequestTime = now,
         z.requestCount = w.requestCount + 1, z.windowStart = w.windowStart
  PROVE  /\ Counted(z, OneMore(h))
         /\ \A m \in Nat : Bounded(w, h, m) /\ w.requestCount < m => Bounded(z, OneMore(h), m)
<1> DEFINE k == OneMore(h)
<1>1. now \in 0..MaxTime /\ Window \in Nat /\ Lockout \in Nat
  BY Numbers
<1>2. w.windowStart \in 0..now /\ w.requestCount \in Nat /\ w.lastRequestTime \in 0..now
  BY <1>1 DEF Entry, Past
<1>3. ASSUME NEW t \in 0..MaxTime
      PROVE  /\ h[t] \in Nat
             /\ k[t] = IF now - Window <= t /\ t <= now THEN h[t] + 1 ELSE h[t]
  BY DEF OneMore, History
<1> HIDE DEF k
<1>4. Counted(z, k)
  <2>1. \A t \in 0..MaxTime : k[t] > 0 => t <= now
    BY <1>1, <1>2, <1>3 DEF Counted
  <2>2. k[now] > 0
    BY <1>1, <1>3
  <2>3. ASSUME NEW t \in 0..MaxTime, now - Window <= t, t <= w.windowStart
        PROVE  z.requestCount <= k[t]
    <3>1. w.requestCount <= h[t]
      BY <2>3 DEF Counted
    <3> QED BY <1>1, <1>2, <1>3, <2>3, <3>1
  <2> QED BY <1>1, <2>1, <2>2, <2>3 DEF Counted
<1>5. ASSUME NEW m \in Nat, Bounded(w, h, m), w.requestCount < m PROVE Bounded(z, k, m)
  <2> DEFINE s == w.windowStart
             n == w.requestCount
  <2> SUFFICES ASSUME NEW t \in 0..MaxTime
               PROVE  /\ s <= t => k[t] <= n + 1
                      /\ s - Lockout <= t => k[t] <= n + 1 + m
                      /\ s - 2 * Lockout <= t => k[t] <= n + 1 + 2 * m
    BY <1>2, <1>5 DEF Bounded, Start
  <2>1. /\ s <= t => h[t] <= n
        /\ s - Lockout <= t => h[t] <= n + m
        /\ s - 2 * Lockout <= t => h[t] <= n + 2 * m
    BY <1>5 DEF Bounded, Start
  <2>2. h[t] \in Nat /\ k[t] \in {h[t], h[t] + 1} /\ s \in Nat /\ n \in Nat
    BY <1>2, <1>3
  <2> HIDE DEF s, n
  <2> QED BY <1>1, <2>1, <2>2
<1> QED BY <1>4, <1>5 DEF k

Recorded(x, h) ==
  /\ Counted(x, h)
  /\ \A d \in Endpoints : MostGenerous(d) => Bounded(x, h, MaxPerWindow[d])

\* What a request that is not refused as locked out finds.
LEMMA Admitted ==
  ASSUME NoWrap, HalfWindow, IInv, CountInv, NEW c \in Clients, ~LockedOut(FindOrCreate(c))
  PROVE  LET y == Unlocked(FindOrCreate(c))
             w == Rolled(y)
         IN  /\ \A x \in {y, w} : /\ x \in Entry /\ x.tracked /\ ~x.isLocked /\ Past(x)
                                  /\ Recorded(x, allowed[c])
             /\ now <= w.windowStart + Window
<1> DEFINE h == allowed[c]
           x == FindOrCreate(c)
           y == Unlocked(x)
           w == Rolled(y)
<1>1. h \in History /\ \A t \in 0..MaxTime : t < now - Window => h[t] = 0
  BY Numbers DEF CountInv
<1>2. Recorded(x, h)
  BY FoundCounts DEF Recorded
<1>3. x \in Entry /\ x.tracked /\ Past(x)
  BY Found
<1>4. Over(x)
  <2> SUFFICES ASSUME x.isLocked
               PROVE  x.lockoutUntil <= now /\ x.lastRequestTime <= x.lockoutUntil - Lockout
    BY DEF Over
  <2>1. x = entries[c]
    BY Found
  <2>2. /\ lockedAt[c] \in 0..now /\ x.lockoutUntil = lockedAt[c] + Lockout
        /\ x.lastRequestTime <= lockedAt[c]
    BY <2>1 DEF IInv, Locked
  <2>3. millis = now /\ now \in Nat /\ Lockout \in Nat
    BY Clock, Numbers DEF IInv
  <2>4. ~(now < x.lockoutUntil)
    BY <2>3 DEF LockedOut
  <2> HIDE DEF x
  <2> QED BY <1>3, <2>2, <2>3, <2>4 DEF Entry
<1> HIDE DEF x
<1>5. y \in Entry /\ y.tracked /\ ~y.isLocked /\ Past(y)
  BY <1>3, AfterUnlock
<1>6. Recorded(y, h)
  <2> HIDE DEF h
  <2>1. \A m \in Nat : Bounded(x, h, m) => Bounded(y, h, m)
    BY <1>1, <1>2, <1>3, <1>4, UnlockCounts DEF Recorded
  <2>2. Counted(y, h)
    BY <1>1, <1>2, <1>3, <1>4, UnlockCounts DEF Recorded
  <2> HIDE DEF y
  <2> QED BY <1>2, <2>1, <2>2, Constants DEF Recorded
<1> HIDE DEF y
<1>7. w \in Entry /\ w.tracked /\ ~w.isLocked /\ Past(w)
  BY <1>5, AfterRoll
<1>8. Recorded(w, h) /\ now <= w.windowStart + Window
  <2> HIDE DEF h
  <2>1. \A m \in Nat : Bounded(y, h, m) => Bounded(w, h, m)
    BY <1>1, <1>5, <1>6, RollCounts DEF Recorded
  <2>2. Counted(w, h) /\ now <= w.windowStart + Window
    BY <1>1, <1>5, <1>6, RollCounts DEF Recorded
  <2> HIDE DEF w
  <2> QED BY <1>6, <2>1, <2>2, Constants DEF Recorded
<1> QED BY <1>5, <1>6, <1>7, <1>8 DEF w, y, x

LEMMA CountInitially == Init => CountInv
<1> SUFFICES ASSUME Init, NEW c \in Clients PROVE
      /\ \A t \in 0..MaxTime : t < now - Window => allowed[c][t] = 0
      /\ Recorded(entries[c], allowed[c])
  BY DEF CountInv, Recorded
<1>1. now = 0 /\ Window \in Nat /\ \A t \in 0..MaxTime : allowed[c][t] = 0
  BY Constants DEF Init
<1>2. /\ ~entries[c].tracked /\ ~entries[c].isLocked /\ entries[c].requestCount = 0
      /\ entries[c].lastRequestTime = 0 /\ entries[c].windowStart = 0
  BY DEF Init, Free
<1>3. Counted(entries[c], allowed[c])
  BY <1>1, <1>2 DEF Counted
<1>4. ASSUME NEW d \in Endpoints PROVE Bounded(entries[c], allowed[c], MaxPerWindow[d])
  BY <1>1, <1>2, Constants DEF Bounded, Start
<1> QED BY <1>1, <1>3, <1>4 DEF Recorded

\* Another client's entry and history stay; Counted looks at the clock besides.
LEMMA Others ==
  ASSUME CountInv, UNCHANGED now, NEW d \in Clients,
         UNCHANGED <<entries[d], allowed[d]>>
  PROVE  /\ \A t \in 0..MaxTime : t < now' - Window => allowed'[d][t] = 0
         /\ Recorded(entries[d], allowed[d])'
BY DEF CountInv, Recorded, Counted, Bounded, Start

LEMMA LockOutCounts ==
  ASSUME NoWrap, HalfWindow, IInv, CountInv, NEW c \in Clients, NEW e \in Endpoints,
         LockOut(c, e)
  PROVE  CountInv'
<1> DEFINE y == Unlocked(FindOrCreate(c))
           w == IF Verdict(c, e) = "tooMany" THEN Rolled(y) ELSE y
           z == triggerLockout(w)
           h == allowed[c]
<1>1. ~LockedOut(FindOrCreate(c))
  BY DEF LockOut, Verdict
<1>2. w \in Entry /\ w.tracked /\ ~w.isLocked /\ Past(w) /\ Recorded(w, h)
  BY <1>1, Admitted
<1>3. h \in History /\ allowed \in [Clients -> History]
  BY Numbers
<1>4. entries' = [entries EXCEPT ![c] = z] /\ UNCHANGED <<now, allowed>>
  BY DEF LockOut
<1>5. entries \in [Clients -> Entry]
  BY DEF IInv, Typed
<1> HIDE DEF y, w
<1>6. Recorded(z, h)
  <2> HIDE DEF h
  <2>1. Counted(z, h) /\ \A m \in Nat : Bounded(w, h, m) => Bounded(z, h, m)
    BY <1>2, <1>3, TriggerCounts DEF Recorded
  <2> HIDE DEF z
  <2> QED BY <1>2, <2>1, Constants DEF Recorded
<1> HIDE DEF z
<1>7. ASSUME NEW d \in Clients
      PROVE  /\ \A t \in 0..MaxTime : t < now' - Window => allowed'[d][t] = 0
             /\ Recorded(entries[d], allowed[d])'
  <2>1. CASE d = c
    <3>1. entries'[d] = z /\ allowed'[d] = h
      BY <1>4, <1>5, <2>1
    <3>2. Recorded(entries'[d], allowed'[d])
      BY <1>6, <3>1
    <3> QED BY <1>4, <3>2 DEF CountInv, Recorded, Counted, Bounded, Start
  <2>2. CASE d # c
    BY <1>4, <1>5, <2>2, Others
  <2> QED BY <2>1, <2>2
<1> QED BY <1>7 DEF CountInv, Recorded

LEMMA AllowedCounts ==
  ASSUME NoWrap, HalfWindow, IInv, CountInv, NEW c \in Clients, NEW e \in Endpoints,
         Allow(c, e)
  PROVE  CountInv'
<1> DEFINE w == Rolled(Unlocked(FindOrCreate(c)))
           z == [w EXCEPT !.lastRequestTime = millis, !.requestCount = @ + 1]
           h == allowed[c]
<1>1. ~LockedOut(FindOrCreate(c)) /\ ~TooMany(w, e)
  BY DEF Allow, Verdict
<1>2. /\ w \in Entry /\ w.tracked /\ ~w.isLocked /\ Past(w) /\ Recorded(w, h)
      /\ now <= w.windowStart + Window
  BY <1>1, Admitted
<1>3. h \in History /\ allowed \in [Clients -> History]
  BY Numbers
<1>4. now \in 0..MaxTime /\ now \in Nat /\ Window \in Nat /\ millis = now
  BY Numbers, Clock DEF IInv
<1>5. /\ entries' = [entries EXCEPT ![c] = z] /\ UNCHANGED now
      /\ allowed' = [allowed EXCEPT ![c] = OneMore(h)]
  BY DEF Allow
<1>6. entries \in [Clients -> Entry]
  BY DEF IInv, Typed
<1>7. w.requestCount < MaxPerWindow[e] /\ w.requestCount \in Nat
  <2> HIDE DEF w
  <2> QED BY <1>1, <1>2, Constants DEF TooMany, Entry
<1> HIDE DEF w
<1>8. /\ z \in Entry /\ z.tracked /\ ~z.isLocked /\ z.lastRequestTime = now
      /\ z.requestCount = w.requestCount + 1 /\ z.windowStart = w.windowStart
  <2> DEFINE n == w.requestCount + 1
  <2>1. z = [w EXCEPT !.lastRequestTime = now, !.requestCount = n] /\ n \in Nat
    BY <1>2, <1>4, <1>7 DEF Entry
  <2> HIDE DEF z, n
  <2>2. z \in Entry
    BY <1>2, <1>4, <2>1 DEF Entry
  <2>3. /\ z.lastRequestTime = now /\ z.windowStart = w.windowStart /\ z.requestCount = n
        /\ z.isLocked = w.isLocked /\ z.tracked = w.tracked
    BY <1>2, <2>1 DEF Entry
  <2> QED BY <1>2, <2>2, <2>3 DEF n
<1> HIDE DEF z
<1>9. Recorded(z, OneMore(h))
  <2> HIDE DEF h
  <2>1. /\ Counted(z, OneMore(h))
        /\ \A m \in Nat : Bounded(w, h, m) /\ w.requestCount < m => Bounded(z, OneMore(h), m)
    BY <1>2, <1>3, <1>8, AllowCounts DEF Recorded
  <2>2. ASSUME NEW d \in Endpoints, MostGenerous(d) PROVE Bounded(z, OneMore(h), MaxPerWindow[d])
    <3>1. MaxPerWindow[d] \in Nat /\ w.requestCount < MaxPerWindow[d]
      BY <1>7, <2>2, Constants DEF MostGenerous
    <3> QED BY <1>2, <2>1, <2>2, <3>1 DEF Recorded
  <2> QED BY <2>1, <2>2 DEF Recorded
<1>10. ASSUME NEW d \in Clients
      PROVE  /\ \A t \in 0..MaxTime : t < now' - Window => allowed'[d][t] = 0
             /\ Recorded(entries[d], allowed[d])'
  <2>1. CASE d = c
    <3>1. entries'[d] = z /\ allowed'[d] = OneMore(h)
      BY <1>3, <1>5, <1>6, <2>1
    <3>2. Recorded(entries'[d], allowed'[d])
      BY <1>9, <3>1
    <3>3. ASSUME NEW t \in 0..MaxTime, t < now - Window PROVE allowed'[d][t] = 0
      <4>1. h[t] = 0
        BY <3>3 DEF CountInv
      <4> QED BY <1>4, <3>1, <3>3, <4>1 DEF OneMore
    <3>4. Recorded(entries[d], allowed[d])'
      BY <1>5, <3>2 DEF Recorded, Counted, Bounded, Start
    <3> QED BY <1>5, <3>3, <3>4
  <2>2. CASE d # c
    <3>1. UNCHANGED <<entries[d], allowed[d]>>
      BY <1>3, <1>5, <1>6, <2>2
    <3> QED BY <1>5, <3>1, Others
  <2> QED BY <2>1, <2>2
<1> QED BY <1>10 DEF CountInv, Recorded

LEMMA TickCounts == ASSUME IInv, CountInv, Tick PROVE CountInv'
<1>1. /\ now \in Nat /\ MaxTime \in Nat /\ now < MaxTime /\ now' = now + 1
      /\ Window \in Nat /\ UNCHANGED entries
  BY Numbers DEF Tick
<1> SUFFICES ASSUME NEW c \in Clients
             PROVE  /\ \A t \in 0..MaxTime : t < now' - Window => allowed'[c][t] = 0
                    /\ Recorded(entries[c], allowed[c])'
  BY DEF CountInv, Recorded
<1> DEFINE h == allowed[c]
           k == allowed'[c]
           x == entries[c]
<1>2. ASSUME NEW t \in 0..MaxTime
      PROVE  h[t] \in Nat /\ k[t] = IF t < now + 1 - Window THEN 0 ELSE h[t]
  BY Numbers DEF Tick, History
<1>3. Counted(x, h) /\ \A d \in Endpoints : MostGenerous(d) => Bounded(x, h, MaxPerWindow[d])
  BY DEF CountInv
<1>4. /\ x.lastRequestTime \in 0..now /\ x.windowStart \in 0..now
      /\ x.requestCount \in Nat /\ x.lockoutUntil \in Nat
  BY <1>1 DEF IInv, Typed, Entry, Past
<1>5. entries'[c] = x /\ allowed'[c] = k
  BY <1>1
<1> HIDE DEF h, k, x
<1>6. \A t \in 0..MaxTime : t < now' - Window => k[t] = 0
  BY <1>1, <1>2
<1>7. Counted(entries[c], allowed[c])'
  <2>1. /\ ~x.tracked => \A t \in 0..MaxTime : k[t] = 0
        /\ \A t \in 0..MaxTime : k[t] > 0 => t <= x.lastRequestTime
    BY <1>1, <1>2, <1>3 DEF Counted
  <2>2. 0 < x.lastRequestTime /\ now' - Window <= x.lastRequestTime => k[x.lastRequestTime] > 0
    <3>1. x.lastRequestTime \in 0..MaxTime
      BY <1>1, <1>4
    <3> QED BY <1>1, <1>2, <1>3, <1>4, <3>1 DEF Counted
  <2>3. ~x.isLocked =>
          /\ x.lastRequestTime <= x.windowStart + Window
          /\ \A t \in 0..MaxTime :
               now' - Window <= t /\ t <= x.windowStart => x.requestCount <= k[t]
    BY <1>1, <1>2, <1>3, <1>4 DEF Counted
  <2> QED BY <1>5, <2>1, <2>2, <2>3 DEF Counted
<1>8. ASSUME NEW d \in Endpoints, MostGenerous(d) PROVE Bounded(x, k, MaxPerWindow[d])
  <2>1. MaxPerWindow[d] \in Nat /\ Bounded(x, h, MaxPerWindow[d]) /\ Lockout \in Nat
    BY <1>3, <1>8, Constants
  <2> QED BY <1>1, <1>2, <1>4, <2>1 DEF Bounded, Start
<1>9. \A d \in Endpoints : MostGenerous(d) => Bounded(entries[c], allowed[c], MaxPerWindow[d])'
  BY <1>5, <1>8 DEF MostGenerous, Bounded, Start
<1>10. \A t \in 0..MaxTime : t < now' - Window => allowed'[c][t] = 0
  BY <1>5, <1>6
<1> QED BY <1>7, <1>9, <1>10 DEF Recorded

LEMMA CountStep == NoWrap /\ HalfWindow /\ IInv /\ CountInv /\ [Next]_vars => CountInv'
<1>1. CountInv /\ UNCHANGED <<now, entries, allowed>> => CountInv'
  BY DEF CountInv, Counted, Bounded, Start
<1>2. UNCHANGED vars => UNCHANGED <<now, entries, allowed>>
  BY DEF vars
<1>3. ASSUME NEW c \in Clients, NEW e \in Endpoints, RefuseFull(c, e) \/ RefuseLocked(c, e)
      PROVE  UNCHANGED <<now, entries, allowed>>
  BY <1>3 DEF RefuseFull, RefuseLocked, vars
<1> QED BY <1>1, <1>2, <1>3, LockOutCounts, AllowedCounts, TickCounts DEF Next, checkRateLimit

LEMMA CountInvariance == NoWrap /\ HalfWindow /\ Spec => []CountInv
<1>1. ASSUME NoWrap, HalfWindow PROVE Spec => []CountInv
  <2>1. IInv /\ CountInv /\ [Next]_vars => CountInv'
    BY <1>1, CountStep
  <2>2. Spec => []IInv
    BY <1>1, Invariance
  <2> QED BY CountInitially, <2>1, <2>2, PTL DEF Spec
<1> QED BY <1>1

----------------------------------------------------------------------------
\* A client in the table is refused as locked out from the moment it was locked
\* out for the length of a lockout, by every endpoint alike, and not after.
THEOREM Lasts == ASSUME NoWrap PROVE Spec => []LockoutLasts
<1>1. IInv => LockoutLasts
  <2> SUFFICES ASSUME IInv, NEW c \in Clients, NEW e \in Endpoints, entries[c].tracked
               PROVE  (Verdict(c, e) = "locked") <=>
                        (lockedAt[c] # Never /\ now < lockedAt[c] + Lockout)
    BY DEF LockoutLasts
  <2>1. Verdict(c, e) = "locked" <=> LockedOut(entries[c])
    <3>1. FindOrCreate(c) = entries[c]
      BY DEF FindOrCreate
    <3>2. LockedOut(entries[c]) => Verdict(c, e) = "locked"
      BY <3>1, Zenon DEF Verdict
    <3>3. ~LockedOut(entries[c]) => Verdict(c, e) # "locked"
      BY <3>1 DEF Verdict
    <3> QED BY <3>2, <3>3
  <2>2. millis = now /\ now \in Nat /\ Lockout \in Nat
    BY Clock, Constants DEF IInv, Typed
  <2> QED BY <2>1, <2>2 DEF LockedOut, IInv, Typed, Locked, Never
<1>2. Spec => []IInv
  BY Invariance
<1> QED BY <1>1, <1>2, PTL

\* A client that waits as long as its last refusal said is served.
THEOREM Honoured == ASSUME NoWrap PROVE Spec => []RetryAfterHonoured
<1>1. IInv => RetryAfterHonoured
  <2> SUFFICES ASSUME IInv, NEW c \in Clients, NEW e \in Endpoints,
                      retryAt[c] # Never, now >= retryAt[c]
               PROVE  Verdict(c, e) = "allowed"
    BY DEF RetryAfterHonoured
  <2> DEFINE x == entries[c]
             y == Unlocked(x)
  <2>1. x.tracked /\ x.isLocked /\ retryAt[c] >= x.lockoutUntil
    BY DEF IInv, ToldInTime
  <2>2. /\ x \in Entry /\ Past(x) /\ lockedAt[c] \in 0..now /\ retryAt[c] \in Int
        /\ x.lockoutUntil = lockedAt[c] + Lockout /\ x.lastRequestTime <= lockedAt[c]
    BY <2>1 DEF IInv, Typed, Locked
  <2>3. now \in Nat /\ millis = now /\ FindOrCreate(c) = x
    BY <2>1, Clock, Constants DEF FindOrCreate, IInv, Typed
  <2>4. x.lockoutUntil \in Nat /\ x.lastRequestTime \in 0..now
    BY <2>2, <2>3 DEF Entry
  <2>5. ~LockedOut(x) /\ now - x.lastRequestTime >= Lockout
    BY <2>1, <2>2, <2>3, <2>4, Constants DEF LockedOut
  <2>6. /\ y \in Entry /\ y.tracked /\ ~y.isLocked /\ Past(y)
        /\ y.lastRequestTime = x.lastRequestTime /\ y.requestCount = 0
    BY <2>1, <2>2, AfterUnlock
  <2> HIDE DEF y
  <2>7. ~TooSoon(y, e)
    BY <2>3, <2>4, <2>5, <2>6, Clock, Constants DEF TooSoon, IInv
  <2>8. Rolled(y).requestCount = 0
    BY <2>6, AfterRoll
  <2>9. ~TooMany(Rolled(y), e)
    BY <2>8, Constants DEF TooMany
  <2> QED BY <2>1, <2>3, <2>5, <2>7, <2>9 DEF Verdict, y
<1>2. Spec => []IInv
  BY Invariance
<1> QED BY <1>1, <1>2, PTL

\* A client that keeps to the limits of all endpoints is never refused.
THEOREM Served == ASSUME NoWrap, HalfWindow PROVE Spec => []PoliteServed
<1>1. IInv /\ CountInv => PoliteServed
  <2> SUFFICES ASSUME IInv, CountInv, NEW c \in Clients, NEW e \in Endpoints,
                      entries[c].tracked \/ ~Full,
                      lockedAt[c] = Never \/ now >= lockedAt[c] + Lockout,
                      \A d \in Endpoints : Rested(c, d) /\ InWindow(c) < MaxPerWindow[d]
               PROVE  Verdict(c, e) = "allowed"
    BY DEF PoliteServed
  <2> DEFINE x == FindOrCreate(c)
             y == Unlocked(x)
             w == Rolled(y)
             h == allowed[c]
  <2>1. /\ now \in 0..MaxTime /\ now \in Nat /\ MaxTime \in Nat /\ Window \in Nat
        /\ Lockout \in Nat /\ millis = now
        /\ h \in History /\ MinInterval[e] \in 0..Lockout /\ MaxPerWindow[e] \in Nat \ {0}
    BY Numbers, Clock, Constants DEF IInv
  <2>2. ~LockedOut(x)
    <3> SUFFICES ASSUME x.isLocked PROVE ~(millis < x.lockoutUntil)
      BY DEF LockedOut
    <3>1. lockedAt[c] \in 0..now /\ x.lockoutUntil = lockedAt[c] + Lockout
      BY Found DEF IInv, Locked
    <3> QED BY <2>1, <3>1 DEF Never
  <2>3. x \in Entry /\ x.tracked /\ Past(x) /\ Counted(x, h)
    BY Found, FoundCounts
  <2>4. /\ y \in Entry /\ y.tracked /\ ~y.isLocked /\ Past(y)
        /\ y.lastRequestTime = x.lastRequestTime
    <3> HIDE DEF x
    <3> QED BY <2>3, AfterUnlock
  <2>5. w \in Entry /\ w.tracked /\ ~w.isLocked /\ Past(w) /\ Counted(w, h)
        /\ now <= w.windowStart + Window
    BY <2>2, Admitted DEF Recorded
  <2> HIDE DEF w, y, x
  <2>6. ~TooSoon(y, e)
    <3>1. x.lastRequestTime \in 0..now
      BY <2>1, <2>3 DEF Entry, Past
    <3>2. now - x.lastRequestTime >= MinInterval[e]
      <4>1. CASE x.lastRequestTime = 0
        BY <2>1, <4>1 DEF Rested
      <4>2. CASE 0 < x.lastRequestTime /\ now - Window <= x.lastRequestTime
        <5>1. h[x.lastRequestTime] > 0
          BY <2>3, <4>2 DEF Counted
        <5>2. x.lastRequestTime \in 0..MaxTime
          BY <2>1, <3>1
        <5> QED BY <5>1, <5>2 DEF Rested
      <4>3. CASE x.lastRequestTime < now - Window
        BY <2>1, <3>1, <4>3 DEF HalfWindow
      <4> QED BY <2>1, <3>1, <4>1, <4>2, <4>3
    <3>3. Since(y.lastRequestTime) = now - x.lastRequestTime
      BY <2>4, <3>1, Clock DEF IInv
    <3> QED BY <2>1, <3>1, <3>2, <3>3 DEF TooSoon
  <2>7. ~TooMany(w, e)
    <3> DEFINE t == IF now < Window THEN 0 ELSE now - Window
    <3>1. w.windowStart \in 0..now /\ w.requestCount \in Nat
      BY <2>1, <2>5 DEF Entry, Past
    <3>2. t \in 0..MaxTime /\ now - Window <= t /\ t <= w.windowStart
      BY <2>1, <2>5, <3>1
    <3>3. h[t] < MaxPerWindow[e]
      BY DEF InWindow
    <3>4. h[t] \in Nat
      BY <2>1, <3>2 DEF History
    <3> HIDE DEF t
    <3>5. w.requestCount <= h[t]
      BY <2>5, <3>2 DEF Counted
    <3> QED BY <2>1, <3>1, <3>3, <3>4, <3>5 DEF TooMany
  <2> QED BY <2>2, <2>6, <2>7 DEF Verdict, w, y, x
<1>2. Spec => []IInv /\ []CountInv
  BY Invariance, CountInvariance
<1> QED BY <1>1, <1>2, PTL

\* No client gets through more than three windows' requests in one, however
\* it spaces them and whatever lockouts it takes.
THEOREM Bound == ASSUME NoWrap, HalfWindow PROVE Spec => []RateBounded
<1>1. IInv /\ CountInv => RateBounded
  <2> SUFFICES ASSUME IInv, CountInv, NEW c \in Clients, NEW d \in Endpoints, MostGenerous(d)
               PROVE  InWindow(c) <= 3 * MaxPerWindow[d]
    BY DEF RateBounded
  <2> DEFINE x == entries[c]
             h == allowed[c]
             m == MaxPerWindow[d]
             t == IF now < Window THEN 0 ELSE now - Window
  <2>1. /\ now \in 0..MaxTime /\ now \in Nat /\ MaxTime \in Nat /\ Window \in Nat
        /\ Lockout \in Nat /\ m \in Nat
        /\ h \in History
    BY Numbers, Constants
  <2>2. t \in 0..MaxTime /\ h[t] = InWindow(c) /\ h[t] \in Nat /\ now - Window <= t
    BY <2>1 DEF InWindow, History
  <2>3. Bounded(x, h, m)
    BY DEF CountInv
  <2>4. x \in Entry /\ x.windowStart \in 0..now /\ x.requestCount \in Nat
    BY <2>1 DEF IInv, Typed, Entry, Past
  <2>5. Start(x) \in Int /\ Start(x) <= now
    <3>1. x.isLocked => x.lockoutUntil - Lockout \in 0..now
      BY <2>1 DEF IInv, Locked
    <3> HIDE DEF x
    <3> QED BY <2>1, <2>4, <3>1 DEF Start
  <2>6. Start(x) - 2 * Lockout <= t
    BY <2>1, <2>2, <2>5 DEF HalfWindow
  <2>7. h[t] <= m + 2 * m
    <3> HIDE DEF h, t, m, x
    <3>1. h[t] <= (IF x.isLocked THEN m ELSE x.requestCount) + 2 * m /\ x.requestCount <= m
      BY <2>2, <2>3, <2>6 DEF Bounded
    <3> QED BY <2>1, <2>2, <2>4, <3>1
  <2> HIDE DEF h, t, m
  <2> QED BY <2>1, <2>2, <2>7 DEF m
<1>2. Spec => []IInv /\ []CountInv
  BY Invariance, CountInvariance
<1> QED BY <1>1, <1>2, PTL

----------------------------------------------------------------------------
\* The nonces.

LEMMA NonceSizes ==
  /\ None \notin Nonces /\ MAX_NONCES \in Nat \ {0}
  /\ NONCE_EXPIRY \in Nat /\ CLEANUP_INTERVAL \in Nat
BY NonceConstants

Held ==
  \A s \in Slots : nonces[s].value # None =>
    LET v == nonces[s].value IN
    /\ status[v] # "fresh"
    /\ ~nonces[s].used => status[v] = "issued"
    /\ nonces[s].used /\ status[v] = "issued" => nonces[s].age > NONCE_EXPIRY
    /\ IF nonces[s].age <= NONCE_EXPIRY THEN since[v] = nonces[s].age
                                        ELSE since[v] = NONCE_EXPIRY + 1

OnePlace ==
  \A s, t \in Slots :
    nonces[s].value = nonces[t].value /\ nonces[s].value # None => s = t

Unissued == \A v \in Nonces : status[v] = "fresh" => since[v] = 0

\* A command that carries the value of an empty slot comes too late.
EmptyLate ==
  /\ status[None] = "fresh"
  /\ \A s \in Slots : nonces[s].value = None => nonces[s].age = 2 * NONCE_EXPIRY + 1

NonceInv ==
  /\ TypeOK /\ Held /\ OnePlace /\ Unissued /\ EmptyLate
  /\ SingleUse /\ LiveNonceKept

LEMMA EmptySlot ==
  Empty \in Slot
BY NonceSizes DEF Empty, Slot

LEMMA NonceInitially ==
  NonceInit => NonceInv
<1> SUFFICES ASSUME NonceInit PROVE NonceInv
  OBVIOUS
<1>1. TypeOK
  BY NonceSizes, EmptySlot DEF NonceInit, TypeOK, Slots
<1>2. Held /\ OnePlace /\ Unissued /\ EmptyLate
  BY DEF NonceInit, Held, OnePlace, Unissued, EmptyLate, Empty, Values
<1>3. SingleUse /\ LiveNonceKept
  BY DEF NonceInit, SingleUse, LiveNonceKept, Values
<1> QED BY <1>1, <1>2, <1>3 DEF NonceInv

\* What cleanup leaves of a slot: it empties no slot that could be accepted.
LEMMA CleanedSlots ==
  ASSUME TypeOK
  PROVE  /\ Cleaned \in [Slots -> Slot]
         /\ \A s \in Slots : /\ Cleaned[s] \in {nonces[s], Empty}
                             /\ Valid(nonces[s]) => Cleaned[s] = nonces[s]
BY NonceSizes, EmptySlot DEF TypeOK, Cleaned, Valid, Stale, Slot

LEMMA NonceTick ==
  NonceInv /\ Age => NonceInv'
<1> SUFFICES ASSUME NonceInv, Age PROVE NonceInv'
  OBVIOUS
<1> USE NonceSizes DEF NonceInv
<1>1. \A s \in Slots :
        /\ nonces'[s] \in Slot
        /\ nonces'[s].value = nonces[s].value
        /\ nonces'[s].used = nonces[s].used
        /\ nonces[s].value # None =>
             nonces'[s].age = Up(nonces[s].age, 2 * NONCE_EXPIRY + 1)
  BY DEF Age, Older, TypeOK, Slot, Up
<1>2. \A v \in Nonces : since'[v] = IF status[v] = "fresh" THEN 0
                                    ELSE Up(since[v], NONCE_EXPIRY + 1)
  BY DEF Age
<1>3. TypeOK'
  <2>1. nonces' \in [Slots -> Slot]
    BY <1>1 DEF Age
  <2>2. since' \in [Nonces -> 0..NONCE_EXPIRY + 1]
    BY DEF Age, TypeOK, Up
  <2>3. sinceCleanup' \in 0..CLEANUP_INTERVAL
    BY DEF Age, TypeOK, Up
  <2> QED BY <2>1, <2>2, <2>3 DEF Age, TypeOK
<1>4. Held'
  BY <1>1, <1>2 DEF Held, TypeOK, Slot, Up, Age
<1>5. OnePlace'
  BY <1>1 DEF OnePlace
<1>6. Unissued' /\ SingleUse'
  BY <1>2 DEF Unissued, SingleUse, Age
<1>8. EmptyLate'
  BY DEF EmptyLate, Age, Older
<1>7. LiveNonceKept'
  <2> SUFFICES ASSUME NEW v \in Nonces, status[v] = "issued",
                      since'[v] <= NONCE_EXPIRY, v \notin evicted
               PROVE  \E s \in Slots : nonces'[s].value = v /\ Valid(nonces'[s])
    BY DEF LiveNonceKept, Age
  <2>1. since[v] <= NONCE_EXPIRY
    BY <1>2 DEF Up, TypeOK
  <2>2. PICK s \in Slots : nonces[s].value = v /\ Valid(nonces[s])
    BY <2>1 DEF LiveNonceKept
  <2>3. since[v] = nonces[s].age
    BY <2>2 DEF Held, Valid
  <2>4. nonces'[s].age <= NONCE_EXPIRY
    BY <1>1, <1>2, <2>2, <2>3 DEF Up, TypeOK, Slot
  <2> QED BY <1>1, <2>2, <2>4 DEF Valid
<1> QED BY <1>3, <1>4, <1>5, <1>6, <1>7, <1>8

LEMMA GetNonceStep ==
  ASSUME NEW v \in Nonces
  PROVE  NonceInv /\ GetNonce(v) => NonceInv'
<1> SUFFICES ASSUME NonceInv, GetNonce(v) PROVE NonceInv'
  OBVIOUS
<1> USE NonceSizes DEF NonceInv
<1>1. PICK s \in Slots :
        /\ nonces' = [t \in Slots |-> IF t = s THEN Fresh(v) ELSE Cleaned[t]]
        /\ nextIndex' = After(s)
        /\ evicted' = IF \E t \in Slots : Cleaned[t].value = None THEN evicted
                      ELSE evicted \cup {Cleaned[s].value}
        /\ Target(s)
  BY DEF GetNonce
<1>2. /\ Cleaned \in [Slots -> Slot]
      /\ \A t \in Slots : /\ Cleaned[t] \in {nonces[t], Empty}
                          /\ Valid(nonces[t]) => Cleaned[t] = nonces[t]
  BY CleanedSlots
<1>3. status[v] = "fresh" /\ status' = [status EXCEPT ![v] = "issued"] /\ since' = since
  BY DEF GetNonce
<1>4. since[v] = 0 /\ \A t \in Slots : nonces[t].value # v
  BY <1>3 DEF Unissued, Held
<1>5. TypeOK'
  <2>1. Fresh(v) \in Slot
    BY DEF Fresh, Slot
  <2>2. nonces' \in [Slots -> Slot]
    BY <1>1, <1>2, <2>1
  <2>3. nextIndex' \in Slots
    BY <1>1 DEF After, Slots
  <2>4. evicted' \in SUBSET Nonces
    <3>1. CASE \E t \in Slots : Cleaned[t].value = None
      BY <1>1, <3>1 DEF TypeOK
    <3>2. CASE \A t \in Slots : Cleaned[t].value # None
      <4>1. Cleaned[s].value \in Nonces
        BY <1>2, <3>2 DEF Slot
      <4> QED BY <1>1, <3>2, <4>1 DEF TypeOK
    <3> QED BY <3>1, <3>2
  <2>5. sinceCleanup' \in 0..CLEANUP_INTERVAL
    BY DEF GetNonce, Cleanup, TypeOK
  <2> QED BY <2>2, <2>3, <2>4, <2>5, <1>3 DEF TypeOK
<1>6. \A t \in Slots : \/ nonces'[t] \in {nonces[t], Empty}
                       \/ t = s /\ nonces'[t] = Fresh(v)
  BY <1>1, <1>2
<1>7. Held'
  BY <1>3, <1>4, <1>6 DEF Held, TypeOK, Values, Slot, Fresh, Empty
<1>8. OnePlace'
  BY <1>4, <1>6 DEF OnePlace, Fresh, Empty
<1>9. Unissued' /\ SingleUse'
  BY <1>3 DEF Unissued, SingleUse, TypeOK, Values
<1>11. EmptyLate'
  BY <1>3, <1>6 DEF EmptyLate, Empty, Fresh, TypeOK, Values
<1>10. LiveNonceKept'
  <2> SUFFICES ASSUME NEW w \in Nonces, status'[w] = "issued",
                      since[w] <= NONCE_EXPIRY, w \notin evicted'
               PROVE  \E t \in Slots : nonces'[t].value = w /\ Valid(nonces'[t])
    BY <1>3 DEF LiveNonceKept
  <2>1. CASE w = v
    <3>1. nonces'[s] = Fresh(v)
      BY <1>1
    <3> QED BY <2>1, <3>1 DEF Fresh, Valid
  <2>2. CASE w # v
    <3>1. status[w] = "issued" /\ w \notin evicted
        BY <1>1, <1>3, <2>2 DEF TypeOK, Values
    <3>2. PICK t \in Slots : nonces[t].value = w /\ Valid(nonces[t])
      BY <3>1 DEF LiveNonceKept
    <3>3. Cleaned[t] = nonces[t]
      BY <1>2, <3>2
    <3>4. t # s
      <4>1. SUFFICES ASSUME t = s PROVE FALSE
        OBVIOUS
      <4>2. Cleaned[s].value = w /\ w # None
        BY <3>2, <3>3, <4>1
      <4>3. \A r \in Slots : Cleaned[r].value # None
        BY <1>1, <4>2 DEF Target
      <4> QED BY <1>1, <4>2, <4>3
    <3> QED BY <1>1, <3>2, <3>3, <3>4
  <2> QED BY <2>1, <2>2
<1> QED BY <1>5, <1>7, <1>8, <1>9, <1>10, <1>11

LEMMA CommandStep ==
  ASSUME NEW v \in Nonces
  PROVE  NonceInv /\ Command(v) => NonceInv'
<1> SUFFICES ASSUME NonceInv, Command(v) PROVE NonceInv'
  OBVIOUS
<1> USE NonceSizes DEF NonceInv
<1>1. /\ Cleaned \in [Slots -> Slot]
      /\ \A t \in Slots : /\ Cleaned[t] \in {nonces[t], Empty}
                          /\ Valid(nonces[t]) => Cleaned[t] = nonces[t]
  BY CleanedSlots
<1>2. since' = since /\ evicted' = evicted /\ nextIndex' = nextIndex
  BY DEF Command
<1>3. sinceCleanup' \in 0..CLEANUP_INTERVAL
  BY DEF Command, Cleanup, TypeOK
<1>4. CASE nonces' = Cleaned /\ status' = status
  <2>1. TypeOK'
    BY <1>1, <1>2, <1>3, <1>4 DEF TypeOK
  <2>2. Held' /\ OnePlace'
    BY <1>1, <1>2, <1>4 DEF Held, OnePlace, Empty
  <2>3. Unissued' /\ EmptyLate' /\ SingleUse'
    BY <1>1, <1>2, <1>4 DEF Unissued, EmptyLate, SingleUse, Empty
  <2>4. LiveNonceKept'
    BY <1>1, <1>2, <1>4 DEF LiveNonceKept
  <2> QED BY <2>1, <2>2, <2>3, <2>4
<1>5. ASSUME NEW s \in Slots, Cleaned[s].value = v,
             nonces' = [t \in Slots |-> IF t = s /\ ~Cleaned[t].used
                                                THEN Consumed(Cleaned[t]) ELSE Cleaned[t]],
             status' = IF ~Valid(Cleaned[s]) THEN status
                       ELSE [status EXCEPT ![v] = IF status[v] = "issued"
                                                          THEN "accepted" ELSE "replayed"]
      PROVE  NonceInv'
  <2>1. nonces[s].value = v /\ Cleaned[s] = nonces[s] /\ v # None
    BY <1>1, <1>5 DEF Empty
  <2>2. /\ status[v] # "fresh"
        /\ ~nonces[s].used => status[v] = "issued"
        /\ nonces[s].used /\ status[v] = "issued" => nonces[s].age > NONCE_EXPIRY
        /\ IF nonces[s].age <= NONCE_EXPIRY THEN since[v] = nonces[s].age
                                            ELSE since[v] = NONCE_EXPIRY + 1
    BY <2>1 DEF Held
  <2>3. status' = IF Valid(nonces[s]) THEN [status EXCEPT ![v] = "accepted"] ELSE status
    BY <1>5, <2>1, <2>2 DEF Valid
  <2>4. /\ nonces'[s].value = v /\ nonces'[s].used /\ nonces'[s].age = nonces[s].age
        /\ nonces'[s] \in Slot
    <3>1. nonces[s] \in Slot
      BY DEF TypeOK
    <3>2. CASE nonces[s].used
      BY <3>1, <3>2, <1>5, <2>1
    <3>3. CASE ~nonces[s].used
      <4>1. nonces'[s] = Consumed(nonces[s])
        BY <3>3, <1>5, <2>1
      <4> QED BY <3>1, <4>1, <2>1 DEF Consumed, Slot
    <3> QED BY <3>2, <3>3
  <2>5. \A t \in Slots \ {s} : nonces'[t] = Cleaned[t]
    BY <1>5
  <2>6. TypeOK'
    <3>1. nonces' \in [Slots -> Slot]
      BY <1>1, <1>5, <2>4, <2>5
    <3>2. status' \in [Values -> {"fresh", "issued", "accepted", "replayed", "lost"}]
      BY <2>3 DEF TypeOK
    <3> QED BY <3>1, <3>2, <1>2, <1>3 DEF TypeOK
  <2>7. \A t \in Slots \ {s} : nonces'[t].value # v
    BY <1>1, <2>1, <2>5 DEF OnePlace, Empty
  <2>8. Held'
    <3> SUFFICES ASSUME NEW t \in Slots, nonces'[t].value # None
                 PROVE  LET w == nonces'[t].value IN
                        /\ status'[w] # "fresh"
                        /\ ~nonces'[t].used => status'[w] = "issued"
                        /\ nonces'[t].used /\ status'[w] = "issued" =>
                                   nonces'[t].age > NONCE_EXPIRY
                        /\ IF nonces'[t].age <= NONCE_EXPIRY
                                   THEN since[w] = nonces'[t].age
                                   ELSE since[w] = NONCE_EXPIRY + 1
      BY <1>2 DEF Held
    <3>1. CASE t = s
      BY <3>1, <2>2, <2>3, <2>4 DEF TypeOK, Values, Valid, Slot
    <3>2. CASE t # s
      <4>1. nonces'[t] = nonces[t] /\ status'[nonces[t].value] = status[nonces[t].value]
        BY <3>2, <1>1, <2>3, <2>5, <2>7 DEF Empty, TypeOK
      <4> QED BY <4>1 DEF Held
    <3> QED BY <3>1, <3>2
  <2>9. OnePlace'
    <3> SUFFICES ASSUME NEW q \in Slots, NEW r \in Slots,
                        nonces'[q].value = nonces'[r].value, nonces'[q].value # None
                 PROVE  q = r
      BY DEF OnePlace
    <3>1. nonces[q].value = nonces'[q].value /\ nonces[r].value = nonces'[r].value
      BY <1>1, <2>1, <2>4, <2>5 DEF Empty
    <3> QED BY <3>1 DEF OnePlace
  <2>10. Unissued' /\ SingleUse'
    BY <1>2, <2>2, <2>3 DEF Unissued, SingleUse, TypeOK, Values
  <2>12. EmptyLate'
    BY <1>1, <2>1, <2>3, <2>4, <2>5 DEF EmptyLate, Empty, TypeOK, Values
  <2>11. LiveNonceKept'
    <3> SUFFICES ASSUME NEW w \in Nonces, status'[w] = "issued",
                        since[w] <= NONCE_EXPIRY, w \notin evicted
                 PROVE  \E t \in Slots : nonces'[t].value = w /\ Valid(nonces'[t])
      BY <1>2 DEF LiveNonceKept
    <3>1. status[w] = "issued"
      BY <2>3 DEF TypeOK
    <3>2. PICK t \in Slots : nonces[t].value = w /\ Valid(nonces[t])
      BY <3>1 DEF LiveNonceKept
    <3>3. t # s
      <4>1. SUFFICES ASSUME t = s PROVE FALSE
        OBVIOUS
      <4> QED BY <2>1, <2>3, <3>2, <4>1 DEF TypeOK, Values
    <3> QED BY <1>1, <2>5, <3>2, <3>3
  <2> QED BY <2>6, <2>8, <2>9, <2>10, <2>11, <2>12
<1> QED BY <1>4, <1>5 DEF Command

\* The value of an empty slot is refused, and marks the slot.
LEMMA ZeroStep ==
  ASSUME NonceInv, Command(None)
  PROVE  NonceInv' /\ status' = status
<1> USE NonceSizes DEF NonceInv
<1>1. /\ Cleaned \in [Slots -> Slot]
      /\ \A t \in Slots : /\ Cleaned[t] \in {nonces[t], Empty}
                          /\ Valid(nonces[t]) => Cleaned[t] = nonces[t]
  BY CleanedSlots
<1>2. \A t \in Slots : Cleaned[t].value = None =>
                         Cleaned[t].age = 2 * NONCE_EXPIRY + 1 /\ ~Valid(Cleaned[t])
  BY <1>1 DEF EmptyLate, Empty, Valid
<1>3. /\ nonces' \in [Slots -> Slot]
      /\ \A t \in Slots :
           \/ nonces'[t] = Cleaned[t]
           \/ /\ Cleaned[t].value = None
              /\ nonces'[t] = Consumed(Cleaned[t])
  <2>1. CASE nonces' = Cleaned
    BY <1>1, <2>1
  <2>2. ASSUME NEW s \in Slots, Cleaned[s].value = None,
               nonces' = [t \in Slots |-> IF t = s /\ ~Cleaned[t].used
                                             THEN Consumed(Cleaned[t]) ELSE Cleaned[t]]
        PROVE  <1>3!1 /\ <1>3!2
    <3>1. Consumed(Cleaned[s]) \in Slot
      BY <1>1 DEF Consumed, Slot
    <3> QED BY <1>1, <2>2, <3>1
  <2> QED BY <2>1, <2>2 DEF Command
<1>4. status' = status /\ since' = since /\ evicted' = evicted /\ nextIndex' = nextIndex
  BY <1>2 DEF Command
<1>5. sinceCleanup' \in 0..CLEANUP_INTERVAL
  BY DEF Command, Cleanup, TypeOK
<1>6. \A t \in Slots : \/ nonces'[t] = nonces[t]
                       \/ /\ nonces'[t].value = None
                          /\ nonces'[t].age = 2 * NONCE_EXPIRY + 1
  BY <1>1, <1>2, <1>3 DEF Consumed, Empty
<1>7. TypeOK'
  BY <1>3, <1>4, <1>5 DEF TypeOK
<1>8. Held' /\ OnePlace' /\ Unissued' /\ EmptyLate' /\ SingleUse'
  BY <1>4, <1>6 DEF Held, OnePlace, Unissued, EmptyLate, SingleUse
<1>9. LiveNonceKept'
  <2> SUFFICES ASSUME NEW w \in Nonces, status[w] = "issued",
                      since[w] <= NONCE_EXPIRY, w \notin evicted
               PROVE  \E t \in Slots : nonces'[t].value = w /\ Valid(nonces'[t])
    BY <1>4 DEF LiveNonceKept
  <2>1. PICK t \in Slots : nonces[t].value = w /\ Valid(nonces[t])
    BY DEF LiveNonceKept
  <2>2. nonces'[t] = nonces[t]
    BY <1>1, <1>3, <2>1
  <2> QED BY <2>1, <2>2
<1> QED BY <1>4, <1>7, <1>8, <1>9

LEMMA NonceReboot ==
  NonceInv /\ Reboot => NonceInv'
<1> SUFFICES ASSUME NonceInv, Reboot PROVE NonceInv'
  OBVIOUS
<1> USE NonceSizes DEF NonceInv
<1>1. TypeOK'
  <2>1. nonces' \in [Slots -> Slot]
    BY EmptySlot DEF Reboot
  <2>2. nextIndex' \in Slots
    BY DEF Reboot, Slots
  <2>3. sinceCleanup' \in 0..CLEANUP_INTERVAL
    BY DEF Reboot
  <2>4. status' \in [Values -> {"fresh", "issued", "accepted", "replayed", "lost"}]
    BY DEF Reboot, TypeOK
  <2> QED BY <2>1, <2>2, <2>3, <2>4 DEF Reboot, TypeOK
<1>2. Held' /\ OnePlace' /\ EmptyLate'
  BY DEF Reboot, Held, OnePlace, EmptyLate, Empty, Values
<1>3. Unissued' /\ SingleUse' /\ LiveNonceKept'
  BY DEF Reboot, Unissued, SingleUse, LiveNonceKept, TypeOK, Values
<1> QED BY <1>1, <1>2, <1>3

LEMMA NonceStep ==
  NonceInv /\ [NonceNext]_nonceVars => NonceInv'
<1>1. NonceInv /\ UNCHANGED nonceVars => NonceInv'
  BY DEF NonceInv, nonceVars, TypeOK, Held, OnePlace, Unissued, EmptyLate,
         SingleUse, LiveNonceKept, Valid
<1> QED BY <1>1, NonceTick, NonceReboot, GetNonceStep, CommandStep, ZeroStep
       DEF NonceNext, Values

LEMMA NonceInvariance ==
  NonceSpec => []NonceInv
<1>1. NonceInit => NonceInv
  BY NonceInitially
<1>2. NonceInv /\ [NonceNext]_nonceVars => NonceInv'
  BY NonceStep
<1> QED BY <1>1, <1>2, PTL DEF NonceSpec

\* Every variable keeps its type: the index of the next slot to overwrite
\* never leaves the table, and no clock its range.
THEOREM TypeCorrect ==
  NonceSpec => []TypeOK
<1>1. NonceInv => TypeOK
  BY DEF NonceInv
<1> QED BY <1>1, NonceInvariance, PTL

\* No command is carried out twice on one nonce, for any number of slots and
\* nonces and however cleanups, evictions and commands follow one another; and
\* none on the value of an empty slot, which nobody issued.
THEOREM Once ==
  NonceSpec => []SingleUse
<1>1. NonceInv => SingleUse
  BY DEF NonceInv
<1> QED BY <1>1, NonceInvariance, PTL

\* An issued nonce that no command has used and nothing overwrote stays valid
\* until it expires.
THEOREM Kept ==
  NonceSpec => []LiveNonceKept
<1>1. NonceInv => LiveNonceKept
  BY DEF NonceInv
<1> QED BY <1>1, NonceInvariance, PTL

\* A nonce is accepted only until NONCE_EXPIRY after its issue.
LEMMA CommandInTime ==
  ASSUME NonceInv, NEW c \in Nonces, Command(c), NEW v \in Nonces,
         status'[v] = "accepted", status[v] # "accepted"
  PROVE  since[v] <= NONCE_EXPIRY
<1> USE NonceSizes DEF NonceInv
<1>1. PICK s \in Slots :
        /\ Cleaned[s].value = c
        /\ status' = IF ~Valid(Cleaned[s]) THEN status
                     ELSE [status EXCEPT ![c] = IF status[c] = "issued"
                                                  THEN "accepted" ELSE "replayed"]
  BY DEF Command
<1>2. v = c /\ Valid(Cleaned[s])
  BY <1>1 DEF TypeOK
<1>3. nonces[s].value = v /\ Valid(nonces[s])
  BY <1>1, <1>2, CleanedSlots DEF Empty
<1> QED BY <1>3 DEF Held, Valid

\* No command is accepted on a nonce older than its expiry, though cleanup may
\* leave it in its slot for longer.
THEOREM InTime ==
  NonceSpec => NoLateAcceptance
<1>1. NonceInv /\ [NonceNext]_nonceVars => AcceptedInTime \/ UNCHANGED nonceVars
  <2> SUFFICES ASSUME NonceInv, NonceNext PROVE AcceptedInTime
    OBVIOUS
  <2> SUFFICES ASSUME NEW v \in Nonces, status'[v] = "accepted", status[v] # "accepted"
               PROVE  since[v] <= NONCE_EXPIRY
    BY DEF AcceptedInTime
  <2>1. CASE Age \/ Reboot
    BY <2>1 DEF Age, Reboot, NonceInv, TypeOK, Values
  <2>2. ASSUME NEW c \in Nonces, GetNonce(c) PROVE FALSE
    BY <2>2 DEF GetNonce, NonceInv, TypeOK, Values
  <2>3. ASSUME NEW c \in Nonces, Command(c) PROVE since[v] <= NONCE_EXPIRY
    BY <2>3, CommandInTime
  <2>4. CASE Command(None)
    BY <2>4, ZeroStep
  <2> QED BY <2>1, <2>2, <2>3, <2>4 DEF NonceNext, Values
<1>2. NonceInv /\ [NonceNext]_nonceVars => [AcceptedInTime]_nonceVars
  BY <1>1
<1> QED BY <1>2, NonceInvariance, PTL DEF NonceSpec, NoLateAcceptance
=============================================================================
