---------------------------- MODULE RateLimiter ----------------------------
(***************************************************************************)
(* lib/security/rate_limiter.hpp: one entry per client address, shared by  *)
(* all the endpoints that call checkRateLimit with limits of their own,    *)
(* and what sendJsonError tells a refused client about it.  Every time in  *)
(* an entry is a millis() value, which wraps at Modulus.                   *)
(*                                                                         *)
(* Only the loop task calls the limiter, so a request is one step.         *)
(***************************************************************************)
EXTENDS Integers, FiniteSets

CONSTANTS
  Clients,            \* client addresses
  MAX_IPS,            \* the entries there are
  Endpoints,          \* the endpoints that are limited
  MaxPerWindow,       \* per endpoint: the requests its caller allows
  MinInterval,        \* per endpoint: the interval its caller demands
  Window,             \* WINDOW_SIZE_MS
  Lockout,            \* 30 s
  LOCKOUT_MULTIPLIER, MaxLockout,   \* the backoff's factor and its cap, 1 h
  Second,             \* the unit of retry_after
  Modulus,            \* the values of millis()
  MaxTime             \* bound: the true time

ASSUME LimiterConstants ==
  /\ {MAX_IPS, Window, Lockout, LOCKOUT_MULTIPLIER, MaxLockout, Second, Modulus,
      MaxTime} \subseteq Nat
  /\ MaxPerWindow \in [Endpoints -> Nat \ {0}]
  /\ MinInterval \in [Endpoints -> Nat]
  /\ 0 < Second /\ Window < Modulus
  /\ \A e \in Endpoints : MinInterval[e] <= Lockout

Never == -1

VARIABLES
  now,                \* the true time since boot
  entries,            \* per client: its entry, or Free
  lockedAt,           \* ghost, per client: when it was last locked out
  retryAt,            \* ghost, per client: when it was told to come back
  allowed             \* ghost, per client and time: the requests allowed from
                      \* that time on, while it is at most a window past
vars == <<now, entries, lockedAt, retryAt, allowed>>

millis == now % Modulus
Since(t) == (millis - t) % Modulus

Free == [tracked |-> FALSE, lastRequestTime |-> 0, requestCount |-> 0,
         windowStart |-> 0, isLocked |-> FALSE, lockoutUntil |-> 0]

----------------------------------------------------------------------------
Full == Cardinality({c \in Clients : entries[c].tracked}) >= MAX_IPS

\* findOrCreateEntry, where there is room: a new entry has made no request.
FindOrCreate(c) ==
  IF entries[c].tracked THEN entries[c]
  ELSE [Free EXCEPT !.tracked = TRUE, !.windowStart = millis]

\* Variant of LockedOut: a lockout ends a millisecond early.
MutLockedOut(x) == x.isLocked /\ millis + 1 < x.lockoutUntil

LockedOut(x) == x.isLocked /\ millis < x.lockoutUntil

\* A lockout that is over ends with the first request after it.
Unlocked(x) ==
  IF x.isLocked
  THEN [x EXCEPT !.isLocked = FALSE, !.requestCount = 0, !.windowStart = millis]
  ELSE x

TooSoon(x, e) == Since(x.lastRequestTime) < MinInterval[e]

\* Variant of Rolled: the window restarts, the count goes on.
MutRolled(x) ==
  IF Since(x.windowStart) > Window THEN [x EXCEPT !.windowStart = millis] ELSE x

Rolled(x) ==
  IF Since(x.windowStart) > Window
  THEN [x EXCEPT !.windowStart = millis, !.requestCount = 0] ELSE x

\* Variant of TooMany: the count may reach the limit once more.
MutTooMany(x, e) == x.requestCount > MaxPerWindow[e]

TooMany(x, e) == x.requestCount >= MaxPerWindow[e]

Capped(time) == IF time > MaxLockout THEN MaxLockout ELSE time

\* Of a lockout in force, what is left of it is multiplied.
LockoutTime(x) ==
  IF x.isLocked
  THEN Capped(((x.lockoutUntil - millis) * LOCKOUT_MULTIPLIER) % Modulus)
  ELSE Lockout

triggerLockout(x) ==
  [x EXCEPT !.isLocked = TRUE, !.requestCount = 0,
            !.lockoutUntil = (millis + LockoutTime(x)) % Modulus]

\* Where checkRateLimit returns.
Verdict(c, e) ==
  LET x == FindOrCreate(c)
      y == Unlocked(x)
  IN  IF ~entries[c].tracked /\ Full THEN "full"
      ELSE IF LockedOut(x)           THEN "locked"
      ELSE IF TooSoon(y, e)          THEN "tooSoon"
      ELSE IF TooMany(Rolled(y), e)  THEN "tooMany"
      ELSE "allowed"

\* getLockoutTimeRemaining.
LockoutTimeRemaining(x) ==
  IF LockedOut(x) THEN x.lockoutUntil - millis ELSE 0

\* Variant of RetryAfter: rounded down.
MutRetryAfter(x) == (LockoutTimeRemaining(x) \div Second) * Second

\* sendJsonError: retry_after, in whole seconds, rounded up.
RetryAfter(x) == ((LockoutTimeRemaining(x) + Second - 1) \div Second) * Second

\* One more request, now.
OneMore(h) ==
  [t \in 0..MaxTime |-> IF now - Window <= t /\ t <= now THEN h[t] + 1 ELSE h[t]]

\* The table is full and the client new: refused, and told nothing.
RefuseFull(c, e) ==
  /\ Verdict(c, e) = "full"
  /\ UNCHANGED vars

\* 429 with the time its lockout has left.
RefuseLocked(c, e) ==
  /\ Verdict(c, e) = "locked"
  /\ retryAt' = [retryAt EXCEPT ![c] = now + RetryAfter(entries[c])]
  /\ UNCHANGED <<now, entries, lockedAt, allowed>>

\* Too early, or too many in the window: locked out from now.
LockOut(c, e) ==
  /\ Verdict(c, e) \in {"tooSoon", "tooMany"}
  /\ LET y == Unlocked(FindOrCreate(c))
         z == triggerLockout(IF Verdict(c, e) = "tooMany" THEN Rolled(y) ELSE y)
     IN  /\ entries' = [entries EXCEPT ![c] = z]
         /\ retryAt' = [retryAt EXCEPT ![c] = now + RetryAfter(z)]
  /\ lockedAt' = [lockedAt EXCEPT ![c] = now]
  /\ UNCHANGED <<now, allowed>>

Allow(c, e) ==
  /\ Verdict(c, e) = "allowed"
  /\ entries' = [entries EXCEPT ![c] =
       [Rolled(Unlocked(FindOrCreate(c))) EXCEPT
          !.lastRequestTime = millis, !.requestCount = @ + 1]]
  /\ retryAt' = [retryAt EXCEPT ![c] = Never]
  /\ allowed' = [allowed EXCEPT ![c] = OneMore(@)]
  /\ UNCHANGED <<now, lockedAt>>

checkRateLimit(c, e) ==
  RefuseFull(c, e) \/ RefuseLocked(c, e) \/ LockOut(c, e) \/ Allow(c, e)

Tick ==
  /\ now < MaxTime
  /\ now' = now + 1
  /\ allowed' = [c \in Clients |-> [t \in 0..MaxTime |->
                   IF t < now + 1 - Window THEN 0 ELSE allowed[c][t]]]
  /\ UNCHANGED <<entries, lockedAt, retryAt>>

Init ==
  /\ now = 0
  /\ entries = [c \in Clients |-> Free]
  /\ lockedAt = [c \in Clients |-> Never]
  /\ retryAt = [c \in Clients |-> Never]
  /\ allowed = [c \in Clients |-> [t \in 0..MaxTime |-> 0]]

Next ==
  \/ \E c \in Clients, e \in Endpoints : checkRateLimit(c, e)
  \/ Tick

Spec == Init /\ [][Next]_vars

----------------------------------------------------------------------------
\* The requests of client c allowed in the last window.
InWindow(c) == allowed[c][IF now < Window THEN 0 ELSE now - Window]

\* Client c has made no request for as long as endpoint d demands.  (The first
\* interval after boot counts as since a request.)
Rested(c, d) ==
  /\ now >= MinInterval[d]
  /\ \A t \in 0..MaxTime : allowed[c][t] > 0 => now - t >= MinInterval[d]

\* A client is refused as locked out for exactly Lockout from the request that
\* it was locked out for, in true time, whether that was its first offence or
\* one of many: not shorter, not after it, and never for longer.  (That it is
\* not for longer belies rate_limiter.hpp:197; see LockoutsGrow.)
LockoutLasts ==
  \A c \in Clients, e \in Endpoints : entries[c].tracked =>
    ((Verdict(c, e) = "locked") <=>
       (lockedAt[c] # Never /\ now < lockedAt[c] + Lockout))

\* "Exponential backoff: 30s, 60s, 120s, 240s, etc." (rate_limiter.hpp:197): a
\* client locked out again within a window of the end of its last lockout is
\* locked out for longer, up to the cap.  (checkRateLimit gets to triggerLockout
\* only with the last lockout over and isLocked cleared.)
LockoutLength(c) == (entries[c].lockoutUntil - lockedAt[c]) % Modulus
BacksOff(c) ==
  LET last == LockoutLength(c)
  IN  lockedAt[c] # Never /\ lockedAt'[c] > lockedAt[c]
      /\ lockedAt'[c] <= lockedAt[c] + last + Window
      => LockoutLength(c)' >= Capped(LOCKOUT_MULTIPLIER * last)
LockoutsGrow == [][\A c \in Clients : BacksOff(c)]_vars

\* "Unlock if lockout period has expired" (rate_limiter.hpp:60): no client is
\* refused as locked out once the time of its lockout is over.
LockoutEnds ==
  \A c \in Clients, e \in Endpoints :
    Verdict(c, e) = "locked" => now < lockedAt[c] + Lockout

\* A client that comes back no earlier than its last refusal told it to is
\* served, on every endpoint, and not refused again or locked out anew.
RetryAfterHonoured ==
  \A c \in Clients, e \in Endpoints :
    retryAt[c] # Never /\ now >= retryAt[c] => Verdict(c, e) = "allowed"

\* A client that is not locked out, leaves the longest interval between its
\* requests and sends fewer in a window than the strictest endpoint allows
\* is never refused, whatever mix of endpoints it uses, if the table has room
\* for it.
PoliteServed ==
  \A c \in Clients, e \in Endpoints :
    /\ entries[c].tracked \/ ~Full
    /\ lockedAt[c] = Never \/ now >= lockedAt[c] + Lockout
    /\ \A d \in Endpoints : Rested(c, d) /\ InWindow(c) < MaxPerWindow[d]
    => Verdict(c, e) = "allowed"

\* Lockouts and windows that begin anew let through more than one window's
\* requests in the time of one, but never more than three windows' of the most
\* generous endpoint (a lockout is half a window).
MostGenerous(d) == \A e \in Endpoints : MaxPerWindow[e] <= MaxPerWindow[d]
RateBounded ==
  \A c \in Clients, d \in Endpoints :
    MostGenerous(d) => InWindow(c) <= 3 * MaxPerWindow[d]
=============================================================================
