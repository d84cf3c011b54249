# Chelonian Access in TLA+

Chelonian Access is the firmware of an RFID and phone controlled access device
(an ESP32-C3 with a PN532 reader, four relays, a WiFi access point and a BLE
service). This directory holds its formal model: TLA+ modules translated from the
C++ sources, TLC configurations that check them on small instances, and
machine-checked proofs that hold for every value of the constants.

`PROJECT.json` maps every definition to the source lines it models, and lists the
runs, the mutants that show each property can fail, the hazards, the findings and
the theorems.

## The system

| Component | State it keeps | Operations | Modelled by |
|---|---|---|---|
| Access loop (`access_service.cpp`) | `AccessLoopState`, the modes' statics | one `accessServiceLoop` per iteration | `AccessLoop` |
| Relay macro engine (`macro_executor.hpp`) | running macro, step, phase, relays | `fireMacro`, `handleRelaySequence` | `MacroExecutor`, abstractly `RelaySequence` |
| User UID table (`user_uid_manager.h`) | NVS keys `u_uid_i`, `u_count` | `addUID`, `removeUID`, `checkUID`, `clearUsers` | `UidStore`, abstractly `UidSet` |
| Master UID table (`master_uid_manager.h`) | NVS keys `m_uid_i`, `m_count` | `writeUIDs`, `checkUID` | a set in `AccessLoop` |
| Nonces (`nonce_manager.hpp`) | 32 slots, index, last cleanup | `generateNonce`, `validateAndConsume`, `clear` | `NonceManager` |
| HTTP endpoints (`wifi_auth_endpoints_hardened.hpp`) | pairing window, device usage | nonce, pair, cmd, unpair, macros, logs, reboot | `Gateway`, and the module of each table they touch |
| Rate limiter (`rate_limiter.hpp`) | 10 clients | `checkRateLimit` | `RateLimiter` |
| Paired phones (`phone_token_manager.hpp`) | NVS keys `p_id_i`, `p_token_i`, `p_ver_i`, `p_count` | `addPhoneEncrypted`, `getPhoneEncrypted`, `removePhone`, `clearAll` | `PhoneStore`, a set in `Gateway` |
| BLE service (`ble_manager.hpp`) | pairing window | characteristic callbacks | pre-empting steps of `Gateway`, `AccessLog`, `MacroStore`, `PhoneStore`, `MacroExecutor`, `AccessLoop` |
| Access log (`access_log.hpp`) | ring of 50 entries, time offset, NVS copy | `log`, `setSystemTime`, read, `clear` | `AccessLog` |
| Macro tables (`macro_config.hpp`) | table in RAM and in NVS | `load`, `saveAll`, `clear`, the three parsers | `MacroStore`; the RAM table in `MacroExecutor` |
| LED controller | running pattern, queue | `setPattern`, `update` | `isRunning` only |
| Pairing button, boot mode, factory reset | hold time, boot mode | `update`, `factoryReset` | `Gateway`, `MacroStore`; the wipe in each table's module |
| Time (`auth_manager.hpp`) | whether and to what it was set | `syncTime` | `Gateway`, `AccessLog` |

How they interact. Everything but BLE runs in the Arduino loop task: `loop()`
polls the button, runs one iteration of the access loop and serves at most one
HTTP request, each to its end. BLE callbacks run in the NimBLE host task. It has
the higher priority on a single core and takes no lock, so a callback pre-empts the
loop between any two of its steps and runs to completion. The two tasks share
`AccessLoopState`, the macro table, the phone table and the log. Tables in NVS
(flash) survive a reset; one key is written atomically, an operation writes
several.

What is hard to get right, and to test: a callback in the middle of an operation
of the loop; a reset between two writes; deadlines and stopwatches that are started,
restarted and forgotten in many places (hold, lockout, prompt, programming mode,
pulses, pairing windows, request windows); a clock that is told late, and a clock
that wraps; guards on "the LED is idle" that silently skip part of an operation; the
one blocking wait of the loop; and tables at their limit. `PROJECT.json` lists
them line by line as hazards.

## The modules

**`RelaySequence`** is the abstract relay engine: a macro pulses the relays of its
steps one step at a time, each for at least its duration, all relays are off in
between, and a macro starts only when none runs.

**`MacroExecutor`** is the code: `fireMacro` and `handleRelaySequence` are split at
every point where a callback can come between (`pc`), a BLE command (`BleFire`) is
one step, and the macro table may be replaced (`SaveMacros`). `BleEnabled` chooses
the build with or without BLE. The ghost `overlapped` records that a callback started
a macro after the loop had passed the `relayActive` check of its own call.
`ImplementsRelaySequence` leaves out the steps after that, and the start of a macro
that a callback emptied between `fireMacro`'s check and its copy.
`millis() - relayActivatedTime` is the stopwatch `elapsed`, which saturates at
`MaxElapsed` - no smaller than any duration, so that no comparison changes.

**`AccessLoop`** is one iteration of `accessServiceLoop` after another. `pc` names
where in the iteration the loop is: `head` (before `updateHardware`), `modes` (the
handlers that may take the iteration), `wait` (the blocking wait for a card's
removal), `scan`, `audio`. Cards come and go at any point, reads may miss the card,
remote commands and other LED patterns may come at any point, and time passes by
`Tick`. The engine is `RelaySequence`'s. Each timestamp is a stopwatch or a
countdown, saturated just past the value it is compared with. Ghosts: how long a
master has really been on the reader (`seenFor`, `unseenFor`), the lockout of the
last denial (`lastLock`), and what last happened to the prompt timer (`event`).

**`UidStore`** is the user table as NVS keys, with a `Crash` between any two
writes; **`UidSet`** is what it promises: a set, and the one operation under way with
its card (`op`, read off `pc` and `uid`), which may change the set once and in that
card only; a removal that returns has revoked its card unless the table is `damaged`
(`torn`). A
removal shifts the entries above down, one write each, then removes the last key
and writes the count. The ghost `torn` records that a crash cut a removal short.

**`PhoneStore`** is the table of paired phones, also in NVS, with two tasks that
work on it: pairing and unpairing over HTTP in the loop task, and pairing over BLE.
An entry has two keys that matter, so each operation is one step per key read in a
search and per key written, with a `Crash` at any point between them; the BLE task
may begin at any point of the loop's operation, and the loop stands still until it
is done. A pairing removes the phone and then adds it. The ghost `told` holds the
phones told that they are paired and not removed since; `torn` says that a reset
cut a removal short and `raced` that a callback pre-empted an operation, both until
the table is cleared.

**`NonceManager`** is the slot table with its two handlers, each atomic, the
passing of time, and the reboot. Ghosts `status` and `since` follow each value from
its issue, independently of the slots; `evicted` holds the values overwritten for
want of a free slot. A command may carry the value of an empty slot, which is all
zeros: `validateAndConsume` finds the first such slot, takes its timestamp 0 for one
long past, and marks it as used.

**`Gateway`** composes the button, the two pairing windows, the phones, the device
usage table and the clock with the order of `loop()`: `phase` walks through
`pairingButton.update`, the access service (where time passes, at most `PassMax`),
one HTTP request, and the two window timeouts. BLE callbacks, the hand on the button
and restarts come at any moment. The rate limiter, the nonce and the form of a
request are a free choice here (`Refuse`), and a time is `right` or `off`. Ghosts:
how long the button has been as it is (`steadyFor`), and how long it has been held
but for releases that fit between two polls (`gripFor`), both of the hand itself and
not of the code's stopwatch; pairings since a window was opened, and how long a
device has sent no command.

**`RateLimiter`** is `checkRateLimit` over a clock `millis` that wraps at `Modulus`,
with the true time beside it. Ghosts: when a client was locked out, when it was told
to come back, and how many requests it was allowed since each time of the last window.

**`AccessLog`** is the ring in RAM and its copy in NVS. A handler is a short program
of calls (`log`, `sync`, `clear`, `reboot`), each call runs key by key, and a header
key in two steps, since its argument is read before it is written. `log` itself is four
steps: the entry's time, the rest of the entry, head and count, and the call of
`saveEntry`; the assignments of `setSystemTime` are one. The loop's program
stands still while a BLE callback's runs; a reset may come at any step. The truth about
an entry (when, and in which boot, it was made) travels with it. Ghosts: the entries
the log should show (`told`) and those a reset should bring back (`kept`); `raced`
says that BLE ran in a window of the loop's call, `torn` that a reset cut the save of
an entry short.

**`MacroStore`** is the macro table in RAM and NVS: parsers that take a table piece by
piece, `saveAll` key by key, `load` over whatever is in RAM. A macro is the number of
the save that wrote it. The build is wireless (HTTP and BLE write) or wired (USB, after
a hold of the button and a restart). Ghosts: the table last reported as saved (`saved`: what RAM
holds when a save ends, whoever wrote it); `torn`, a reset came into a save and none
has ended since; `half`, USB replaced part of a table and then refused it; `mixed`, a
BLE read or write came into the loop's parsing or saving, so that what it saves need
not be what it was sent.

Each `MC*` module gives a module its model values. Definitions named `Mut*` are
plausible bugs; `PROJECT.json` names the property that each one breaks.

## The runs

| Run | Checks | Shows |
|---|---|---|
| `relay_ble` | `TypeOK`, `OnlyActiveStepDriven`, `StepWithinMacro`, `NoEarlyRelease`, `RunsToCompletion`, `EngineFreed`, `ImplementsRelaySequence` | under pre-emption by BLE the engine still runs each macro as `RelaySequence` says, but for the steps into two windows of `fireMacro`, and always ends |
| `relay_ble_race` | `AutomaticDeactivation`, violated | a callback inside `fireMacro` leaves a relay on for good |
| `access_loop` | `LockoutClosesAll`, `HoldRequired`, `LockoutNeverShrinks`, `PromptOnlyWhenDue`, `ProgrammingTimesOut`, `RelayReleased`, `PromptGiven` | modes, lockouts, prompts and relays of the access loop |
| `uid_store` | `TypeOK`, `RemovedIsGone`, `Dense`, `ImplementsUidSet` | no write, crash or torn table admits or revokes a card but the one presented; intact without crashes |
| `phone_store` | `TypeOK`, `PairedAsTold`, `NothingLost` | who is accepted is who was told so; no write endangers another phone's entry |
| `nonce` | `TypeOK`, `SingleUse`, `LiveNonceKept`, `NoLateAcceptance` | nonces are used once, in time, and not lost early |
| `gateway` | `TypeOK`, `PairedByHold`, `QuietPhoneServed`, `WindowsClose` | no pairing but by a recent hold of the button, a quiet phone is served, both windows close once the button is let go for good |
| `rate_limiter` | `LockoutLasts`, `RetryAfterHonoured`, `PoliteServed`, `RateBounded` | lockouts last as long as they should, who waits as told is served, who keeps the limits is never refused, nobody gets through more than three windows' requests in one |
| `rate_limiter_wrap` | `LockoutEnds`, violated | a lockout that is over comes back when `millis()` wraps |
| `rate_limiter_backoff` | `LockoutsGrow`, violated | an offender's second lockout is no longer than the first |
| `access_log` | `TypeOK`, `NewestInOrder`, `Durable`, `TimesTrue` | the log shows the newest entries, oldest first, what it shows is in NVS, its times are right |
| `macro_store` | `TypeOK`, `SavedIsLoaded` | the table reported as saved is the one loaded and shown, and the one sent unless BLE came in between |

The runs that expect a violation check a statement of the documentation or of a
comment that the code does not keep; `findings` in `PROJECT.json` quotes it:

- `relay_ble_race`: "Automatically deactivates after timeout"
  (`docs/04-current-features.md:48`). A BLE command between the check and the setting
  of `relayActive` in `fireMacro` leaves relays on for good.
- `rate_limiter_wrap`: "Unlock if lockout period has expired"
  (`rate_limiter.hpp:60`). After `millis()` wraps, an expired lockout is in force again.
- `rate_limiter_backoff`: "Exponential backoff: 30s, 60s, 120s, 240s, etc."
  (`rate_limiter.hpp:197`). `triggerLockout` doubles a lockout that is still in force,
  but `checkRateLimit` never gets there with one: it returns while the lockout lasts and
  clears it once it is over. `LockoutLasts` says what the code does instead.

### Bounds

- *Relay engine*: two relays, three tables of up to two macros of up to two steps.
  A step that shares a relay with its successor, one that does not, an empty macro
  and a table that shrinks are among them, so a check against one table and a copy
  from another disagree. Durations and gaps of 0, 1 and 2 ticks.
- *Access loop*: a card that becomes the master, a regular card and one with a UID
  of bad length, a user table of one entry, so that adding, removing and "full" all
  occur. Two lockout lengths, so that the cap is reached. Timeouts of one or two
  ticks in the order the code's have (away <= redetect < hold, warning < exit); only
  their order matters, as every comparison is between one of them and one stopwatch.
- *User table*: three slots and four cards. A removal shifts up to two entries, so
  that a crash can come between two shifts, and a full table turns a card away.
- *Phones*: three entries and four phones, for the same reasons. What a callback has
  disordered is followed until both tasks are at rest or a reset tears the table as
  well (`Bounded`); without that bound the run explores what later operations make
  of a table already in disorder, of which only `TypeOK` is claimed, and that is
  proved without it.
- *Gateway*: two devices for one phone entry and one usage entry, so that each takes
  the other's place; holds of 2 and 4, windows of 1, a limit per device of one call in
  a window of 1 (so that an entry taken over must carry nothing over), passes of up
  to 2. Only the order of these matters (a factory reset
  takes longer than a pairing hold, a pass may be longer than a limit's window), and
  the properties are stated in terms of the constants. Ages stop just past the value
  they are compared with.
- *Rate limiter*: two clients for one entry, endpoints with three limits and
  intervals in the code's order (`nonce`, `pair`, `cmd`), a lockout of half a window as
  in the code, to be doubled up to twice a window, 14 ticks: more than two windows and
  four lockouts. In `rate_limiter` and `rate_limiter_backoff` the clock does not wrap; in
  `rate_limiter_wrap` it does at 8.
- *Access log*: a ring of two, four entries, two time units, two boots: the ring wraps,
  is cleared and refilled, and a boot loads what any step of another left. (Five
  entries pass as well.)
- *Macro store*: two macros, one of them with a default, three tables sent: a shorter
  table after a longer one, a tag beyond the count, a save and a load within a save.
  (Three macros with two defaults pass as well.)
- *Nonces*: three slots and five values: the table fills, a cleanup frees a slot in
  the middle, and it fills and overflows again. Expiry 1, cleanup interval 2 - as in
  the code, longer than the expiry, so that expired nonces linger.

Values (cards, phones, nonces) are only compared, hence interchangeable: the three
runs about them use symmetry, as they check no liveness.

### Fairness

The safety runs need none. `MacroExecutor` and `AccessLoop` assume weak fairness of
the loop task's steps, because `loop()` is called forever and a callback always
returns, and of `Tick`, because `millis()` advances whatever the tasks do. Nothing
is assumed of cards, commands, button or LED; the liveness properties of the access
loop that need an empty reader say so (`CardsGone`), because the code's wait for
removal can last as long as a card stays. `Gateway` assumes weak fairness of the loop
(`loop()` is called forever) and strong fairness of `Tick`, which it allows only within
a pass of the loop: time passes although callbacks and restarts keep coming in
between. `WindowsClose` presumes that the button is let go for good, as a hold keeps
the windows open.

## The proofs

Eight modules hold the proofs; each extends the module it is about (`SecurityProofs`
two of them, `RateLimiter` and `NonceManager`). All are safety: an inductive invariant,
proved by one lemma per conjunct or action, and the properties from it.

- **`MacroExecutorProofs`**, for all relays, tables, step and macro limits. `IInv`
  joins the type invariant to what each `pc` implies (`Tracking`: `relayActive`
  covers the whole of a sequence; `GapHasNext`: a gap is begun only when a step
  follows; `Due`: a pulse found over stays over; `NothingRunsAtCopy`). These are
  needed because the properties speak of the state at rest while the loop's checks
  and effects are steps apart. Proved with BLE: `OnlyActiveStepDriven`,
  `StepWithinMacro`, `NoEarlyRelease`, `RunsToCompletion` and the refinement of
  `RelaySequence` but for the two windows (`ImplementsRelaySequence`, by `LoopInv`).
  Without BLE: `AutomaticDeactivation` and the whole of `RelaySequence`, windows
  excluded by the further invariant that what `fireMacro` checked still holds later in
  the call (`NoBleInv`).
- **`UidStoreProofs`**, for every capacity and set of cards. `Phase` says what each
  point of an operation has written: in a shift, the slot about to be overwritten
  holds the card being removed, nothing, or an entry already copied below. It
  carries the refinement of `UidSet` (the other cards stay as they are at every
  write), crashes and torn tables included. `Clean` adds, while no crash
  has torn the table, that the only repeated entry is the one just copied; from it
  follow `RemovedIsGone` and `Dense`, and the end of a removal in the refinement.
- **`PhoneStoreProofs`**, for every capacity and set of phones. `Bounds` speaks of
  each task's own locals only, so it holds whatever callbacks and resets do to the
  table, and carries `TypeOK`. `Clean` says what the table holds at each point of
  the one operation in course (`OneTask`): every entry in use is a phone told, with
  its token and once - except, in a removal, for a *hole* that starts at the removed
  entry and moves up with every entry copied down. From it follow `PairedAsTold` and
  `NothingLost`, as long as nothing was torn or raced.
- **`AccessLoopProofs`**, for every set of cards and macros, every list of lockouts
  that grows, and all delays in the order the code's have. `HoldInv` ties the code's
  stopwatches to the ghosts that measure a master's stay: while a master is
  remembered, both see the same absence, and the hold counted is no longer than the
  true one; this is what makes `HoldRequired` true of a hold put together from reads
  with pauses. `LockInv` bounds the last lockout by the next (`LockoutNeverShrinks`),
  `PromptInv` ties the prompt's two flags to the event that set them
  (`PromptOnlyWhenDue`), and `LoopInv` says which modes each `pc` allows
  (`LockoutClosesAll`). The lemma `Frames` says once which actions change which group
  of variables, so that each part of the invariant looks only at its own.
- **`SecurityProofs`** is about two components. The nonces, for any number of slots and
  values, any expiry and cleanup interval: `Held` ties slots to history - a slot that
  could be accepted holds a value issued and not yet accepted, and its age is the time
  since the issue as far as expiry can tell; `OnePlace` keeps a value to one slot. From
  them follow `SingleUse`, `LiveNonceKept` and `NoLateAcceptance`.
  The rate limiter, for all clients, endpoints, limits and lengths: the
  invariant ties an entry to its client's history, the end of its lockout to when it
  was locked out (`Locked`), the time it was told to that end (`ToldInTime`).
  `LockoutLasts` and `RetryAfterHonoured` follow. `CountInv` compares the entry with the
  true history of requests (`allowed[t]`, those from time t on, so that nothing need be
  summed): the count is no more than the requests since the window began, whence
  `PoliteServed`; and no more than the count came since then, at most a limit more within
  a lockout's time before, and a limit more within another, whence `RateBounded`. All
  four have the hypothesis `NoWrap`: the times considered and a lockout stay below the
  clock's modulus. Beyond it the first is false, as `rate_limiter_wrap` shows. The last
  two also have `HalfWindow`: a lockout takes no longer than a window, and two no less; the
  code's are 30 and 60 seconds.
- **`GatewayProofs`**, for every set of devices, size of the two tables and length of
  holds, windows and passes. `WindowInv` bounds the age of an open window by where the
  loop is (`Due`): a window too old is closed by its poll, so it outlives its time by
  one pass; and a window that a pairing came through is closed. `GripInv` ties the
  code's stopwatch to the button itself: while a press is remembered, it was seen down
  within the last pass, and the hold counted is no longer than the true one but for
  releases shorter than a pass. `PairedByHold` follows from both. `UsageInv` ties an entry of `tokenUsage` to its device's last command, from
  which a quiet phone's window is over, and that of any entry it may take over is
  reset (`QuietPhoneServed`).
- **`MacroStoreProofs`**, for every number of macros, of defaults and of tables sent.
  `Progress` says what of the table in RAM a save has written so far; the loop's part
  survives a BLE read, which loads what was written, and a BLE write, which has saved
  the whole table before the loop goes on. `StoredInv` carries a finished save to the
  next, `SentInv` what has been parsed to what is saved. Looking for this invariant
  showed that `SavedIsLoaded` need not except BLE: it did at first.
- **`AccessLogProofs`**, for a ring of any size and any number of entries and boots.
  `SavedInv` is the argument for `Durable`: wherever RAM and NVS differ, some call under
  way still owes that key (`Owes`), and what a call is about to write is what RAM holds
  (`Current`) unless it will be written once more (`OwedAnew`); with no call under way
  nothing is owed. `OrderInv` lays the ghost `told` along the ring backwards from the
  head, with the half-made entry of a `log` in course as the exception, and `KeptInv`
  lays `kept` along the ring in NVS, for the next boot. `DatedInv` says of each entry,
  wherever it is, in which boot it was made and by which boot's offset it was dated.
  `TaskInv` says where in its program each task may be, and that the loop stands still
  while a callback runs.

The assumptions are the named `ASSUME`s of the modules (`ExecutorConstants`,
`StoreConstants` of `UidStore` and of `MacroStore`, `PhoneConstants`,
`NonceConstants`, `LoopConstants`, `LimiterConstants`, `GatewayConstants`,
`LogConstants`), which TLC evaluates in the runs. They are what the code's constants satisfy: sizes are positive,
a lockout is no shorter than any endpoint's interval, a factory reset takes longer than
a pairing hold, lockouts grow, a macro has at most `MAX_STEPS` steps.

Only model-checked:

- All liveness (`EngineFreed`, `ProgrammingTimesOut`, `RelayReleased`, `PromptGiven`,
  `WindowsClose`), which is beyond the prover.

## What the model shows besides

Seen while modelling, not stated as properties:

- The access log is read from its oldest entry on, although comments say "Iterate from
  newest to oldest" and "index 0 = newest" (`access_log.hpp:295`, `:360`): a reader that
  asks for the first entries gets the oldest. `NewestInOrder` says what the code does.
- The button need not be held for a pairing, although the code speaks of a hold
  ("Pairing triggered on hold", `pairing_button.hpp:75`): it is looked at once in a pass
  of the loop, so a release and a new press between two polls go unseen, and short
  presses that are down at every poll open the windows. `PairedByHold` says what is true
  of the button itself: it was down for `PAIRING_HOLD` but for releases that each fit
  into one pass (`gripFor`).
- A card left on the reader in user programming mode holds the loop in its wait
  (`access_service.cpp:167`): relays, windows and requests wait as long.
- `handleAccessGranted` reports a grant although `fireMacro` refuses the tag's macro
  while another runs (`access_service.cpp:359`).
- A denial while the LED is busy locks the reader, but is not counted
  (`access_service.cpp:376`): the lockout does not grow.
- After a removal was cut short a card may stand twice in the user table, and removing
  it once leaves it valid (`user_uid_manager.h:146`); `torn` marks those states.
- A full nonce table overwrites the slot after the last one written, which is not
  always the oldest (`nonce_manager.hpp:44`).
- The nonce endpoint's comment says "max 5 per minute", its call allows 10
  (`wifi_auth_endpoints_hardened.hpp:221`, `:222`). Limits are constants here.
- Log entries of an earlier boot that were never dated are dated with this boot's
  offset (`access_log.hpp:115`). `TimesTrue` leaves them out.
- `/pair` empties the log of a device whose phone table turns out to be full
  (`wifi_auth_endpoints_hardened.hpp:292`).

## Not modelled

- What becomes of the phone table after a removal was torn or an operation was
  pre-empted is claimed only as far as `TypeOK`. The model shows both: after a reset
  between the two writes of a shift, a phone's id stands in two entries and the
  lower one, which is found first, has another phone's token, so that the phone's
  commands are refused; pairing it again removes the lower entry only and then fails,
  as it is found "already paired". After a BLE pairing inside an unpairing the count
  is the one read before it.
- Whether a phone may pair at the moment: any phone pairs at any time in `PhoneStore`;
  `Gateway` has the pairing windows, and the phone table as a set.
- A factory reset as a whole: each module empties its own table at once. A reset
  between two of its steps leaves the later tables as they were.
- Encryption, random numbers and JSON: external. A nonce is a value never issued
  before and not the zeros of an empty slot; any other value nobody issued matches no
  slot.
- The wrap of the 32-bit `millis()` after 49.7 days, but for `RateLimiter`: clocks are
  elapsed times. Most of the code subtracts timestamps and is unaffected; the access
  loop's lockouts compare absolutely, as the rate limiter's do. The other exception is
  the nonces' timestamp 0, which stands for an empty slot: within `NONCE_EXPIRY` (2 s)
  of the wrap a command with a nonce of zeros, which nobody issued, would be accepted
  on an empty slot (`nonce_manager.hpp:73`, `:84`), and a nonce issued in the very
  millisecond of the wrap counts as an empty slot. After a boot neither can happen, as
  `setup()` takes longer (its delays alone are some 6 s); `SingleUse` relies on it.
- The master check during the wait for removal: as in the code, the card stored is
  the last one read, so a master exchanged for another card in the wait is stored as
  a user too. The master check always comes first, so the entry has no effect.
- The LED beyond "running or not" (nothing calls its pattern queue), audio, the PN532
  protocol, WiFi credentials and pages, BLE advertising and bonding, web
  pages, the phone application, and code that nothing calls (`PROJECT.json` names
  each with its reason).

## Plan

Done: every component whose state the properties speak of, and the proofs about all
of them: every invariant and action property the passing runs check is a theorem, and
both refinements. What is left:

1. a statement of what the phone table promises after a torn removal or a pre-empted
   operation beyond `TypeOK`, once it is known what the code means to promise;
2. a factory reset as a sequence of the tables' own, with a reset between them.
