------------------------------ MODULE Gateway ------------------------------
(***************************************************************************)
(* Who may pair and who may command: the button that opens the pairing     *)
(* windows (lib/input/pairing_button.hpp), the HTTP handlers               *)
(* (wifi_auth_endpoints_hardened.hpp) that the loop serves between the     *)
(* access service and the windows' timeouts, and the BLE callbacks         *)
(* (ble_manager.hpp) that run at any moment.                               *)
(*                                                                         *)
(* What the other modules model is a choice here: whether the rate limiter *)
(* (RateLimiter) and the nonce (NonceManager) let a request pass and       *)
(* whether it is well formed (admitted), the phone table's NVS (PhoneStore)*)
(* and the log (AccessLog).  Clocks are told as right or off; a time stamp *)
(* is within AUTH_TIMESTAMP_WINDOW of the device's clock iff both are the  *)
(* same.  Ages count up to the value at which nothing depends on them.     *)
(* A handler is one step; what a callback does inside one is in the        *)
(* modules of the tables it touches.                                       *)
(***************************************************************************)
EXTENDS Integers, FiniteSets, FiniteSetsExt

CONSTANTS
  Devices, None,        \* device ids, and no device
  MAX_PAIRED_PHONES,
  MAX_TRACKED_TOKENS,
  PAIRING_HOLD, FACTORY_RESET_HOLD,
  PAIRING_WINDOW, TOKEN_WINDOW,
  MAX_CALLS,            \* MAX_CALLS_PER_WINDOW
  PassMax               \* bound: the time one pass of loop() takes

ASSUME GatewayConstants ==
  /\ None \notin Devices
  /\ {MAX_PAIRED_PHONES, MAX_TRACKED_TOKENS, PAIRING_HOLD, PAIRING_WINDOW,
      TOKEN_WINDOW, MAX_CALLS, PassMax} \subseteq Nat \ {0}
  /\ FACTORY_RESET_HOLD \in Nat /\ FACTORY_RESET_HOLD > PAIRING_HOLD

Radios == {"wifi", "ble"}
Stamps == {"none", "old", "right", "off"}   \* 0, up to 1000000000, or a time
Slots  == 1..MAX_TRACKED_TOKENS

VARIABLES
  phase,                \* where loop() is
  passFor,              \* how long this pass has taken
  pressed,              \* the button
  steadyFor, gripFor,   \* ghosts: how long it has been as it is; how long it
                        \* has been held, but for releases of a pass at most
  wasPressed, heldFor,  \* _wasPressed, and the age of _pressStart
  open, openFor,        \* per radio: its pairing window, the age of its start
  paired,               \* the devices in the phone table
  usage,                \* tokenUsage
  clock,                \* AuthManager: unset, or what it was last told
  pairings,             \* ghost, per radio: pairings since the window opened
  quietFor              \* ghost, per device: the age of its last HTTP command

hand       == <<pressed, steadyFor, gripFor>>
buttonVars == <<hand, wasPressed, heldFor>>
windowVars == <<open, openFor, pairings>>
phoneVars  == <<paired, usage, clock, quietFor>>
vars == <<phase, passFor, buttonVars, windowVars, phoneVars>>

\* No timeout is still to come at these ages.
WindowAge == PAIRING_WINDOW + PassMax + 1
TokenAge  == TOKEN_WINDOW + 1

Empty == [deviceId |-> None, since |-> 0, idle |-> TokenAge, calls |-> 0]

TypeOK ==
  /\ phase \in {"button", "access", "serve", "wifiPoll", "blePoll"}
  /\ passFor \in 0..PassMax
  /\ {pressed, wasPressed} \subseteq BOOLEAN /\ heldFor \in 0..FACTORY_RESET_HOLD
  /\ steadyFor \in Nat /\ gripFor \in 0..PAIRING_HOLD
  /\ open \in [Radios -> BOOLEAN] /\ openFor \in [Radios -> 0..WindowAge]
  /\ paired \subseteq Devices /\ Cardinality(paired) <= MAX_PAIRED_PHONES
  /\ usage \in [Slots -> [deviceId : Devices \cup {None}, since : 0..TokenAge,
                          idle : 0..TokenAge, calls : 0..MAX_CALLS]]
  /\ \A s, t \in Slots : usage[s].deviceId = usage[t].deviceId
                           => s = t \/ usage[s].deviceId = None
  /\ clock \in {"unset", "right", "off"}
  /\ pairings \in [Radios -> Nat] /\ quietFor \in [Devices -> 0..TokenAge]

----------------------------------------------------------------------------
Older(age, most) == IF age < most THEN age + 1 ELSE age

Press   == ~pressed /\ pressed' = TRUE /\ steadyFor' = 0 /\ UNCHANGED gripFor
Release == pressed /\ pressed' = FALSE /\ steadyFor' = 0 /\ UNCHANGED gripFor

\* The hand's own stopwatches: a release longer than a pass ends a grip.
HandAges ==
  /\ steadyFor' = Older(steadyFor, IF pressed THEN PAIRING_HOLD ELSE PassMax + 1)
  /\ gripFor' = IF ~pressed /\ steadyFor >= PassMax THEN 0
                ELSE Older(gripFor, PAIRING_HOLD)

\* Time passes while the loop is in the access service, which waits for the
\* card reader; the rest of a pass takes none.
Tick ==
  /\ phase = "access"
  /\ passFor < PassMax /\ passFor' = passFor + 1
  /\ HandAges /\ heldFor' = Older(heldFor, FACTORY_RESET_HOLD)
  /\ openFor' = [r \in Radios |-> Older(openFor[r], WindowAge)]
  /\ usage' = [s \in Slots |-> [usage[s] EXCEPT !.since = Older(@, TokenAge),
                                                !.idle = Older(@, TokenAge)]]
  /\ quietFor' = [d \in Devices |-> Older(quietFor[d], TokenAge)]
  /\ UNCHANGED <<phase, pressed, wasPressed, open, pairings, paired, clock>>

Goto(here, next) == phase = here /\ phase' = next

\* Everything but the phone table is new after a restart.
Restart(table) ==
  /\ phase' = "button" /\ passFor' = 0
  /\ wasPressed' = FALSE /\ heldFor' = 0
  /\ open' = [r \in Radios |-> FALSE] /\ openFor' = [r \in Radios |-> 0]
  /\ pairings' = [r \in Radios |-> 0]
  /\ paired' = table
  /\ usage' = [s \in Slots |-> Empty] /\ clock' = "unset"
  /\ quietFor' = [d \in Devices |-> TokenAge]
  /\ UNCHANGED hand

\* Variant of ButtonUp: a release does not end the press.
MutButtonUp ==
  /\ Goto("button", "access") /\ ~pressed
  /\ UNCHANGED <<passFor, buttonVars, windowVars, phoneVars>>

\* PairingButton::update, once in every pass: a press is noted, a hold opens
\* both windows anew in each pass it lasts (openPairingWindow), and a longer
\* one resets to factory.
ButtonUp ==
  /\ Goto("button", "access") /\ ~pressed
  /\ wasPressed' = FALSE
  /\ UNCHANGED <<passFor, hand, heldFor, windowVars, phoneVars>>

ButtonDown ==
  /\ Goto("button", "access") /\ pressed /\ ~wasPressed
  /\ wasPressed' = TRUE /\ heldFor' = 0
  /\ UNCHANGED <<passFor, hand, windowVars, phoneVars>>

ButtonHeld ==
  /\ Goto("button", "access") /\ pressed /\ wasPressed
  /\ heldFor < FACTORY_RESET_HOLD
  /\ IF heldFor >= PAIRING_HOLD
     THEN /\ open' = [r \in Radios |-> TRUE]
          /\ openFor' = [r \in Radios |-> 0]
          /\ pairings' = [r \in Radios |-> 0]
     ELSE UNCHANGED windowVars
  /\ UNCHANGED <<passFor, buttonVars, phoneVars>>

FactoryReset ==
  /\ phase = "button" /\ pressed /\ wasPressed
  /\ heldFor >= FACTORY_RESET_HOLD
  /\ Restart({})

\* accessServiceLoop: to this module it is only the time it takes.
Access ==
  /\ Goto("access", "serve") /\ passFor' = 0
  /\ UNCHANGED <<buttonVars, windowVars, phoneVars>>

\* Variant of Expired: no window is ever too old.
MutExpired(r) == openFor[r] > WindowAge

\* updatePairingWindow, of one radio.
Expired(r) == openFor[r] > PAIRING_WINDOW

Poll(r) == open' = [open EXCEPT ![r] = @ /\ ~Expired(r)]

WifiPoll ==
  /\ Goto("wifiPoll", "blePoll") /\ Poll("wifi")
  /\ UNCHANGED <<passFor, buttonVars, openFor, pairings, phoneVars>>

BlePoll ==
  /\ Goto("blePoll", "button") /\ Poll("ble")
  /\ UNCHANGED <<passFor, buttonVars, openFor, pairings, phoneVars>>

----------------------------------------------------------------------------
\* AuthManager::syncTime, as every handler that is told a time calls it.
Told(stamp) == IF stamp \in {"right", "off"} THEN stamp ELSE clock

\* The time stamp's check in handleCommand.
Timely(stamp) == stamp # "none" /\ (clock = "unset" \/ stamp = clock)

\* Variant of Full: one phone too many is let in.
MutFull(d) == Cardinality(paired \ {d}) > MAX_PAIRED_PHONES

\* Pairing again gives up the old entry first.
Full(d) == Cardinality(paired \ {d}) >= MAX_PAIRED_PHONES

\* Variant of CloseAfter: the window stays open after a pairing.
MutCloseAfter(r) == open

\* A pairing closes the window it came through, not the other one.
CloseAfter(r) == [open EXCEPT ![r] = FALSE]

\* What a pairing through radio r does to the phone table and the windows.
Pair(r, d) ==
  IF Full(d)
  THEN UNCHANGED <<paired, open, pairings>>
  ELSE /\ paired' = paired \cup {d}
       /\ open' = CloseAfter(r)
       /\ pairings' = [pairings EXCEPT ![r] = @ + 1]

\* The tokenUsage slot of device d: its own, a free one, or that of the device
\* idle longest (among those idle past TokenAge, any).
UsageSlots(d) ==
  LET own   == {s \in Slots : usage[s].deviceId = d}
      free  == {s \in Slots : usage[s].deviceId = None}
      most  == Max({usage[s].idle : s \in Slots})
      stale == {s \in Slots : usage[s].idle = most}
  IN  IF own # {}              THEN own
      ELSE IF free # {}        THEN {Min(free)}
      ELSE IF most >= TokenAge THEN stale
      ELSE {Min(stale)}

\* Variant of UsageEntry: a taken-over entry keeps its count.
MutUsageEntry(s, d) ==
  IF usage[s].deviceId = d THEN usage[s]
  ELSE [usage[s] EXCEPT !.deviceId = d, !.since = 0]

\* createTokenUsageEntry: a new or taken-over entry, its last use as it was.
UsageEntry(s, d) ==
  IF usage[s].deviceId = d THEN usage[s]
  ELSE [usage[s] EXCEPT !.deviceId = d, !.since = 0, !.calls = 0]

\* checkTokenRateLimit: a window that is over starts again.
InTokenWindow(x) ==
  IF x.since > TOKEN_WINDOW THEN [x EXCEPT !.since = 0, !.calls = 0] ELSE x

Served == Goto("serve", "wifiPoll")
loopOther == <<passFor, buttonVars, openFor>>

\* server.handleClient with nothing to do, or a request refused: admitted by
\* no limiter or nonce, malformed, untimely, unknown, or without the token.
Refuse ==
  /\ Served
  /\ UNCHANGED <<loopOther, open, pairings, phoneVars>>

handlePair(d, stamp) ==
  /\ Served /\ open["wifi"]
  /\ clock' = Told(stamp)
  /\ Pair("wifi", d)
  /\ UNCHANGED <<loopOther, usage, quietFor>>

\* handleCommand with a wrong token: the entry is made, the failure counted
\* (which changes only the answer's wording).
WrongToken(d, stamp) ==
  /\ Served /\ Timely(stamp) /\ d \in paired
  /\ \E s \in UsageSlots(d) : usage' = [usage EXCEPT ![s] = UsageEntry(s, d)]
  /\ UNCHANGED <<loopOther, open, pairings, paired, clock, quietFor>>

\* handleCommand with the device's token.
handleCommand(d, stamp) ==
  /\ Served /\ Timely(stamp) /\ d \in paired
  /\ \E s \in UsageSlots(d) :
       LET x == InTokenWindow(UsageEntry(s, d)) IN
       IF x.calls >= MAX_CALLS
       THEN /\ usage' = [usage EXCEPT ![s] = x]
            /\ UNCHANGED <<clock, quietFor>>
       ELSE /\ usage' = [usage EXCEPT ![s] =
                           [x EXCEPT !.calls = @ + 1, !.idle = 0]]
            /\ clock' = Told(stamp)
            /\ quietFor' = [quietFor EXCEPT ![d] = 0]
  /\ UNCHANGED <<loopOther, open, pairings, paired>>

handleUnpair(d) ==
  /\ Served /\ d \in paired
  /\ paired' = paired \ {d}
  /\ UNCHANGED <<loopOther, open, pairings, usage, clock, quietFor>>

\* GET /api/macros and /api/logs take anyone's time.
GetMacros(stamp) ==
  /\ Served /\ clock' = Told(stamp)
  /\ UNCHANGED <<loopOther, open, pairings, paired, usage, quietFor>>

----------------------------------------------------------------------------
\* The BLE callbacks, at any moment.
bleOther == <<phase, loopOther, usage, quietFor>>

PairingCallback(d) ==
  /\ open["ble"]
  /\ Pair("ble", d)
  /\ UNCHANGED <<bleOther, clock>>

\* CommandCallbacks: any time stamp but 0, and no limit; it sets the clock.
\* So does TimeSyncCallbacks, from any bonded phone.
CommandCallback(d, stamp) ==
  /\ d \in paired /\ stamp # "none"
  /\ clock' = Told(stamp)
  /\ UNCHANGED <<bleOther, open, pairings, paired>>

TimeSyncCallback(stamp) ==
  /\ clock' = Told(stamp)
  /\ UNCHANGED <<bleOther, open, pairings, paired>>

----------------------------------------------------------------------------
Init ==
  /\ phase = "button" /\ passFor = 0
  /\ pressed = FALSE /\ steadyFor = PassMax + 1 /\ gripFor = 0
  /\ wasPressed = FALSE /\ heldFor = 0
  /\ open = [r \in Radios |-> FALSE] /\ openFor = [r \in Radios |-> 0]
  /\ paired = {} /\ usage = [s \in Slots |-> Empty] /\ clock = "unset"
  /\ pairings = [r \in Radios |-> 0]
  /\ quietFor = [d \in Devices |-> TokenAge]

Button == ButtonUp \/ ButtonDown \/ ButtonHeld \/ FactoryReset

Serve ==
  \/ Refuse
  \/ \E stamp \in Stamps : GetMacros(stamp)
  \/ \E d \in Devices :
       \/ handleUnpair(d)
       \/ \E stamp \in Stamps :
            handlePair(d, stamp) \/ WrongToken(d, stamp) \/ handleCommand(d, stamp)

Loop == Button \/ Access \/ Serve \/ WifiPoll \/ BlePoll

Ble ==
  \/ \E d \in Devices : PairingCallback(d)
  \/ \E d \in Devices, stamp \in Stamps : CommandCallback(d, stamp)
  \/ \E stamp \in Stamps : TimeSyncCallback(stamp)

Hand == /\ Press \/ Release
        /\ UNCHANGED <<phase, passFor, wasPressed, heldFor, windowVars, phoneVars>>

\* A restart over the air, or the power cut.
Crash == Restart(paired)

Next == Loop \/ Ble \/ Hand \/ Tick \/ Crash

\* The loop goes round and time passes, whoever else runs.
Spec == Init /\ [][Next]_vars /\ WF_vars(Loop) /\ SF_vars(Tick)

----------------------------------------------------------------------------
\* Windows open, and devices are paired, as PairedByHold says.
PairsByHold ==
  \A r \in Radios :
    /\ open'[r] /\ (~open[r] \/ openFor'[r] < openFor[r]) =>
         pressed /\ gripFor >= PAIRING_HOLD
    /\ pairings'[r] > pairings[r] =>
         pairings[r] = 0 /\ openFor[r] <= PAIRING_WINDOW + PassMax

\* A window opens, or starts anew, only while the button is down and has been
\* down for the hold's length but for releases that each fit between two polls
\* of the button, measured on the button itself.  A device is paired only
\* through a window that such a hold opened or started anew no longer ago than
\* the window's length and one pass of the loop, and only the first since, over
\* each radio; whatever other requests, refused pairings and restarts come in
\* between.
PairedByHold == [][PairsByHold]_vars

\* A paired phone that has sent no command for a window of the limit per
\* device is not refused by it: neither by its own earlier commands nor by
\* what the entry it takes over had counted.
QuietPhoneServed ==
  \A d \in paired : quietFor[d] >= TokenAge =>
    \A s \in UsageSlots(d) :
      InTokenWindow(UsageEntry(s, d)).calls < MAX_CALLS

\* Once the button is let go for good both windows close for good, even if
\* nobody pairs and whatever the phones send.
WindowsClose ==
  <>[]~pressed => \A r \in Radios : <>[]~open[r]
=============================================================================
