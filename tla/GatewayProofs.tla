--------------------------- MODULE GatewayProofs ---------------------------
(***************************************************************************)
(* Proofs about Gateway, for every set of devices, every size of the phone *)
(* table and of tokenUsage, and every length of the holds, the windows and *)
(* a pass of the loop.                                                     *)
(*                                                                         *)
(* The inductive invariant has a part per group of variables.  WindowInv   *)
(* bounds the age of an open window by where the loop is: a window too old *)
(* is closed by its poll, so it outlives its time by one pass at most, and *)
(* none that a pairing came through is open.  UsageInv ties what an entry  *)
(* of tokenUsage counts to the last command of its device.  GripInv ties   *)
(* the code's stopwatch of the button to the button itself.                *)
(***************************************************************************)
EXTENDS Gateway, FiniteSetTheorems, WellFoundedInduction, TLAPS

\* The oldest a window of radio r may be, with the loop where it is.
Due(r) ==
  IF phase = "button" \/ (phase = "blePoll" /\ r = "wifi") THEN PAIRING_WINDOW
  ELSE IF phase = "access" THEN PAIRING_WINDOW + passFor
  ELSE PAIRING_WINDOW + PassMax

LoopInv ==
  /\ phase \in {"button", "access", "serve", "wifiPoll", "blePoll"}
  /\ passFor \in 0..PassMax
  /\ phase # "access" => passFor = 0

ButtonInv ==
  /\ pressed \in BOOLEAN
  /\ wasPressed \in BOOLEAN
  /\ heldFor \in 0..FACTORY_RESET_HOLD
  /\ steadyFor \in Nat /\ gripFor \in 0..PAIRING_HOLD

\* The most time since the button was last polled.
SincePoll == IF phase = "access" THEN passFor ELSE PassMax

\* While the code takes the button to be held, it has been up for no longer
\* than since the last poll, and the grip is no younger than the code thinks.
GripInv ==
  wasPressed => /\ gripFor >= heldFor \/ gripFor >= PAIRING_HOLD
                /\ ~pressed => steadyFor <= SincePoll

WindowInv ==
  /\ open \in [Radios -> BOOLEAN] /\ openFor \in [Radios -> 0..WindowAge]
  /\ pairings \in [Radios -> Nat]
  /\ \A r \in Radios : open[r] => pairings[r] = 0 /\ openFor[r] <= Due(r)

PairedInv ==
  /\ paired \subseteq Devices
  /\ IsFiniteSet(paired) /\ Cardinality(paired) <= MAX_PAIRED_PHONES

ClockInv == clock \in {"unset", "right", "off"}

Usage == [deviceId : Devices \cup {None}, since : 0..TokenAge, idle : 0..TokenAge,
          calls : 0..MAX_CALLS]

\* A count is of a window that began no later than the device's last command.
Counted(x) == x.deviceId \in Devices /\ x.calls > 0 => quietFor[x.deviceId] <= x.since

UsageInv ==
  /\ usage \in [Slots -> Usage] /\ quietFor \in [Devices -> 0..TokenAge]
  /\ \A s, t \in Slots : usage[s].deviceId = usage[t].deviceId
                           => s = t \/ usage[s].deviceId = None
  /\ \A s \in Slots : Counted(usage[s])

IInv == LoopInv /\ ButtonInv /\ GripInv /\ WindowInv /\ PairedInv /\ ClockInv /\ UsageInv

----------------------------------------------------------------------------
\* Facts about the constants, and about the least and greatest of a set.

LEMMA Constants ==
  /\ None \notin Devices
  /\ MAX_PAIRED_PHONES \in Nat \ {0} /\ MAX_TRACKED_TOKENS \in Nat \ {0}
  /\ PAIRING_HOLD \in Nat \ {0} /\ FACTORY_RESET_HOLD \in Nat
  /\ FACTORY_RESET_HOLD > PAIRING_HOLD
  /\ PAIRING_WINDOW \in Nat \ {0} /\ TOKEN_WINDOW \in Nat \ {0}
  /\ MAX_CALLS \in Nat \ {0} /\ PassMax \in Nat \ {0}
  /\ WindowAge \in Nat /\ TokenAge \in Nat
BY GatewayConstants DEF WindowAge, TokenAge

LEMMA MinIsMember ==
  ASSUME NEW S \in SUBSET Nat, S # {}
  PROVE  Min(S) \in S /\ \A y \in S : Min(S) <= y
<1> DEFINE R == OpToRel(<, Nat)
<1>1. PICK x \in S : \A y \in S : <<y, x>> \notin R
  <2>1. IsWellFoundedOn(R, Nat)
    BY NatLessThanWellFounded
  <2> HIDE DEF R
  <2> QED BY <2>1, WFMin
<1>2. \A y \in S : x <= y
  <2> SUFFICES ASSUME NEW y \in S, y < x PROVE FALSE
    OBVIOUS
  <2>1. <<y, x>> \in Nat \X Nat
    OBVIOUS
  <2> QED BY <1>1, <2>1 DEF OpToRel
<1> QED BY <1>2 DEF Min

LEMMA MaxIsMember ==
  ASSUME NEW n \in Nat, NEW S \in SUBSET (0..n), S # {}
  PROVE  Max(S) \in S
<1> DEFINE T == {n - x : x \in S}
<1>1. T \in SUBSET Nat /\ T # {}
  <2>1. \A x \in S : n - x \in Nat
    OBVIOUS
  <2>2. PICK x \in S : TRUE
    OBVIOUS
  <2>3. n - x \in T
    OBVIOUS
  <2> QED BY <2>1, <2>3
<1>2. PICK m \in T : \A y \in T : m <= y
  <2> HIDE DEF T
  <2> QED BY <1>1, MinIsMember
<1>3. PICK x \in S : m = n - x
  OBVIOUS
<1>4. \A y \in S : x >= y
  <2> SUFFICES ASSUME NEW y \in S PROVE x >= y
    OBVIOUS
  <2>1. m <= n - y
    BY <1>2
  <2> QED BY <1>3, <2>1
<1> QED BY <1>4 DEF Max

\* The slot taken for device d is one of tokenUsage's, and d has no other.
LEMMA SlotTaken ==
  ASSUME UsageInv, NEW d \in Devices, NEW s \in UsageSlots(d)
  PROVE  /\ s \in Slots
         /\ usage[s].deviceId = d \/ \A t \in Slots : usage[t].deviceId # d
<1> DEFINE own   == {t \in Slots : usage[t].deviceId = d}
           free  == {t \in Slots : usage[t].deviceId = None}
           idles == {usage[t].idle : t \in Slots}
           most  == Max(idles)
           stale == {t \in Slots : usage[t].idle = most}
<1>0. Slots \in SUBSET Nat /\ 1 \in Slots
  BY Constants DEF Slots
<1>1. CASE own # {}
  <2>1. UsageSlots(d) = own
    BY <1>1 DEF UsageSlots
  <2> QED BY <2>1
<1>2. CASE own = {}
  <2>1. \A t \in Slots : usage[t].deviceId # d
    BY <1>2
  <2>2. free # {} => Min(free) \in Slots
    <3>1. free \in SUBSET Nat /\ free \subseteq Slots
      BY <1>0
    <3> HIDE DEF free
    <3> QED BY <3>1, MinIsMember
  <2>3. stale # {}
    <3>1. idles \in SUBSET (0..TokenAge) /\ idles # {}
      BY <1>0 DEF UsageInv, Usage
    <3>2. most \in idles
      <4> HIDE DEF idles
      <4> QED BY <3>1, MaxIsMember, Constants
    <3>3. PICK t \in Slots : most = usage[t].idle
      <4> HIDE DEF most
      <4> QED BY <3>2
    <3>4. t \in stale
      <4> HIDE DEF most
      <4> QED BY <3>3
    <3> QED BY <3>4
  <2>4. Min(stale) \in Slots /\ stale \subseteq Slots
    <3>1. stale \in SUBSET Nat /\ stale \subseteq Slots
      BY <1>0
    <3> HIDE DEF stale
    <3> QED BY <2>3, <3>1, MinIsMember
  <2>5. UsageSlots(d) = IF free # {} THEN {Min(free)}
                        ELSE IF most >= TokenAge THEN stale ELSE {Min(stale)}
    BY <1>2 DEF UsageSlots
  <2> HIDE DEF own, free, most, stale
  <2>6. s \in Slots
    BY <2>2, <2>4, <2>5
  <2> QED BY <2>1, <2>6
<1> QED BY <1>1, <1>2

\* What handleCommand writes into the slot.
LEMMA EntryWritten ==
  ASSUME UsageInv, NEW d \in Devices, NEW s \in UsageSlots(d)
  PROVE  LET x == UsageEntry(s, d)
             y == InTokenWindow(x)
         IN  /\ x \in Usage /\ x.deviceId = d /\ Counted(x)
             /\ y \in Usage /\ y.deviceId = d /\ Counted(y)
<1> USE Constants
<1>0. s \in Slots /\ usage[s] \in Usage /\ Counted(usage[s])
  BY SlotTaken DEF UsageInv
<1>1. UsageEntry(s, d) \in Usage /\ UsageEntry(s, d).deviceId = d /\ Counted(UsageEntry(s, d))
  <2>1. CASE usage[s].deviceId = d
    BY <1>0, <2>1 DEF UsageEntry
  <2>2. CASE usage[s].deviceId # d
    <3>1. UsageEntry(s, d) = [deviceId |-> d, since |-> 0, idle |-> usage[s].idle, calls |-> 0]
      BY <1>0, <2>2 DEF UsageEntry, Usage
    <3> QED BY <1>0, <3>1 DEF Usage, Counted
  <2> QED BY <2>1, <2>2
<1>2. ASSUME NEW x \in Usage, x.deviceId = d, Counted(x)
      PROVE  LET y == InTokenWindow(x) IN y \in Usage /\ y.deviceId = d /\ Counted(y)
  <2>1. CASE x.since > TOKEN_WINDOW
    <3>1. InTokenWindow(x) = [deviceId |-> d, since |-> 0, idle |-> x.idle, calls |-> 0]
      BY <1>2, <2>1 DEF InTokenWindow, Usage
    <3> QED BY <1>2, <3>1 DEF Usage, Counted
  <2>2. CASE ~(x.since > TOKEN_WINDOW)
    BY <1>2, <2>2 DEF InTokenWindow
  <2> QED BY <2>1, <2>2
<1> QED BY <1>1, <1>2

\* Writing the slot of device d keeps the table's invariant, when its device's
\* last command is as it was, or now.
LEMMA SlotWritten ==
  ASSUME UsageInv, NEW d \in Devices, NEW s \in UsageSlots(d),
         NEW y \in Usage, y.deviceId = d,
         usage' = [usage EXCEPT ![s] = y],
         \/ quietFor' = quietFor /\ Counted(y)
         \/ quietFor' = [quietFor EXCEPT ![d] = 0]
  PROVE  UsageInv'
<1> USE Constants
<1>0. s \in Slots /\ \A t \in Slots : t # s => usage[t].deviceId # d
  BY SlotTaken DEF UsageInv
<1>1. usage' \in [Slots -> Usage] /\ quietFor' \in [Devices -> 0..TokenAge]
  BY <1>0 DEF UsageInv
<1>2. ASSUME NEW t \in Slots PROVE usage'[t] = IF t = s THEN y ELSE usage[t]
  BY <1>0 DEF UsageInv
<1>3. ASSUME NEW t \in Slots, NEW u \in Slots, usage'[t].deviceId = usage'[u].deviceId
      PROVE  t = u \/ usage'[t].deviceId = None
  BY <1>0, <1>2, <1>3 DEF UsageInv
<1>4. ASSUME NEW t \in Slots PROVE Counted(usage[t])'
  <2>1. usage[t] \in Usage /\ Counted(usage[t])
    BY DEF UsageInv
  <2>2. \A e \in Devices : quietFor'[e] <= quietFor[e]
    BY DEF UsageInv
  <2>3. CASE t = s
    <3>1. usage'[t] = y
      BY <1>2, <2>3
    <3>2. y.since \in Nat
      BY DEF Usage
    <3>3. quietFor'[d] = 0 \/ (quietFor' = quietFor /\ Counted(y))
      BY DEF UsageInv
    <3> QED BY <3>1, <3>2, <3>3 DEF Counted
  <2>4. CASE t # s
    <3>1. usage'[t] = usage[t]
      BY <1>2, <2>4
    <3>2. \A e \in Devices : quietFor'[e] \in Nat /\ quietFor[e] \in Nat
      BY <1>1 DEF UsageInv
    <3>3. usage[t].since \in Nat
      BY <2>1 DEF Usage
    <3> QED BY <2>1, <2>2, <3>1, <3>2, <3>3 DEF Counted
  <2> QED BY <2>3, <2>4
<1> QED BY <1>1, <1>3, <1>4 DEF UsageInv

----------------------------------------------------------------------------
LEMMA Initially == Init => IInv
<1> SUFFICES ASSUME Init PROVE IInv
  OBVIOUS
<1> USE Constants DEF Init
<1>1. LoopInv /\ ClockInv
  BY DEF LoopInv, ClockInv
<1>2. ButtonInv
  <2>1. pressed \in BOOLEAN /\ wasPressed \in BOOLEAN
    BY Zenon
  <2>2. heldFor \in 0..FACTORY_RESET_HOLD
    OBVIOUS
  <2>3. steadyFor \in Nat /\ gripFor \in 0..PAIRING_HOLD
    OBVIOUS
  <2> QED BY <2>1, <2>2, <2>3 DEF ButtonInv
<1>6. GripInv
  BY Zenon DEF GripInv
<1>3. WindowInv
  BY DEF WindowInv, Radios
<1>4. PairedInv
  BY FS_EmptySet DEF PairedInv
<1>5. UsageInv
  BY DEF UsageInv, Usage, Empty, Counted
<1> QED BY <1>1, <1>2, <1>3, <1>4, <1>5, <1>6 DEF IInv

\* Which actions change which group of variables.
LEMMA Frames ==
  ASSUME Next
  PROVE  /\ UNCHANGED pressed \/ Press \/ Release
         /\ UNCHANGED wasPressed \/ wasPressed' = FALSE \/ wasPressed' = TRUE
         /\ UNCHANGED heldFor \/ heldFor' = 0 \/ Tick
         /\ \/ /\ UNCHANGED windowVars /\ UNCHANGED passFor
               /\ (UNCHANGED phase \/ Goto("button", "access") \/ Goto("serve", "wifiPoll"))
            \/ ButtonHeld \/ FactoryReset \/ Access \/ WifiPoll \/ BlePoll \/ Tick \/ Crash
            \/ \E d \in Devices, stamp \in Stamps : handlePair(d, stamp)
            \/ \E d \in Devices : PairingCallback(d)
         /\ \/ UNCHANGED paired \/ FactoryReset \/ Crash
            \/ \E d \in Devices, r \in Radios : Pair(r, d)
            \/ \E d \in Devices : handleUnpair(d)
         /\ UNCHANGED clock \/ clock' = "unset" \/ \E stamp \in Stamps : clock' = Told(stamp)
         /\ \/ UNCHANGED <<usage, quietFor>>
            \/ FactoryReset \/ Tick \/ Crash
            \/ \E d \in Devices, stamp \in Stamps :
                 WrongToken(d, stamp) \/ handleCommand(d, stamp)
<1> USE DEF windowVars, phoneVars, buttonVars, hand, loopOther, bleOther, Radios, Served,
            Next, Loop, Button, Serve, Ble, Hand
<1>1. CASE ButtonUp \/ ButtonHeld \/ Access \/ WifiPoll \/ BlePoll
  BY <1>1 DEF ButtonUp, ButtonHeld, Access, WifiPoll, BlePoll
<1>2. CASE FactoryReset \/ Crash
  BY <1>2 DEF FactoryReset, Crash, Restart
<1>3. CASE Tick
  BY <1>3 DEF Tick
<1>4. CASE Refuse
  BY <1>4 DEF Refuse
<1>5. ASSUME NEW stamp \in Stamps, GetMacros(stamp)
      PROVE  /\ UNCHANGED <<buttonVars, windowVars, passFor, paired, usage, quietFor>>
             /\ Goto("serve", "wifiPoll") /\ clock' = Told(stamp)
  BY <1>5 DEF GetMacros
<1>6. ASSUME NEW d \in Devices, handleUnpair(d)
      PROVE  /\ UNCHANGED <<buttonVars, windowVars, passFor, clock, usage, quietFor>>
             /\ Goto("serve", "wifiPoll")
  BY <1>6 DEF handleUnpair
<1>7. ASSUME NEW d \in Devices, NEW stamp \in Stamps, handlePair(d, stamp)
      PROVE  clock' = Told(stamp) /\ UNCHANGED <<buttonVars, usage, quietFor>> /\ Pair("wifi", d)
  BY <1>7 DEF handlePair
<1>8. ASSUME NEW d \in Devices, NEW stamp \in Stamps, WrongToken(d, stamp)
      PROVE  UNCHANGED <<buttonVars, windowVars, passFor, paired, clock>> /\ Goto("serve", "wifiPoll")
  BY <1>8 DEF WrongToken
<1>9. ASSUME NEW d \in Devices, NEW stamp \in Stamps, handleCommand(d, stamp)
      PROVE  /\ UNCHANGED <<buttonVars, windowVars, passFor, paired>> /\ Goto("serve", "wifiPoll")
             /\ UNCHANGED clock \/ clock' = Told(stamp)
  BY <1>9 DEF handleCommand
<1>10. ASSUME NEW d \in Devices, PairingCallback(d)
       PROVE  UNCHANGED <<buttonVars, usage, quietFor, clock>> /\ Pair("ble", d)
  BY <1>10 DEF PairingCallback
<1>11. ASSUME NEW d \in Devices, NEW stamp \in Stamps, CommandCallback(d, stamp)
       PROVE  /\ UNCHANGED <<buttonVars, windowVars, phase, passFor, paired, usage, quietFor>>
              /\ clock' = Told(stamp)
  BY <1>11 DEF CommandCallback
<1>12. ASSUME NEW stamp \in Stamps, TimeSyncCallback(stamp)
       PROVE  /\ UNCHANGED <<buttonVars, windowVars, phase, passFor, paired, usage, quietFor>>
              /\ clock' = Told(stamp)
  BY <1>12 DEF TimeSyncCallback
<1>13. CASE Hand
  BY <1>13
<1>14. CASE ButtonDown
  BY <1>14 DEF ButtonDown
<1> HIDE DEF windowVars, phoneVars, loopOther, bleOther, Hand
<1> QED BY <1>1, <1>2, <1>3, <1>4, <1>5, <1>6, <1>7, <1>8, <1>9, <1>10, <1>11, <1>12, <1>13, <1>14

LEMMA LoopStep == LoopInv /\ Next => LoopInv'
<1> SUFFICES ASSUME LoopInv, Next PROVE LoopInv'
  OBVIOUS
<1> USE Constants DEF LoopInv, Goto
<1>1. CASE UNCHANGED passFor /\ (UNCHANGED phase \/ Goto("button", "access")
                                                \/ Goto("serve", "wifiPoll"))
  BY <1>1
<1>2. CASE ButtonHeld \/ Access \/ WifiPoll \/ BlePoll
  BY <1>2 DEF ButtonHeld, Access, WifiPoll, BlePoll
<1>5. CASE FactoryReset \/ Crash
  BY <1>5 DEF FactoryReset, Crash, Restart
<1>6. CASE Tick
  <2>1. phase = "access" /\ UNCHANGED phase
    BY <1>6, Zenon DEF Tick
  <2>2. passFor' \in 0..PassMax
    <3>1. passFor < PassMax /\ passFor' = passFor + 1
      BY <1>6, Zenon DEF Tick
    <3> QED BY <3>1
  <2> QED BY <2>1, <2>2
<1>3. ASSUME NEW d \in Devices, NEW stamp \in Stamps, handlePair(d, stamp) PROVE LoopInv'
  BY <1>3 DEF handlePair, Served, loopOther
<1>4. ASSUME NEW d \in Devices, PairingCallback(d) PROVE LoopInv'
  BY <1>4 DEF PairingCallback, bleOther, loopOther
<1> QED BY <1>1, <1>2, <1>3, <1>4, <1>5, <1>6, Frames

\* Which actions change what GripInv speaks of.
LEMMA HandFrames ==
  ASSUME Next
  PROVE  /\ UNCHANGED <<steadyFor, gripFor>> \/ Press \/ Release \/ Tick
         /\ \/ wasPressed' = FALSE \/ ButtonDown \/ ButtonHeld \/ Tick \/ Hand
            \/ /\ UNCHANGED buttonVars
               /\ phase' # "access" \/ UNCHANGED <<phase, passFor>>
<1> USE DEF buttonVars, hand, loopOther, bleOther, Served, Goto
<1>1. ASSUME Button PROVE wasPressed' = FALSE \/ ButtonDown \/ ButtonHeld
  BY <1>1 DEF Button, ButtonUp, FactoryReset, Restart
<1>2. ASSUME Button PROVE UNCHANGED <<steadyFor, gripFor>>
  BY <1>2 DEF Button, ButtonUp, ButtonDown, ButtonHeld, FactoryReset, Restart
<1>3. ASSUME Access \/ WifiPoll \/ BlePoll PROVE UNCHANGED buttonVars /\ phase' # "access"
  BY <1>3 DEF Access, WifiPoll, BlePoll
<1>4. ASSUME Serve PROVE UNCHANGED buttonVars /\ phase' # "access"
  BY <1>4 DEF Serve, Refuse, GetMacros, handleUnpair, handlePair, WrongToken, handleCommand
<1>5. ASSUME Ble PROVE UNCHANGED <<buttonVars, phase, passFor>>
  BY <1>5 DEF Ble, PairingCallback, CommandCallback, TimeSyncCallback
<1>6. ASSUME Crash PROVE wasPressed' = FALSE /\ UNCHANGED <<steadyFor, gripFor>>
  BY <1>6 DEF Crash, Restart
<1>7. ASSUME Hand PROVE Press \/ Release
  BY <1>7 DEF Hand
<1> QED BY <1>1, <1>2, <1>3, <1>4, <1>5, <1>6, <1>7 DEF Next, Loop

\* How time passes for the hand and for the code.
LEMMA TickAges ==
  ASSUME ButtonInv, Tick
  PROVE  /\ phase = "access" /\ UNCHANGED <<phase, pressed, wasPressed>>
         /\ passFor < PassMax /\ passFor' = passFor + 1
         /\ HandAges /\ heldFor' = Older(heldFor, FACTORY_RESET_HOLD)
<1>1. phase = "access" /\ UNCHANGED <<phase, pressed, wasPressed>>
  BY Zenon DEF Tick
<1>2. passFor < PassMax /\ passFor' = passFor + 1
  BY Zenon DEF Tick
<1>3. HandAges /\ heldFor' = Older(heldFor, FACTORY_RESET_HOLD)
  BY Zenon DEF Tick
<1> QED BY <1>1, <1>2, <1>3

LEMMA ButtonStep == ButtonInv /\ Next => ButtonInv'
<1> SUFFICES ASSUME ButtonInv, Next PROVE ButtonInv'
  OBVIOUS
<1>1. pressed' \in BOOLEAN
  BY Frames, Zenon DEF ButtonInv, Press, Release
<1>2. wasPressed' \in BOOLEAN
  BY Frames, Zenon DEF ButtonInv
<1>3. heldFor' \in 0..FACTORY_RESET_HOLD
  <2>1. heldFor' \in {heldFor, 0, Older(heldFor, FACTORY_RESET_HOLD)}
    BY Frames DEF Tick
  <2> QED BY <2>1, Constants DEF ButtonInv, Older
<1>4. steadyFor' \in Nat /\ gripFor' \in 0..PAIRING_HOLD
  <2>1. CASE UNCHANGED <<steadyFor, gripFor>>
    BY <2>1 DEF ButtonInv
  <2>2. CASE Press \/ Release
    BY <2>2 DEF ButtonInv, Press, Release
  <2>3. CASE Tick
    BY <2>3, TickAges, Constants DEF ButtonInv, HandAges, Older
  <2> QED BY <2>1, <2>2, <2>3, HandFrames
<1> QED BY <1>1, <1>2, <1>3, <1>4 DEF ButtonInv

\* The grip lasts as long as the code takes the button to be held.
LEMMA GripStep == LoopInv /\ ButtonInv /\ GripInv /\ Next => GripInv'
<1> SUFFICES ASSUME LoopInv, ButtonInv, GripInv, Next, wasPressed'
             PROVE  /\ gripFor' >= heldFor' \/ gripFor' >= PAIRING_HOLD
                    /\ ~pressed' => steadyFor' <= SincePoll'
  BY Zenon DEF GripInv
<1>0. /\ heldFor \in Nat /\ steadyFor \in Nat /\ gripFor \in Nat
      /\ passFor \in Nat /\ passFor <= PassMax
  BY Constants DEF ButtonInv, LoopInv
<1>1. CASE ButtonDown
  <2>1. pressed' /\ heldFor' = 0 /\ UNCHANGED gripFor
    BY <1>1 DEF ButtonDown, hand
  <2> QED BY <1>0, <2>1
<1>2. CASE ButtonHeld
  <2>1. pressed' /\ wasPressed /\ UNCHANGED <<heldFor, gripFor>>
    BY <1>2 DEF ButtonHeld, buttonVars, hand
  <2> QED BY <2>1 DEF GripInv
<1>3. CASE Tick
  <2>1. wasPressed /\ UNCHANGED pressed
    BY <1>3, TickAges, Zenon
  <2>2. /\ gripFor >= heldFor \/ gripFor >= PAIRING_HOLD
        /\ ~pressed => steadyFor <= passFor
    BY <1>3, <2>1, TickAges DEF GripInv, SincePoll
  <2>3. ~(~pressed /\ steadyFor >= PassMax)
    BY <1>0, <1>3, <2>2, TickAges, Constants
  <2>4. gripFor' = Older(gripFor, PAIRING_HOLD)
    BY <1>3, <2>3, TickAges DEF HandAges
  <2>5. steadyFor' <= steadyFor + 1
    BY <1>0, <1>3, TickAges, Constants DEF HandAges, Older
  <2>6. ~pressed => steadyFor' <= passFor'
    <3> SUFFICES ASSUME ~pressed PROVE steadyFor' <= passFor'
      OBVIOUS
    <3>1. steadyFor' \in Nat
      BY ButtonStep DEF ButtonInv
    <3>2. passFor' = passFor + 1
      BY <1>3, TickAges
    <3> QED BY <1>0, <2>2, <2>5, <3>1, <3>2
  <2>7. SincePoll' = passFor'
    BY <1>3, TickAges DEF SincePoll
  <2>8. gripFor' >= heldFor' \/ gripFor' >= PAIRING_HOLD
    BY <1>0, <1>3, <2>2, <2>4, TickAges, Constants DEF Older
  <2> QED BY <2>1, <2>6, <2>7, <2>8
<1>4. CASE Hand
  <2>1. UNCHANGED <<phase, passFor, wasPressed, heldFor, gripFor>>
    BY <1>4 DEF Hand, Press, Release
  <2>2. ~pressed' => steadyFor' = 0
    BY <1>4 DEF Hand, Press, Release
  <2> QED BY <1>0, <2>1, <2>2, Constants DEF GripInv, SincePoll
<1>5. CASE /\ UNCHANGED buttonVars
           /\ phase' # "access" \/ UNCHANGED <<phase, passFor>>
  <2>1. wasPressed /\ UNCHANGED <<pressed, heldFor, steadyFor, gripFor>>
    BY <1>5 DEF buttonVars, hand
  <2>2. SincePoll <= SincePoll'
    BY <1>0, <1>5, Constants DEF SincePoll
  <2>3. SincePoll \in Nat /\ SincePoll' \in Nat
    BY <1>0, <1>5, Constants DEF SincePoll
  <2> QED BY <1>0, <2>1, <2>2, <2>3 DEF GripInv
<1> QED BY <1>1, <1>2, <1>3, <1>4, <1>5, HandFrames

LEMMA ClockStep == ClockInv /\ Next => ClockInv'
BY Frames DEF ClockInv, Told

LEMMA PairedStep == PairedInv /\ Next => PairedInv'
<1> SUFFICES ASSUME PairedInv, Next PROVE PairedInv'
  OBVIOUS
<1> USE Constants DEF PairedInv
<1>0. Cardinality(paired) \in Nat
  BY FS_CardinalityType
<1>1. CASE UNCHANGED paired \/ FactoryReset \/ Crash
  BY <1>1, FS_EmptySet DEF FactoryReset, Crash, Restart
<1>2. ASSUME NEW d \in Devices, handleUnpair(d) PROVE PairedInv'
  <2>1. /\ IsFiniteSet(paired \ {d})
        /\ Cardinality(paired \ {d}) = IF d \in paired THEN Cardinality(paired) - 1
                                       ELSE Cardinality(paired)
    BY FS_RemoveElement
  <2>2. paired' = paired \ {d}
    BY <1>2 DEF handleUnpair
  <2> QED BY <1>0, <2>1, <2>2
<1>3. ASSUME NEW d \in Devices, NEW r \in Radios, Pair(r, d) PROVE PairedInv'
  <2>1. CASE Full(d)
    BY <1>1, <1>3, <2>1 DEF Pair
  <2>2. CASE ~Full(d)
    <3> DEFINE P == paired \ {d}
    <3>1. IsFiniteSet(P) /\ Cardinality(P) \in Nat /\ d \notin P
      BY FS_RemoveElement, FS_CardinalityType
    <3>2. Cardinality(P \cup {d}) = Cardinality(P) + 1 /\ IsFiniteSet(P \cup {d})
      BY <3>1, FS_AddElement
    <3>3. paired' = P \cup {d}
      BY <1>3, <2>2 DEF Pair
    <3>4. Cardinality(P) < MAX_PAIRED_PHONES
      BY <2>2, <3>1 DEF Full
    <3>5. P \cup {d} \subseteq Devices
      OBVIOUS
    <3> HIDE DEF P
    <3> QED BY <3>1, <3>2, <3>3, <3>4, <3>5
  <2> QED BY <2>1, <2>2
<1> QED BY <1>1, <1>2, <1>3, Frames

\* An open window is no older than Due, and nobody has paired through it.
LEMMA WindowStep == LoopInv /\ WindowInv /\ Next => WindowInv'
<1> SUFFICES ASSUME LoopInv, WindowInv, Next PROVE WindowInv'
  OBVIOUS
<1> USE Constants DEF LoopInv, WindowInv, Goto, Due, WindowAge
<1>0. \A r \in Radios : openFor[r] \in Nat /\ pairings[r] \in Nat
  OBVIOUS
<1>1. CASE UNCHANGED windowVars /\ UNCHANGED passFor
           /\ (UNCHANGED phase \/ Goto("button", "access") \/ Goto("serve", "wifiPoll"))
  BY <1>0, <1>1 DEF windowVars
<1>2. CASE ButtonHeld
  <2>1. CASE UNCHANGED windowVars
    BY <1>1, <1>2, <2>1 DEF ButtonHeld
  <2>2. CASE ~UNCHANGED windowVars
    <3>1. /\ open' = [r \in Radios |-> TRUE] /\ openFor' = [r \in Radios |-> 0]
          /\ pairings' = [r \in Radios |-> 0] /\ phase' = "access" /\ UNCHANGED passFor
      BY <1>2, <2>2, Zenon DEF ButtonHeld
    <3> QED BY <3>1
  <2> QED BY <2>1, <2>2
<1>3. CASE FactoryReset \/ Crash
  <2>1. /\ open' = [r \in Radios |-> FALSE] /\ openFor' = [r \in Radios |-> 0]
        /\ pairings' = [r \in Radios |-> 0]
    BY <1>3 DEF FactoryReset, Crash, Restart
  <2> QED BY <2>1
<1>4. CASE Access
  BY <1>0, <1>4 DEF Access, windowVars
<1>5. CASE WifiPoll
  <2>1. open' = [open EXCEPT !["wifi"] = open["wifi"] /\ ~Expired("wifi")]
    BY <1>5 DEF WifiPoll, Poll
  <2>2. open' \in [Radios -> BOOLEAN] /\ \A r \in Radios : open'[r] => open[r]
    BY <2>1 DEF Radios
  <2>3. open'["wifi"] => ~Expired("wifi")
    BY <2>1 DEF Radios
  <2>4. UNCHANGED <<openFor, pairings, passFor>> /\ phase = "wifiPoll" /\ phase' = "blePoll"
    BY <1>5 DEF WifiPoll
  <2> QED BY <1>0, <2>2, <2>3, <2>4 DEF Expired
<1>6. CASE BlePoll
  <2>1. open' = [open EXCEPT !["ble"] = open["ble"] /\ ~Expired("ble")]
    BY <1>6 DEF BlePoll, Poll
  <2>2. open' \in [Radios -> BOOLEAN] /\ \A r \in Radios : open'[r] => open[r]
    BY <2>1 DEF Radios
  <2>3. open'["ble"] => ~Expired("ble")
    BY <2>1 DEF Radios
  <2>4. UNCHANGED <<openFor, pairings, passFor>> /\ phase = "blePoll" /\ phase' = "button"
    BY <1>6 DEF BlePoll
  <2> QED BY <1>0, <2>2, <2>3, <2>4 DEF Expired, Radios
<1>7. CASE Tick
  <2>1. phase = "access" /\ UNCHANGED <<phase, open, pairings>>
    BY <1>7, Zenon DEF Tick
  <2>5. passFor < PassMax /\ passFor' = passFor + 1
    BY <1>7, Zenon DEF Tick
  <2>2. openFor' = [r \in Radios |-> Older(openFor[r], WindowAge)]
    BY <1>7 DEF Tick
  <2>3. openFor' \in [Radios -> 0..WindowAge]
    BY <2>2 DEF Older
  <2>4. \A r \in Radios : openFor'[r] <= openFor[r] + 1
    BY <1>0, <2>2 DEF Older
  <2> QED BY <1>0, <2>1, <2>3, <2>4, <2>5
<1>8. ASSUME NEW d \in Devices, NEW r \in Radios, Pair(r, d),
             UNCHANGED <<passFor, openFor>>,
             UNCHANGED phase \/ Goto("serve", "wifiPoll")
      PROVE  WindowInv'
  <2>1. CASE UNCHANGED <<open, pairings>>
    BY <1>1, <1>8, <2>1 DEF windowVars
  <2>2. CASE open' = CloseAfter(r) /\ pairings' = [pairings EXCEPT ![r] = @ + 1]
    <3>1. open' \in [Radios -> BOOLEAN] /\ pairings' \in [Radios -> Nat]
      BY <2>2 DEF CloseAfter
    <3>2. ASSUME NEW s \in Radios, open'[s]
          PROVE  open[s] /\ pairings'[s] = pairings[s]
      BY <2>2, <3>2 DEF CloseAfter
    <3>3. \A s \in Radios : Due(s)' = Due(s)
      BY <1>8
    <3> QED BY <1>0, <1>8, <3>1, <3>2, <3>3
  <2> QED BY <1>8, <2>1, <2>2 DEF Pair
<1>9. ASSUME NEW d \in Devices, NEW stamp \in Stamps, handlePair(d, stamp) PROVE WindowInv'
  BY <1>8, <1>9 DEF handlePair, Served, loopOther, Radios
<1>10. ASSUME NEW d \in Devices, PairingCallback(d) PROVE WindowInv'
  BY <1>8, <1>10 DEF PairingCallback, bleOther, loopOther, Radios
<1> QED BY <1>1, <1>2, <1>3, <1>4, <1>5, <1>6, <1>7, <1>9, <1>10, Frames

LEMMA UsageStep == UsageInv /\ Next => UsageInv'
<1> SUFFICES ASSUME UsageInv, Next PROVE UsageInv'
  OBVIOUS
<1> USE Constants
<1>1. CASE UNCHANGED <<usage, quietFor>>
  BY <1>1 DEF UsageInv, Counted
<1>2. CASE FactoryReset \/ Crash
  <2>1. usage' = [s \in Slots |-> Empty] /\ quietFor' = [d \in Devices |-> TokenAge]
    BY <1>2 DEF FactoryReset, Crash, Restart
  <2> QED BY <2>1 DEF UsageInv, Usage, Empty, Counted
<1>3. CASE Tick
  <2> DEFINE Aged(x) == [x EXCEPT !.since = Older(@, TokenAge), !.idle = Older(@, TokenAge)]
  <2>1. /\ usage' = [s \in Slots |-> Aged(usage[s])]
        /\ quietFor' = [d \in Devices |-> Older(quietFor[d], TokenAge)]
    BY <1>3, Zenon DEF Tick
  <2>2. ASSUME NEW x \in Usage
        PROVE  /\ Aged(x) \in Usage
               /\ Aged(x).deviceId = x.deviceId /\ Aged(x).calls = x.calls
               /\ Aged(x).since = Older(x.since, TokenAge)
    <3> DEFINE m == Older(x.since, TokenAge)
               n == Older(x.idle, TokenAge)
    <3>1. x.since \in 0..TokenAge /\ x.idle \in 0..TokenAge
      BY DEF Usage
    <3>2. m \in 0..TokenAge /\ n \in 0..TokenAge
      BY <3>1 DEF Older
    <3>3. Aged(x) = [x EXCEPT !.since = m, !.idle = n]
      OBVIOUS
    <3> HIDE DEF m, n, Aged
    <3>4. Aged(x) = [deviceId |-> x.deviceId, since |-> m, idle |-> n, calls |-> x.calls]
      BY <3>3 DEF Usage
    <3> QED BY <3>2, <3>4 DEF Usage, m
  <2> HIDE DEF Aged
  <2>3. \A s \in Slots : usage[s] \in Usage /\ usage'[s] = Aged(usage[s]) /\ Counted(usage[s])
    BY <2>1 DEF UsageInv
  <2>4. usage' \in [Slots -> Usage]
    BY <2>1, <2>2, <2>3
  <2>5. quietFor' \in [Devices -> 0..TokenAge]
    BY <2>1 DEF UsageInv, Older
  <2>6. ASSUME NEW s \in Slots, NEW t \in Slots, usage'[s].deviceId = usage'[t].deviceId
        PROVE  s = t \/ usage'[s].deviceId = None
    BY <2>2, <2>3, <2>6 DEF UsageInv
  <2>7. ASSUME NEW s \in Slots PROVE Counted(usage[s])'
    <3> DEFINE x == usage[s]
               d == x.deviceId
    <3>1. x \in Usage /\ Counted(x) /\ x.since \in 0..TokenAge
      BY <2>3 DEF Usage
    <3>2. /\ usage'[s].deviceId = d /\ usage'[s].calls = x.calls
          /\ usage'[s].since = Older(x.since, TokenAge)
      BY <2>2, <2>3
    <3>3. ASSUME d \in Devices, x.calls > 0
          PROVE  quietFor'[d] <= usage'[s].since
      <4>1. quietFor'[d] = Older(quietFor[d], TokenAge) /\ quietFor[d] \in 0..TokenAge
        BY <2>1, <3>3 DEF UsageInv
      <4>2. quietFor[d] <= x.since
        BY <3>1, <3>3 DEF Counted
      <4> QED BY <3>1, <3>2, <4>1, <4>2 DEF Older
    <3> QED BY <3>2, <3>3 DEF Counted
  <2> QED BY <2>4, <2>5, <2>6, <2>7 DEF UsageInv
<1>4. ASSUME NEW d \in Devices, NEW stamp \in Stamps, WrongToken(d, stamp) PROVE UsageInv'
  <2>1. PICK s \in UsageSlots(d) : usage' = [usage EXCEPT ![s] = UsageEntry(s, d)]
    BY <1>4 DEF WrongToken
  <2>2. UNCHANGED quietFor
    BY <1>4 DEF WrongToken
  <2> QED BY <2>1, <2>2, EntryWritten, SlotWritten
<1>5. ASSUME NEW d \in Devices, NEW stamp \in Stamps, handleCommand(d, stamp) PROVE UsageInv'
  <2> DEFINE x(s) == InTokenWindow(UsageEntry(s, d))
             y(s) == [x(s) EXCEPT !.calls = @ + 1, !.idle = 0]
  <2>1. PICK s \in UsageSlots(d) :
          \/ usage' = [usage EXCEPT ![s] = x(s)] /\ UNCHANGED quietFor
          \/ /\ ~(x(s).calls >= MAX_CALLS)
             /\ usage' = [usage EXCEPT ![s] = y(s)]
             /\ quietFor' = [quietFor EXCEPT ![d] = 0]
    BY <1>5, Zenon DEF handleCommand
  <2>2. x(s) \in Usage /\ x(s).deviceId = d /\ Counted(x(s))
    BY EntryWritten
  <2>3. ASSUME ~(x(s).calls >= MAX_CALLS)
        PROVE  y(s) \in Usage /\ y(s).deviceId = d
    <3> DEFINE z == x(s)
               n == z.calls + 1
    <3>1. z \in Usage /\ z.deviceId = d /\ ~(z.calls >= MAX_CALLS) /\ y(s) = [z EXCEPT !.calls = n, !.idle = 0]
      BY <2>2, <2>3
    <3> HIDE DEF z, x, y
    <3>2. n \in 0..MAX_CALLS
      BY <3>1 DEF Usage
    <3> HIDE DEF n
    <3>3. y(s) = [deviceId |-> z.deviceId, since |-> z.since, idle |-> 0, calls |-> n]
      BY <3>1 DEF Usage
    <3> QED BY <3>1, <3>2, <3>3 DEF Usage
  <2> HIDE DEF x, y
  <2> QED BY <2>1, <2>2, <2>3, SlotWritten
<1> QED BY <1>1, <1>2, <1>3, <1>4, <1>5, Frames

LEMMA NextStep == IInv /\ [Next]_vars => IInv'
<1>1. IInv /\ Next => IInv'
  BY LoopStep, ButtonStep, GripStep, ClockStep, PairedStep, WindowStep, UsageStep DEF IInv
<1>2. IInv /\ UNCHANGED vars => IInv'
  BY DEF vars, buttonVars, hand, windowVars, phoneVars, IInv, LoopInv, ButtonInv,
         GripInv, SincePoll, WindowInv,
         Due, PairedInv, ClockInv, UsageInv, Counted
<1> QED BY <1>1, <1>2

LEMMA Invariance == Spec => []IInv
BY Initially, NextStep, PTL DEF Spec

----------------------------------------------------------------------------
\* Every variable keeps its type: the phone table never outgrows
\* MAX_PAIRED_PHONES, and no device has two entries of tokenUsage.
THEOREM TypeCorrect == Spec => []TypeOK
<1>1. IInv => TypeOK
  <2> SUFFICES ASSUME IInv PROVE TypeOK
    OBVIOUS
  <2>1. {pressed, wasPressed} \subseteq BOOLEAN
    BY Zenon DEF IInv, ButtonInv
  <2> QED BY <2>1 DEF IInv, LoopInv, ButtonInv, WindowInv, PairedInv, ClockInv, UsageInv,
                      Usage, TypeOK
<1> QED BY <1>1, Invariance, PTL

\* A paired phone quiet for a window of the limit per device is not refused by
\* that limit, whichever entry it is given.
THEOREM QuietServed == Spec => []QuietPhoneServed
<1>1. IInv => QuietPhoneServed
  <2> SUFFICES ASSUME IInv, NEW d \in paired, quietFor[d] >= TokenAge,
                      NEW s \in UsageSlots(d)
               PROVE  InTokenWindow(UsageEntry(s, d)).calls < MAX_CALLS
    BY DEF QuietPhoneServed
  <2> DEFINE x == UsageEntry(s, d)
  <2>1. d \in Devices /\ quietFor[d] \in 0..TokenAge
    BY DEF IInv, PairedInv, UsageInv
  <2>2. x \in Usage /\ x.deviceId = d /\ Counted(x)
    BY <2>1, EntryWritten DEF IInv
  <2> HIDE DEF x
  <2>3. x.calls = 0 \/ x.since > TOKEN_WINDOW
    BY <2>1, <2>2, Constants DEF Usage, Counted, TokenAge
  <2>4. InTokenWindow(x).calls = 0
    BY <2>2, <2>3 DEF InTokenWindow, Usage
  <2> QED BY <2>4, Constants DEF x
<1> QED BY <1>1, Invariance, PTL

\* A window opens or starts anew only at a hold of the button itself, and a
\* device is paired only through a window that such a hold opened within its
\* length and a pass of the loop, and only the first since.
THEOREM Paired == Spec => PairedByHold
<1>1. IInv /\ [Next]_vars => PairsByHold \/ UNCHANGED vars
  <2> SUFFICES ASSUME IInv, Next, NEW r \in Radios
               PROVE  /\ open'[r] /\ (~open[r] \/ openFor'[r] < openFor[r]) =>
                           pressed /\ gripFor >= PAIRING_HOLD
                      /\ pairings'[r] > pairings[r] =>
                           pairings[r] = 0 /\ openFor[r] <= PAIRING_WINDOW + PassMax
    BY Zenon DEF PairsByHold
  <2> USE Constants
  <2>0. /\ pairings[r] \in Nat /\ openFor[r] \in Nat
        /\ open[r] => pairings[r] = 0 /\ openFor[r] <= PAIRING_WINDOW + PassMax
    BY DEF IInv, WindowInv, LoopInv, Due
  <2>1. CASE UNCHANGED <<open, openFor, pairings>>
    BY <2>0, <2>1
  <2>2. CASE ButtonHeld
    <3>1. CASE heldFor >= PAIRING_HOLD
      <4>1. pressed /\ wasPressed /\ pairings'[r] = 0
        BY <2>2, <3>1 DEF ButtonHeld
      <4>2. gripFor >= PAIRING_HOLD
        BY <3>1, <4>1 DEF IInv, GripInv, ButtonInv
      <4> QED BY <2>0, <4>1, <4>2
    <3>2. CASE ~(heldFor >= PAIRING_HOLD)
      BY <2>1, <2>2, <3>2 DEF ButtonHeld, windowVars
    <3> QED BY <3>1, <3>2
  <2>3. CASE FactoryReset \/ Crash
    <3>1. ~open'[r] /\ pairings'[r] = 0
      BY <2>3 DEF FactoryReset, Crash, Restart
    <3> QED BY <2>0, <3>1
  <2>4. CASE WifiPoll \/ BlePoll
    <3>1. UNCHANGED <<openFor, pairings>> /\ \E s \in Radios : Poll(s)
      BY <2>4 DEF WifiPoll, BlePoll, Radios
    <3>2. open'[r] => open[r]
      BY <3>1 DEF Poll, IInv, WindowInv
    <3> QED BY <2>0, <3>1, <3>2
  <2>5. ASSUME NEW d \in Devices, NEW s \in Radios, Pair(s, d), open[s], UNCHANGED openFor
        PROVE  /\ open'[r] => open[r]
               /\ pairings'[r] > pairings[r] => open[r]
    BY <2>0, <2>5 DEF Pair, CloseAfter, IInv, WindowInv
  <2>6. ASSUME NEW d \in Devices, NEW stamp \in Stamps,
               handlePair(d, stamp) \/ PairingCallback(d)
        PROVE  UNCHANGED openFor /\ \E s \in Radios : Pair(s, d) /\ open[s]
    BY <2>6 DEF handlePair, PairingCallback, loopOther, bleOther, Radios
  <2>7. Stamps # {}
    BY DEF Stamps
  <2>8. CASE Tick
    <3>1. openFor'[r] = Older(openFor[r], WindowAge)
      BY <2>8 DEF Tick
    <3>2. ~(openFor'[r] < openFor[r])
      BY <2>0, <3>1 DEF Older
    <3>3. open' = open /\ pairings' = pairings
      BY <2>8, Zenon DEF Tick
    <3> QED BY <2>0, <3>2, <3>3
  <2>9. CASE Access
    BY <2>1, <2>9 DEF Access, windowVars
  <2> QED BY <2>0, <2>1, <2>2, <2>3, <2>4, <2>5, <2>6, <2>7, <2>8, <2>9, Frames DEF windowVars
<1>2. IInv /\ [Next]_vars => [PairsByHold]_vars
  BY <1>1
<1> QED BY <1>2, Invariance, PTL DEF Spec, PairedByHold
=============================================================================
