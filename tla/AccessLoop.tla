----------------------------- MODULE AccessLoop -----------------------------
(***************************************************************************)
(* The access service of lib/access_service/access_service.cpp: one        *)
(* iteration of accessServiceLoop after another, in the Arduino loop task, *)
(* against a reader on which cards come and go, remote commands (WiFi from *)
(* the same task, BLE from a task that pre-empts it) and the passing of    *)
(* time.                                                                   *)
(*                                                                         *)
(* Every timestamp the code compares with millis() is represented by the   *)
(* time elapsed since (or, for invalidTimeoutEnd, left until) it, in ticks *)
(* of the model's clock; a stopwatch that nothing will read before it is   *)
(* restarted stands at 0.  The relay engine is the one RelaySequence       *)
(* promises; MacroExecutor says when the code keeps that promise.          *)
(***************************************************************************)
EXTENDS Naturals, Sequences, FiniteSets

CONSTANTS
  Cards, None,             \* the cards, and no card
  BadLength,               \* cards whose UID has neither 4 nor 7 bytes
  MAX_USER_UIDS,           \* entries in the user table
  MASTER_AWAY_DELAY, MASTER_REDETECT_DELAY, MASTER_HOLD_TIME,
  IMPATIENCE_TIMEOUT, WARNING_TIMEOUT, EXIT_TIMEOUT,
  Lockouts,                \* lockout after the 1st, 2nd, ... counted denial:
                           \* invalidDelays[i] * 1000 + INVALID_BASE_LOCKOUT_MS
  Relays, MAX_STEPS, Macros, MaxElapsed,  \* see RelaySequence
  TagMacro                 \* the macro of slot config.tag_macro

MacroStep == [mask : SUBSET Relays, duration : 0..MaxElapsed, gap : 0..MaxElapsed]

ASSUME LoopConstants ==
  /\ None \notin Cards /\ IsFiniteSet(Cards)
  /\ BadLength \subseteq Cards
  /\ MAX_USER_UIDS \in Nat
  /\ MASTER_AWAY_DELAY \in Nat
  /\ MASTER_REDETECT_DELAY \in Nat /\ MASTER_REDETECT_DELAY >= MASTER_AWAY_DELAY
  /\ MASTER_HOLD_TIME \in Nat \ {0}
  /\ IMPATIENCE_TIMEOUT \in Nat
  /\ WARNING_TIMEOUT \in Nat
  /\ EXIT_TIMEOUT \in Nat /\ EXIT_TIMEOUT > WARNING_TIMEOUT
  /\ Lockouts \in Seq(Nat \ {0}) /\ Lockouts # <<>>
  /\ \A i, j \in DOMAIN Lockouts : i <= j => Lockouts[i] <= Lockouts[j]
  /\ TagMacro \in Macros
  /\ MAX_STEPS \in Nat \ {0} /\ MaxElapsed \in Nat
  /\ Macros \subseteq [step_count : 0..MAX_STEPS, steps : [0..MAX_STEPS - 1 -> MacroStep]]

VARIABLES
  pc,          \* where accessServiceLoop is
  field,       \* the card on the reader, or None
  uid,         \* the local uid while handleUserProgrammingMode waits
  masters, users,                              \* the two UID tables
  masterProgrammingMode, storedUID,            \* handleMasterProgrammingMode
  lastMaster,  \* lastMasterUID when masterPresent, else None
  heldFor,     \* millis() - masterStartTime
  awayFor,     \* millis() - masterLastSeen
  invalidAttempts,
  lockLeft,    \* invalidTimeoutEnd - millis(), or 0
  impatientEnabled, impatient,
  idleFor,     \* millis() - lastActivityTime
  prog,        \* userProgrammingModeActive
  progIdle,    \* millis() - userProgLastActivityTime
  progWarned,  \* userProgWarningGiven
  ledBusy,     \* led.isRunning()
  audioQueued,
  on, job, age,      \* the relay engine
  seenFor, unseenFor, \* ghosts: how long a master has been on the reader, and
                      \* how long ago it was last sighted
  lastLock,    \* ghost: the lockout of the last denial since a card was granted
  event        \* ghost: the last thing that happened to the prompt timer

Relay == INSTANCE RelaySequence

masterVars == <<masterProgrammingMode, storedUID, masters>>
holdVars   == <<lastMaster, heldFor, awayFor, seenFor, unseenFor>>
lockVars   == <<invalidAttempts, lockLeft, lastLock>>
promptVars == <<impatientEnabled, impatient, idleFor, event>>
progVars   == <<prog, progIdle, progWarned>>
relayVars  == <<on, job, age>>
vars == <<pc, field, uid, users, masterVars, holdVars, lockVars, promptVars,
          progVars, ledBusy, audioQueued, relayVars>>

Longest == Lockouts[Len(Lockouts)]

\* Every variable has its type: in particular invalidAttempts always indexes
\* invalidDelays, and the user table never outgrows its storage.
TypeOK ==
  /\ pc \in {"head", "modes", "wait", "scan", "audio"}
  /\ {field, uid, storedUID, lastMaster} \subseteq Cards \cup {None}
  /\ masters \subseteq Cards
  /\ users \subseteq Cards /\ Cardinality(users) <= MAX_USER_UIDS
  /\ {masterProgrammingMode, impatientEnabled, impatient, prog, progWarned,
      ledBusy, audioQueued} \subseteq BOOLEAN
  /\ heldFor \in 0..MASTER_HOLD_TIME
  /\ awayFor \in 0..MASTER_REDETECT_DELAY + 1
  /\ invalidAttempts \in 0..Len(Lockouts) - 1
  /\ lockLeft \in 0..Longest
  /\ idleFor \in 0..IMPATIENCE_TIMEOUT + 1
  /\ progIdle \in 0..EXIT_TIMEOUT + 1
  /\ Relay!TypeOK
  /\ seenFor \in 0..MASTER_HOLD_TIME
  /\ unseenFor \in 0..MASTER_REDETECT_DELAY + 1
  /\ lastLock \in 0..Longest
  /\ event \in {"activity", "granted", "prompted", "programming"}

\* After accessServiceSetup: a fresh device has no master; the user table may
\* be left from an earlier boot.  The LED runs the boot pattern.
InitTables ==
  /\ masters \in {{}} \cup {{c} : c \in Cards \ BadLength}
  /\ users \in {U \in SUBSET (Cards \ (masters \cup BadLength)) : Cardinality(U) <= MAX_USER_UIDS}

InitRest ==
  /\ pc = "head" /\ field = None /\ uid = None
  /\ masterProgrammingMode = (masters = {})
  /\ storedUID = None
  /\ lastMaster = None /\ heldFor = 0 /\ awayFor = 0
  /\ invalidAttempts = 0 /\ lockLeft = 0
  /\ impatientEnabled = TRUE /\ impatient = FALSE /\ idleFor = 0
  /\ prog = FALSE /\ progIdle = 0 /\ progWarned = FALSE
  /\ ledBusy = TRUE /\ audioQueued = FALSE
  /\ Relay!Init
  /\ seenFor = 0 /\ unseenFor = MASTER_REDETECT_DELAY + 1
  /\ lastLock = 0 /\ event = "activity"

Init == InitTables /\ InitRest

----------------------------------------------------------------------------
\* Helpers

Goto(p) == pc' = p /\ UNCHANGED <<field, uid>>

\* rfid.readCard: the card on the reader, or a missed read.
Reads == {field, None}

\* fireMacro: rejected, with no effect, when empty or while a macro runs.
FireMacro(m) ==
  IF Relay!Idle /\ m.step_count # 0 THEN Relay!Start(m) ELSE UNCHANGED relayVars

\* Variants named Mut* are plausible bugs: the checks of this module's
\* properties replace an operator by its variant and expect a violation.

\* Variant of markUserActivity: the prompt already given is not forgotten.
MutMarkUserActivity ==
  /\ impatientEnabled' = TRUE
  /\ idleFor' = 0
  /\ event' = "activity"
  /\ UNCHANGED impatient

markUserActivity ==
  /\ impatientEnabled' = TRUE
  /\ impatient' = FALSE
  /\ idleFor' = 0
  /\ event' = "activity"

SetLed == ledBusy' = TRUE
Quiet  == ~ledBusy /\ ~audioQueued     \* ready to give feedback

----------------------------------------------------------------------------
\* updateHardware: a pattern may end, the relay engine makes one step.

RelayDue ==
  \/ job.phase = "pulse" /\ age >= job.macro.steps[job.step].duration
  \/ job.phase = "gap"   /\ age >= job.macro.steps[job.step].gap

\* Variant of UpdateHardware: the relays are not served while the LED runs.
MutUpdateHardware ==
  /\ pc = "head"
  /\ IF RelayDue /\ ~ledBusy THEN Relay!EndPulse \/ Relay!EndGap ELSE UNCHANGED relayVars
  /\ ledBusy' \in {ledBusy, FALSE}
  /\ Goto("modes")
  /\ UNCHANGED <<users, masterVars, holdVars, lockVars, promptVars, progVars, audioQueued>>

UpdateHardware ==
  /\ pc = "head"
  /\ IF RelayDue THEN Relay!EndPulse \/ Relay!EndGap ELSE UNCHANGED relayVars
  /\ ledBusy' \in {ledBusy, FALSE}
  /\ Goto("modes")
  /\ UNCHANGED <<users, masterVars, holdVars, lockVars, promptVars, progVars, audioQueued>>

----------------------------------------------------------------------------
\* handleMasterProgrammingMode: the first card seen becomes the master once it
\* is gone.  The loop does nothing else until then.

MasterProgramming(c) ==
  /\ pc = "modes" /\ masterProgrammingMode
  /\ IF storedUID = None
       THEN /\ storedUID' = c
            /\ ledBusy' = (ledBusy \/ c # None)
            /\ UNCHANGED <<masterProgrammingMode, masters>>
       ELSE /\ IF c = None
                 THEN /\ masters' = {storedUID}
                      /\ masterProgrammingMode' = FALSE
                      /\ storedUID' = None
                 ELSE UNCHANGED masterVars
            /\ UNCHANGED ledBusy
  /\ Goto("head")
  /\ UNCHANGED <<users, holdVars, lockVars, promptVars, progVars, audioQueued, relayVars>>

MasterGone == lastMaster # None /\ awayFor > MASTER_AWAY_DELAY

\* handleMasterPresenceTimeout
MasterTimeout ==
  /\ pc = "modes" /\ ~masterProgrammingMode
  /\ MasterGone
  /\ lastMaster' = None
  /\ heldFor' = 0 /\ awayFor' = 0
  /\ markUserActivity
  /\ Goto("head")
  /\ UNCHANGED <<users, masterVars, lockVars, progVars, ledBusy, audioQueued,
                 relayVars, seenFor, unseenFor>>

\* No mode takes the iteration: on to processCardScan.
NoMode ==
  /\ pc = "modes" /\ ~masterProgrammingMode /\ ~MasterGone /\ ~prog
  /\ Goto("scan")
  /\ UNCHANGED <<users, masterVars, holdVars, lockVars, promptVars, progVars,
                 ledBusy, audioQueued, relayVars>>

----------------------------------------------------------------------------
\* handleUserProgrammingMode

InUserProgramming ==
  pc = "modes" /\ ~masterProgrammingMode /\ ~MasterGone /\ prog

\* A card is read: a master is ignored, any other must first be removed.
ProgrammingCard(c) ==
  /\ InUserProgramming
  /\ c # None
  /\ prog' = TRUE /\ progIdle' = 0 /\ progWarned' = FALSE
  /\ IF c \in masters
       THEN Goto("head")
       ELSE pc' = "wait" /\ uid' = c /\ UNCHANGED field
  /\ impatientEnabled' = FALSE /\ impatient' = FALSE /\ idleFor' = 0
  /\ event' = "programming"
  /\ UNCHANGED <<users, masterVars, holdVars, lockVars, ledBusy, audioQueued, relayVars>>

\* Variant of ProgrammingIdle: every look for a card counts as activity.
MutProgrammingIdle ==
  /\ InUserProgramming
  /\ progWarned' = (progWarned \/ progIdle > WARNING_TIMEOUT)
  /\ IF progIdle > EXIT_TIMEOUT
       THEN /\ prog' = FALSE /\ progIdle' = 0
            /\ markUserActivity
            /\ SetLed
            /\ Goto("scan")
       ELSE /\ UNCHANGED prog /\ progIdle' = 0
            /\ impatientEnabled' = FALSE /\ impatient' = FALSE /\ idleFor' = 0
            /\ event' = "programming"
            /\ ledBusy' = (ledBusy \/ progWarned' # progWarned)
            /\ Goto("head")
  /\ UNCHANGED <<users, masterVars, holdVars, lockVars, audioQueued, relayVars>>

\* No card is read: warn, or leave the mode and go on with the iteration.
ProgrammingIdle ==
  /\ InUserProgramming
  /\ progWarned' = (progWarned \/ progIdle > WARNING_TIMEOUT)
  /\ IF progIdle > EXIT_TIMEOUT
       THEN /\ prog' = FALSE /\ progIdle' = 0
            /\ markUserActivity
            /\ SetLed
            /\ Goto("scan")
       ELSE /\ UNCHANGED <<prog, progIdle>>
            /\ impatientEnabled' = FALSE /\ impatient' = FALSE /\ idleFor' = 0
            /\ event' = "programming"
            /\ ledBusy' = (ledBusy \/ progWarned' # progWarned)
            /\ Goto("head")
  /\ UNCHANGED <<users, masterVars, holdVars, lockVars, audioQueued, relayVars>>

\* while (rfid.readCard(uid, &uidLength)) delay(50): the last UID read stays.
WaitForRemoval(c) ==
  /\ pc = "wait"
  /\ c # None
  /\ uid' = c
  /\ UNCHANGED <<pc, field, users, masterVars, holdVars, lockVars, promptVars,
                 progVars, ledBusy, audioQueued, relayVars>>

\* The card is gone: it is removed from the table, or added if there is room.
ToggleUser ==
  /\ pc = "wait"
  /\ users' = IF uid \in users THEN users \ {uid}
              ELSE IF Cardinality(users) < MAX_USER_UIDS THEN users \cup {uid}
              ELSE users
  /\ SetLed
  /\ pc' = "head" /\ uid' = None
  /\ UNCHANGED <<field, masterVars, holdVars, lockVars, promptVars, progVars,
                 audioQueued, relayVars>>

----------------------------------------------------------------------------
\* processCardScan

\* handleNoCard: nothing read, or not even tried during a lockout.
ImpatienceDue == impatientEnabled /\ ~impatient /\ idleFor > IMPATIENCE_TIMEOUT

NoCard ==
  /\ pc = "scan"
  /\ IF ImpatienceDue
       THEN /\ impatient' = TRUE /\ idleFor' = 0 /\ event' = "prompted"
            /\ SetLed
            /\ UNCHANGED impatientEnabled
       ELSE UNCHANGED <<promptVars, ledBusy>>
  /\ Goto("audio")
  /\ UNCHANGED <<users, masterVars, holdVars, lockVars, progVars, audioQueued, relayVars>>

\* Variant of Scanned: the reader is read during a lockout.
MutScanned(c) == pc = "scan" /\ c # None

Scanned(c) == pc = "scan" /\ lockLeft = 0 /\ c # None

\* validateUIDLength fails.
BadCard(c) ==
  /\ Scanned(c) /\ c \in BadLength
  /\ SetLed
  /\ audioQueued' = FALSE
  /\ Goto("audio")
  /\ UNCHANGED <<users, masterVars, holdVars, lockVars, promptVars, progVars, relayVars>>

\* handleMasterCard: a sighting starts or continues the hold; a hold that is
\* long enough enters user programming once feedback can be given.

\* Variant of NewPresence: a pause in the sightings does not restart the hold.
MutNewPresence(c) == lastMaster # c

NewPresence(c) == lastMaster # c \/ awayFor > MASTER_REDETECT_DELAY

MasterCard(c) ==
  /\ Scanned(c) /\ c \in masters \ BadLength
  /\ lastMaster' = c
  /\ heldFor' = IF NewPresence(c) THEN 0 ELSE heldFor
  /\ awayFor' = 0
  /\ seenFor' = IF unseenFor > MASTER_REDETECT_DELAY THEN 0 ELSE seenFor
  /\ unseenFor' = 0
  /\ IF ~NewPresence(c) /\ heldFor >= MASTER_HOLD_TIME /\ Quiet
       THEN /\ prog' = TRUE /\ progIdle' = 0 /\ progWarned' = FALSE
            /\ SetLed
       ELSE /\ UNCHANGED progVars
            /\ ledBusy' = (ledBusy \/ NewPresence(c))
  /\ Goto("audio")
  /\ UNCHANGED <<users, masterVars, lockVars, promptVars, audioQueued, relayVars>>

Regular(c) == Scanned(c) /\ c \notin masters \cup BadLength

\* handleAccessGranted

\* Variant of GrantEffects: the prompt is not disabled.
MutGrantEffects ==
  /\ SetLed
  /\ audioQueued' = TRUE
  /\ FireMacro(TagMacro)
  /\ invalidAttempts' = 0 /\ lastLock' = 0 /\ UNCHANGED lockLeft
  /\ impatient' = FALSE /\ UNCHANGED <<impatientEnabled, idleFor>>
  /\ event' = "granted"

GrantEffects ==
  /\ SetLed
  /\ audioQueued' = TRUE
  /\ FireMacro(TagMacro)
  /\ invalidAttempts' = 0 /\ lastLock' = 0 /\ UNCHANGED lockLeft
  /\ impatientEnabled' = FALSE /\ impatient' = FALSE /\ idleFor' = 0
  /\ event' = "granted"

AccessGranted(c) ==
  /\ Regular(c) /\ c \in users
  /\ IF Quiet
       THEN GrantEffects
       ELSE UNCHANGED <<ledBusy, audioQueued, relayVars, lockVars, promptVars>>
  /\ Goto("audio")
  /\ UNCHANGED <<users, masterVars, holdVars, progVars>>

\* handleAccessDenied: always a lockout, the rest only with feedback.
Lockout == Lockouts[invalidAttempts + 1]

\* Variant of NextAttempt: the count wraps around at the end of the table.
MutNextAttemptWraps == (invalidAttempts + 1) % Len(Lockouts)

NextAttempt == IF invalidAttempts < Len(Lockouts) - 1
                 THEN invalidAttempts + 1 ELSE invalidAttempts

AccessDenied(c) ==
  /\ Regular(c) /\ c \notin users
  /\ lockLeft' = Lockout /\ lastLock' = Lockout
  /\ IF Quiet
       THEN /\ SetLed
            /\ audioQueued' = TRUE
            /\ invalidAttempts' = NextAttempt
            /\ markUserActivity
       ELSE UNCHANGED <<ledBusy, audioQueued, invalidAttempts, promptVars>>
  /\ Goto("audio")
  /\ UNCHANGED <<users, masterVars, holdVars, progVars, relayVars>>

\* handleAudioPlayback
AudioPlayback ==
  /\ pc = "audio"
  /\ audioQueued' = (audioQueued /\ ledBusy)
  /\ Goto("head")
  /\ UNCHANGED <<users, masterVars, holdVars, lockVars, promptVars, progVars,
                 ledBusy, relayVars>>

----------------------------------------------------------------------------
\* The environment

\* A card is put on the reader, exchanged or taken away.
Present(c) ==
  /\ field' = c
  /\ UNCHANGED <<pc, uid, users, masterVars, holdVars, lockVars, promptVars,
                 progVars, ledBusy, audioQueued, relayVars>>

\* handleWebCommand, handleBleCommand: the pattern is shown whether or not the
\* macro is accepted.  A BLE command may come at any point of the loop.
RemoteCommand(m) ==
  /\ SetLed
  /\ FireMacro(m)
  /\ UNCHANGED <<pc, field, uid, users, masterVars, holdVars, lockVars,
                 promptVars, progVars, audioQueued>>

\* Another module shows a pattern: the pairing button, a reader that recovers.
OtherPattern ==
  /\ SetLed
  /\ UNCHANGED <<pc, field, uid, users, masterVars, holdVars, lockVars,
                 promptVars, progVars, audioQueued, relayVars>>

Up(t, limit)   == IF t < limit THEN t + 1 ELSE t
Down(t)        == IF t > 0 THEN t - 1 ELSE 0
While(p, t)    == IF p THEN t ELSE 0

Tick ==
  /\ heldFor'  = While(lastMaster # None, Up(heldFor, MASTER_HOLD_TIME))
  /\ awayFor'  = While(lastMaster # None, Up(awayFor, MASTER_REDETECT_DELAY + 1))
  /\ lockLeft' = Down(lockLeft)
  /\ idleFor'  = While(impatientEnabled /\ ~impatient, Up(idleFor, IMPATIENCE_TIMEOUT + 1))
  /\ progIdle' = While(prog, Up(progIdle, EXIT_TIMEOUT + 1))
  /\ age'      = While(~Relay!Idle, Up(age, MaxElapsed))
  /\ unseenFor' = Up(unseenFor, MASTER_REDETECT_DELAY + 1)
  /\ seenFor'   = While(unseenFor' <= MASTER_REDETECT_DELAY, Up(seenFor, MASTER_HOLD_TIME))
  /\ UNCHANGED <<pc, field, uid, users, masterVars, lastMaster, invalidAttempts,
                 lastLock, impatientEnabled, impatient, event, prog, progWarned,
                 ledBusy, audioQueued, on, job>>

----------------------------------------------------------------------------
\* None is always among the reads: a read may miss the card.
Modes == \/ MasterTimeout \/ NoMode \/ ProgrammingIdle \/ ToggleUser
         \/ \E c \in Reads : \/ MasterProgramming(c)
                             \/ ProgrammingCard(c)
                             \/ WaitForRemoval(c)
Scan  == \/ NoCard
         \/ \E c \in Reads : \/ BadCard(c)
                             \/ MasterCard(c)
                             \/ AccessGranted(c)
                             \/ AccessDenied(c)

Loop == UpdateHardware \/ Modes \/ Scan \/ AudioPlayback
Environment == \/ \E c \in Cards \cup {None} : Present(c)
               \/ \E m \in Macros : RemoteCommand(m)
               \/ OtherPattern

Next == Loop \/ Environment \/ Tick

\* The loop task keeps running and time passes; nothing is assumed of cards,
\* commands or how long a pattern takes.
Fairness == WF_vars(Loop) /\ WF_vars(Tick)

Spec == Init /\ [][Next]_vars
FairSpec == Spec /\ Fairness

----------------------------------------------------------------------------
\* Properties

\* User programming is entered only after a master has been on the reader,
\* read again and again without a pause longer than the redetect delay, for
\* the whole hold time: short taps of the master card never add up to a hold,
\* whatever cards, lockouts, patterns or commands come in between.
EnteredAfterHold ==
  ~prog /\ prog' => seenFor' >= MASTER_HOLD_TIME /\ unseenFor' <= MASTER_REDETECT_DELAY
HoldRequired == [][EnteredAfterHold]_vars

\* A lockout keeps the tables closed as well as the door: no user programming
\* runs and no card is waited for while one lasts, and none is imposed before
\* there is a master.
LockoutClosesAll ==
  lockLeft > 0 => ~prog /\ pc # "wait" /\ ~masterProgrammingMode

\* Until a card is granted, a denial never locks the reader for less time than
\* the denial before it did.
LocksAtLeastAsLong == lastLock' # 0 => lastLock' >= lastLock
LockoutNeverShrinks == [][LocksAtLeastAsLong]_vars

\* The "are you still there" prompt is given once per activity, never when a
\* granted card was the last thing to happen nor in programming mode.
PromptsWhenDue == impatient' /\ ~impatient => event = "activity" /\ ~prog
PromptOnlyWhenDue == [][PromptsWhenDue]_vars

\* When no card is presented any more the loop leaves user programming, and
\* the wait for a card to be removed, for good.
CardsGone == <>[](field = None)
ProgrammingTimesOut == CardsGone => <>[](~prog /\ pc # "wait")

\* When no card is presented any more every macro still comes to its end,
\* whatever commands keep arriving.
RelayReleased == CardsGone => []<>Relay!Idle

\* Once there is a master, activity is always followed by the prompt, a grant
\* or programming mode: neither a lockout, nor a presence that times out, nor
\* the exit from programming leaves the timer forgotten.
PromptGiven == CardsGone => []<>(masterProgrammingMode \/ event # "activity")
=============================================================================
