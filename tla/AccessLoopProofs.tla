-------------------------- MODULE AccessLoopProofs --------------------------
(***************************************************************************)
(* Proofs about AccessLoop, for every set of cards and macros, every table *)
(* of lockouts and all delays in the order the code's have.                *)
(*                                                                         *)
(* The inductive invariant has one part per group of variables, and each   *)
(* group is changed by a few actions only, which Frames says once for all. *)
(* LoopInv ties the program counter to the modes, HoldInv the stopwatches  *)
(* of the code to the ghosts that measure a master's stay, LockInv the     *)
(* last lockout to the next, PromptInv the prompt's flags to the event     *)
(* that set them.                                                          *)
(***************************************************************************)
EXTENDS AccessLoop, FiniteSetTheorems, TLAPS

RelayInv ==
  /\ Relay!TypeOK
  /\ job # Relay!NoJob => job.step < job.macro.step_count
  /\ job.phase = "gap" => job.step + 1 < job.macro.step_count

\* The stopwatch of the prompt.
IdleInv == idleFor \in 0..IMPATIENCE_TIMEOUT + 1

UserInv == users \subseteq Cards /\ Cardinality(users) <= MAX_USER_UIDS

HoldInv ==
  /\ lastMaster \in Cards \cup {None}
  /\ heldFor \in 0..MASTER_HOLD_TIME /\ seenFor \in 0..MASTER_HOLD_TIME
  /\ awayFor \in 0..MASTER_REDETECT_DELAY + 1
  /\ unseenFor \in 0..MASTER_REDETECT_DELAY + 1
  /\ lastMaster # None => awayFor = unseenFor
  /\ lastMaster # None /\ awayFor <= MASTER_REDETECT_DELAY => heldFor <= seenFor

LockInv ==
  /\ invalidAttempts \in 0..Len(Lockouts) - 1
  /\ lockLeft \in 0..Longest /\ lastLock \in 0..Longest
  /\ lastLock <= Lockout

PromptInv ==
  /\ impatientEnabled \in BOOLEAN /\ impatient \in BOOLEAN
  /\ event \in {"activity", "granted", "prompted", "programming"}
  /\ impatientEnabled /\ ~impatient => event = "activity"

LoopInv ==
  /\ pc \in {"head", "modes", "wait", "scan", "audio"}
  /\ {field, uid, storedUID} \subseteq Cards \cup {None}
  /\ masters \subseteq Cards
  /\ masterProgrammingMode \in BOOLEAN /\ prog \in BOOLEAN /\ progWarned \in BOOLEAN
  /\ ledBusy \in BOOLEAN /\ audioQueued \in BOOLEAN
  /\ progIdle \in 0..EXIT_TIMEOUT + 1
  /\ pc = "wait" => uid # None /\ prog
  /\ pc = "scan" => ~prog
  /\ masterProgrammingMode => pc \in {"head", "modes"}
  /\ LockoutClosesAll

IInv == RelayInv /\ UserInv /\ HoldInv /\ LockInv /\ IdleInv /\ PromptInv
        /\ LoopInv

----------------------------------------------------------------------------
LEMMA Typed == IInv => TypeOK
BY DEF IInv, RelayInv, UserInv, HoldInv, LockInv, IdleInv, PromptInv,
       LoopInv, TypeOK

LEMMA LockoutsTyped ==
  /\ Len(Lockouts) \in Nat \ {0}
  /\ \A i \in 1..Len(Lockouts) : Lockouts[i] \in Nat \ {0} /\ Lockouts[i] <= Longest
  /\ \A i, j \in 1..Len(Lockouts) : i <= j => Lockouts[i] <= Lockouts[j]
  /\ Longest \in Nat \ {0}
<1>1. Len(Lockouts) \in Nat \ {0} /\ DOMAIN Lockouts = 1..Len(Lockouts)
  BY LoopConstants
<1>2. \A i \in 1..Len(Lockouts) : Lockouts[i] \in Nat \ {0}
  BY <1>1, LoopConstants
<1>3. \A i, j \in 1..Len(Lockouts) : i <= j => Lockouts[i] <= Lockouts[j]
  BY <1>1, LoopConstants, Zenon
<1>4. \A i \in 1..Len(Lockouts) : Lockouts[i] <= Lockouts[Len(Lockouts)]
  <2>1. \A i \in 1..Len(Lockouts) : i <= Len(Lockouts)
    BY <1>1
  <2>2. Len(Lockouts) \in 1..Len(Lockouts)
    BY <1>1
  <2> QED BY <1>3, <2>1, <2>2, Zenon
<1> QED BY <1>1, <1>2, <1>3, <1>4 DEF Longest

LEMMA Initially == Init => IInv
<1> SUFFICES ASSUME Init PROVE IInv
  OBVIOUS
<1> USE DEF Init, InitTables, InitRest
<1>1. RelayInv
  BY LoopConstants DEF RelayInv, Relay!TypeOK, Relay!Init, Relay!NoJob
<1>2. masters \subseteq Cards /\ users \subseteq Cards /\ Cardinality(users) <= MAX_USER_UIDS
  BY Zenon
<1>3. UserInv
  BY <1>2 DEF UserInv
<1>4. HoldInv
  BY LoopConstants DEF HoldInv
<1>5. LockInv
  BY LockoutsTyped DEF LockInv, Lockout
<1>6. PromptInv
  BY Zenon DEF PromptInv
<1>7. IdleInv
  BY LoopConstants DEF IdleInv
<1>8. masterProgrammingMode \in BOOLEAN
  BY Zenon
<1>9. LoopInv
  <2> USE <1>2, <1>8, LoopConstants
  <2> HIDE DEF InitTables
  <2> QED BY DEF LoopInv, LockoutClosesAll
<1> QED BY <1>1, <1>3, <1>4, <1>5, <1>6, <1>7, <1>9 DEF IInv

----------------------------------------------------------------------------
\* Which actions change which group of variables.
LEMMA Frames ==
  ASSUME Next
  PROVE  /\ \/ UNCHANGED relayVars
            \/ UpdateHardware \/ Tick
            \/ \E c \in Reads : AccessGranted(c)
            \/ \E m \in Macros : RemoteCommand(m)
         /\ UNCHANGED users \/ ToggleUser
         /\ \/ UNCHANGED holdVars
            \/ MasterTimeout \/ Tick \/ \E c \in Reads : MasterCard(c)
         /\ \/ UNCHANGED lockVars
            \/ \E c \in Reads : AccessGranted(c) \/ AccessDenied(c)
            \/ Tick
         /\ \/ UNCHANGED promptVars
            \/ MasterTimeout \/ ProgrammingIdle \/ NoCard \/ Tick
            \/ \E c \in Reads : ProgrammingCard(c) \/ AccessGranted(c) \/ AccessDenied(c)
<1> USE DEF holdVars, lockVars, promptVars, relayVars, Next, Loop, Environment, Modes, Scan
<1>1. CASE UpdateHardware
  BY <1>1 DEF UpdateHardware
<1>2. ASSUME NEW c \in Reads, MasterProgramming(c) \/ WaitForRemoval(c)
      PROVE  UNCHANGED <<relayVars, users, holdVars, lockVars, promptVars>>
  BY <1>2 DEF MasterProgramming, WaitForRemoval
<1>3. CASE MasterTimeout \/ NoMode \/ ProgrammingIdle \/ ToggleUser
  BY <1>3 DEF MasterTimeout, NoMode, ProgrammingIdle, ToggleUser
<1>4. ASSUME NEW c \in Reads, ProgrammingCard(c)
      PROVE  UNCHANGED <<relayVars, users, holdVars, lockVars>>
  BY <1>4 DEF ProgrammingCard
<1>5. ASSUME NEW c \in Reads, BadCard(c)
      PROVE  UNCHANGED <<relayVars, users, holdVars, lockVars, promptVars>>
  BY <1>5 DEF BadCard
<1>6. ASSUME NEW c \in Reads, MasterCard(c)
      PROVE  UNCHANGED <<relayVars, users, lockVars, promptVars>>
  BY <1>6 DEF MasterCard
<1>7. ASSUME NEW c \in Reads, AccessGranted(c)
      PROVE  UNCHANGED <<users, holdVars>>
  BY <1>7 DEF AccessGranted
<1>8. ASSUME NEW c \in Reads, AccessDenied(c)
      PROVE  UNCHANGED <<relayVars, users, holdVars>>
  BY <1>8 DEF AccessDenied
<1>9. CASE NoCard \/ AudioPlayback
  BY <1>9 DEF NoCard, AudioPlayback
<1>10. ASSUME NEW c \in Cards \cup {None}, Present(c)
       PROVE  UNCHANGED <<relayVars, users, holdVars, lockVars, promptVars>>
  BY <1>10 DEF Present
<1>11. ASSUME NEW m \in Macros, RemoteCommand(m)
       PROVE  UNCHANGED <<users, holdVars, lockVars, promptVars>>
  BY <1>11 DEF RemoteCommand
<1>12. CASE OtherPattern \/ Tick
  BY <1>12 DEF OtherPattern, Tick
<1> HIDE DEF holdVars, lockVars, promptVars, relayVars
<1> QED BY <1>1, <1>2, <1>3, <1>4, <1>5, <1>6, <1>7, <1>8, <1>9, <1>10, <1>11, <1>12

----------------------------------------------------------------------------
LEMMA MacrosTyped ==
  ASSUME NEW m \in Macros
  PROVE  /\ m.step_count \in 0..MAX_STEPS
         /\ \A i \in 0..MAX_STEPS - 1 : Relay!Mask(m, i) \in SUBSET Relays
<1>1. m \in [step_count : 0..MAX_STEPS, steps : [0..MAX_STEPS - 1 -> MacroStep]]
  BY LoopConstants
<1>2. \A i \in 0..MAX_STEPS - 1 : m.steps[i] \in MacroStep
  BY <1>1
<1> QED BY <1>1, <1>2 DEF MacroStep, Relay!Mask

\* The relay engine keeps its type, and its step within the macro.
LEMMA RelayStep == RelayInv /\ Next => RelayInv'
<1> SUFFICES ASSUME RelayInv, Next PROVE RelayInv'
  OBVIOUS
<1>0. /\ MAX_STEPS \in Nat \ {0} /\ MaxElapsed \in Nat /\ TagMacro \in Macros
      /\ on \in SUBSET Relays /\ age \in 0..MaxElapsed
      /\ job \in Relay!Job \/ job = Relay!NoJob
  BY LoopConstants DEF RelayInv, Relay!TypeOK
<1>1. ASSUME NEW m \in Macros, Relay!Start(m) PROVE RelayInv'
  <2>1. m.step_count \in 1..MAX_STEPS /\ Relay!Mask(m, 0) \in SUBSET Relays
    BY <1>0, <1>1, MacrosTyped DEF Relay!Start
  <2>2. job' \in Relay!Job
    BY <1>0, <1>1 DEF Relay!Start, Relay!Job, Relay!Phases
  <2>3. job'.step < job'.macro.step_count /\ job'.phase # "gap"
    BY <1>1, <2>1 DEF Relay!Start
  <2> QED BY <1>0, <1>1, <2>1, <2>2, <2>3 DEF RelayInv, Relay!TypeOK, Relay!Start
<1>p. ASSUME job.phase \in Relay!Phases
      PROVE  job \in Relay!Job /\ job.macro \in Macros /\ job.step \in 0..MAX_STEPS - 1
  BY <1>0, <1>p DEF Relay!Job, Relay!NoJob, Relay!Phases
<1>2. CASE Relay!EndPulse
  <2>1. job \in Relay!Job
    BY <1>2, <1>p DEF Relay!EndPulse, Relay!Phases
  <2>2. CASE job.step + 1 < job.macro.step_count
    <3>1. job' = [job EXCEPT !.phase = "gap"]
      BY <1>2, <2>2 DEF Relay!EndPulse
    <3>2. job' \in Relay!Job
      BY <2>1, <3>1 DEF Relay!Job, Relay!Phases
    <3>3. job'.macro = job.macro /\ job'.step = job.step
      BY <2>1, <3>1 DEF Relay!Job
    <3>4. job.macro \in Macros /\ job.step \in 0..MAX_STEPS - 1
      BY <2>1 DEF Relay!Job
    <3>5. job'.step + 1 < job'.macro.step_count /\ job'.step < job'.macro.step_count
      BY <1>0, <2>2, <3>3, <3>4, MacrosTyped
    <3>6. on' \in SUBSET Relays /\ age' \in 0..MaxElapsed
      BY <1>0, <1>2 DEF Relay!EndPulse
    <3> QED BY <3>2, <3>5, <3>6 DEF RelayInv, Relay!TypeOK
  <2>3. CASE ~(job.step + 1 < job.macro.step_count)
    BY <1>0, <1>2, <2>3 DEF RelayInv, Relay!TypeOK, Relay!EndPulse, Relay!NoJob
  <2> QED BY <2>2, <2>3
<1>3. CASE Relay!EndGap
  <2>1. job.macro \in Macros /\ job.step \in 0..MAX_STEPS - 1
    BY <1>3, <1>p DEF Relay!EndGap, Relay!Phases
  <2>2. job.step + 1 < job.macro.step_count /\ job.macro.step_count \in 0..MAX_STEPS
    BY <1>3, <2>1, MacrosTyped DEF Relay!EndGap, RelayInv
  <2>3. job.step + 1 \in 0..MAX_STEPS - 1
    BY <1>0, <2>1, <2>2
  <2>4. job' \in Relay!Job /\ job'.step < job'.macro.step_count /\ job'.phase # "gap"
    BY <1>3, <2>1, <2>2, <2>3 DEF Relay!EndGap, Relay!Job, Relay!Phases
  <2>5. on' \in SUBSET Relays /\ age' \in 0..MaxElapsed
    BY <1>0, <1>3, <2>1, <2>3, MacrosTyped DEF Relay!EndGap
  <2> QED BY <2>4, <2>5 DEF RelayInv, Relay!TypeOK
<1>4. CASE UNCHANGED relayVars
  BY <1>4 DEF relayVars, RelayInv, Relay!TypeOK
<1>5. CASE Tick
  <2>1. age' \in 0..MaxElapsed
    BY <1>0, <1>5 DEF Tick, While, Up
  <2> QED BY <1>5, <2>1 DEF Tick, RelayInv, Relay!TypeOK
<1>6. CASE UpdateHardware
  BY <1>2, <1>3, <1>4, <1>6 DEF UpdateHardware, relayVars
<1>7. ASSUME NEW m \in Macros, FireMacro(m) PROVE RelayInv'
  BY <1>1, <1>4, <1>7 DEF FireMacro, relayVars
<1>8. ASSUME NEW c \in Reads, AccessGranted(c) PROVE RelayInv'
  <2>1. UNCHANGED relayVars \/ FireMacro(TagMacro)
    BY <1>8 DEF AccessGranted, GrantEffects, relayVars
  <2> QED BY <1>0, <1>4, <1>7, <2>1
<1>9. ASSUME NEW m \in Macros, RemoteCommand(m) PROVE RelayInv'
  BY <1>7, <1>9 DEF RemoteCommand
<1> QED BY <1>4, <1>5, <1>6, <1>8, <1>9, Frames

\* The user table never outgrows its storage.
LEMMA UserStep == UserInv /\ LoopInv /\ Next => UserInv'
<1> SUFFICES ASSUME UserInv, LoopInv, Next PROVE UserInv'
  OBVIOUS
<1>1. CASE UNCHANGED users
  BY <1>1 DEF UserInv
<1>2. CASE ToggleUser
  <2>1. uid \in Cards
    BY <1>2 DEF ToggleUser, LoopInv
  <2>2. IsFiniteSet(users)
    BY LoopConstants, FS_Subset DEF UserInv
  <2>3. Cardinality(users) \in Nat
    BY <2>2, FS_CardinalityType
  <2>4. CASE uid \in users
    <3>1. users' = users \ {uid} /\ Cardinality(users \ {uid}) = Cardinality(users) - 1
      BY <1>2, <2>2, <2>4, FS_RemoveElement DEF ToggleUser
    <3> QED BY <2>3, <3>1, LoopConstants DEF UserInv
  <2>5. CASE uid \notin users /\ Cardinality(users) < MAX_USER_UIDS
    <3>1. users' = users \cup {uid} /\ Cardinality(users \cup {uid}) = Cardinality(users) + 1
      BY <1>2, <2>2, <2>5, FS_AddElement DEF ToggleUser
    <3> QED BY <2>1, <2>3, <2>5, <3>1, LoopConstants DEF UserInv
  <2>6. CASE uid \notin users /\ ~(Cardinality(users) < MAX_USER_UIDS)
    BY <1>2, <2>6, <1>1 DEF ToggleUser
  <2> QED BY <2>4, <2>5, <2>6
<1> QED BY <1>1, <1>2, Frames

\* A master's hold is never older than its stay, as far as the code can tell.
LEMMA HoldStep == HoldInv /\ LoopInv /\ Next => HoldInv'
<1> SUFFICES ASSUME HoldInv, LoopInv, Next PROVE HoldInv'
  OBVIOUS
<1> USE LoopConstants DEF HoldInv
<1>1. CASE UNCHANGED holdVars
  BY <1>1 DEF holdVars
<1>2. CASE MasterTimeout
  BY <1>2 DEF MasterTimeout
<1>3. CASE Tick
  BY <1>3 DEF Tick, While, Up
<1>4. ASSUME NEW c \in Reads, MasterCard(c) PROVE HoldInv'
  <2>1. c \in Cards
    BY <1>4 DEF MasterCard, LoopInv
  <2> QED BY <1>4, <2>1 DEF MasterCard, NewPresence
<1> QED BY <1>1, <1>2, <1>3, <1>4, Frames

\* The next denial locks the reader for at least as long as the last.
LEMMA LockStep == LockInv /\ Next => LockInv'
<1> SUFFICES ASSUME LockInv, Next PROVE LockInv'
  OBVIOUS
<1> USE LockoutsTyped DEF LockInv, Lockout
<1>1. CASE UNCHANGED lockVars
  BY <1>1 DEF lockVars
<1>2. CASE Tick
  BY <1>2 DEF Tick, Down
<1>3. ASSUME NEW c \in Reads, AccessGranted(c) PROVE LockInv'
  BY <1>3, <1>1 DEF AccessGranted, GrantEffects, lockVars
<1>4. ASSUME NEW c \in Reads, AccessDenied(c) PROVE LockInv'
  <2>1. invalidAttempts' \in {invalidAttempts, NextAttempt}
    BY <1>4 DEF AccessDenied
  <2>2. lockLeft' = Lockout /\ lastLock' = Lockout
    BY <1>4 DEF AccessDenied
  <2>3. invalidAttempts' \in 0..Len(Lockouts) - 1 /\ invalidAttempts <= invalidAttempts'
    BY <2>1 DEF NextAttempt
  <2>4. Lockouts[invalidAttempts + 1] <= Lockouts[invalidAttempts' + 1]
    BY <2>3
  <2> QED BY <2>2, <2>3, <2>4
<1> QED BY <1>1, <1>2, <1>3, <1>4, Frames

\* The prompt's stopwatch keeps its range.
LEMMA IdleStep == IdleInv /\ Next => IdleInv'
<1> SUFFICES ASSUME IdleInv, Next PROVE idleFor' \in 0..IMPATIENCE_TIMEOUT + 1
  BY DEF IdleInv
<1>1. idleFor' = idleFor \/ idleFor' = 0 \/ Tick
  BY Frames DEF promptVars, MasterTimeout, ProgrammingIdle, NoCard, ProgrammingCard,
                AccessGranted, GrantEffects, AccessDenied, markUserActivity
<1> QED BY <1>1, LoopConstants DEF IdleInv, Tick, While, Up

\* A prompt that may still be given is owed to an activity.
LEMMA PromptStep == PromptInv /\ Next => PromptInv'
<1> SUFFICES ASSUME PromptInv, Next PROVE PromptInv'
  OBVIOUS
<1> USE DEF PromptInv, markUserActivity
<1>1. CASE UNCHANGED promptVars
  BY <1>1 DEF promptVars
<1>2. CASE MasterTimeout
  BY <1>2, Zenon DEF MasterTimeout
<1>3. CASE ProgrammingIdle
  BY <1>3, Zenon DEF ProgrammingIdle
<1>4. CASE NoCard
  BY <1>4, <1>1, Zenon DEF NoCard
<1>5. CASE Tick
  BY <1>5 DEF Tick
<1>6. ASSUME NEW c \in Reads, ProgrammingCard(c) PROVE PromptInv'
  BY <1>6, Zenon DEF ProgrammingCard
<1>7. ASSUME NEW c \in Reads, AccessGranted(c) PROVE PromptInv'
  BY <1>7, <1>1, Zenon DEF AccessGranted, GrantEffects
<1>8. ASSUME NEW c \in Reads, AccessDenied(c) PROVE PromptInv'
  BY <1>8, <1>1, Zenon DEF AccessDenied
<1> QED BY <1>1, <1>2, <1>3, <1>4, <1>5, <1>6, <1>7, <1>8, Frames

\* The modes exclude each other and a lockout.
LEMMA LoopStep == LoopInv /\ LockInv /\ Next => LoopInv'
<1> SUFFICES ASSUME LoopInv, LockInv, Next PROVE LoopInv'
  OBVIOUS
<1>0. lockLeft \in Nat
  BY LockoutsTyped DEF LockInv
<1> USE <1>0, LoopConstants DEF LoopInv, LockoutClosesAll, Goto, holdVars, lockVars,
      promptVars, progVars, masterVars, relayVars, SetLed, Reads
<1>1. CASE UpdateHardware
  BY <1>1 DEF UpdateHardware
<1>2. ASSUME NEW c \in Reads, MasterProgramming(c) PROVE LoopInv'
  BY <1>2 DEF MasterProgramming
<1>3. CASE MasterTimeout
  BY <1>3 DEF MasterTimeout
<1>4. CASE NoMode
  BY <1>4 DEF NoMode
<1>5. ASSUME NEW c \in Reads, ProgrammingCard(c) PROVE LoopInv'
  <2>1. prog' \in BOOLEAN /\ prog' /\ progWarned' \in BOOLEAN
    BY <1>5, Zenon DEF ProgrammingCard
  <2>2. progIdle' = 0 /\ prog /\ ~masterProgrammingMode
    BY <1>5 DEF ProgrammingCard, InUserProgramming
  <2>3. pc' = "head" \/ (pc' = "wait" /\ uid' = c /\ c # None)
    BY <1>5 DEF ProgrammingCard
  <2>4. uid' \in Cards \cup {None} /\ UNCHANGED field
    BY <1>5 DEF ProgrammingCard
  <2>5. UNCHANGED <<masterVars, lockVars, ledBusy, audioQueued>>
    BY <1>5 DEF ProgrammingCard
  <2> QED BY <2>1, <2>2, <2>3, <2>4, <2>5
<1>6. CASE ProgrammingIdle
  BY <1>6 DEF ProgrammingIdle, InUserProgramming
<1>7. ASSUME NEW c \in Reads, WaitForRemoval(c) PROVE LoopInv'
  BY <1>7 DEF WaitForRemoval
<1>8. CASE ToggleUser
  BY <1>8 DEF ToggleUser
<1>9. CASE NoCard
  BY <1>9 DEF NoCard
<1>10. ASSUME NEW c \in Reads, BadCard(c) PROVE LoopInv'
  BY <1>10 DEF BadCard, Scanned
<1>11. ASSUME NEW c \in Reads, MasterCard(c) PROVE LoopInv'
  <2>1. lockLeft = 0 /\ ~masterProgrammingMode /\ pc' = "audio" /\ UNCHANGED <<field, uid>>
    BY <1>11 DEF MasterCard, Scanned
  <2>2. UNCHANGED <<masterVars, lockVars, audioQueued>>
    BY <1>11 DEF MasterCard
  <2>3. prog' \in BOOLEAN /\ progWarned' \in BOOLEAN /\ ledBusy' \in BOOLEAN
    BY <1>11, Zenon DEF MasterCard
  <2>4. progIdle' \in {0, progIdle}
    BY <1>11 DEF MasterCard
  <2> QED BY <2>1, <2>2, <2>3, <2>4
<1>12. ASSUME NEW c \in Reads, AccessGranted(c) PROVE LoopInv'
  BY <1>12 DEF AccessGranted, GrantEffects, Regular, Scanned
<1>13. ASSUME NEW c \in Reads, AccessDenied(c) PROVE LoopInv'
  BY <1>13 DEF AccessDenied, Regular, Scanned
<1>14. CASE AudioPlayback
  BY <1>14 DEF AudioPlayback
<1>15. ASSUME NEW c \in Cards \cup {None}, Present(c) PROVE LoopInv'
  BY <1>15 DEF Present
<1>16. ASSUME NEW m \in Macros, RemoteCommand(m) PROVE LoopInv'
  BY <1>16 DEF RemoteCommand
<1>17. CASE OtherPattern
  BY <1>17 DEF OtherPattern
<1>18. CASE Tick
  BY <1>18 DEF Tick, Down, While, Up
<1> QED BY <1>1, <1>2, <1>3, <1>4, <1>5, <1>6, <1>7, <1>8, <1>9, <1>10, <1>11,
           <1>12, <1>13, <1>14, <1>15, <1>16, <1>17, <1>18
        DEF Next, Loop, Modes, Scan, Environment

LEMMA NextStep == IInv /\ [Next]_vars => IInv'
<1>1. IInv /\ Next => IInv'
  BY RelayStep, UserStep, HoldStep, LockStep, IdleStep, PromptStep, LoopStep DEF IInv
<1>2. IInv /\ UNCHANGED vars => IInv'
  BY DEF vars, masterVars, holdVars, lockVars, promptVars, progVars, relayVars, IInv,
         RelayInv, Relay!TypeOK, UserInv, HoldInv, LockInv, Lockout, IdleInv, PromptInv,
         LoopInv, LockoutClosesAll
<1> QED BY <1>1, <1>2

LEMMA Invariance == Spec => []IInv
BY Initially, NextStep, PTL DEF Spec

----------------------------------------------------------------------------
\* Every variable keeps its type: invalidAttempts always indexes invalidDelays,
\* the user table never outgrows its storage, and the relay engine's step is
\* one of its macro's.
THEOREM TypeCorrect == Spec => []TypeOK
BY Typed, Invariance, PTL

\* For any timeouts and table of lockouts, no user programming runs, no card is
\* waited for and no master is missing while a lockout lasts.
THEOREM LockedOut == Spec => []LockoutClosesAll
<1>1. IInv => LockoutClosesAll
  BY DEF IInv, LoopInv
<1> QED BY <1>1, Invariance, PTL

\* Programming mode is entered only after a whole hold of a master card.
THEOREM Hold == Spec => HoldRequired
<1>1. IInv /\ [Next]_vars => EnteredAfterHold \/ UNCHANGED vars
  <2> SUFFICES ASSUME IInv, Next, ~prog, prog'
               PROVE  seenFor' >= MASTER_HOLD_TIME /\ unseenFor' <= MASTER_REDETECT_DELAY
    BY DEF EnteredAfterHold
  <2>1. PICK c \in Reads : MasterCard(c) /\ prog' # prog
    BY DEF Next, Loop, Environment, Modes, Scan, UpdateHardware, MasterProgramming,
           MasterTimeout, NoMode, ProgrammingCard, InUserProgramming, ProgrammingIdle,
           WaitForRemoval, ToggleUser, NoCard, BadCard, AccessGranted, AccessDenied,
           AudioPlayback, Present, RemoteCommand, OtherPattern, Tick, progVars
  <2>2. ~NewPresence(c) /\ heldFor >= MASTER_HOLD_TIME
    BY <2>1 DEF MasterCard, progVars
  <2>3. lastMaster = c /\ c # None /\ awayFor <= MASTER_REDETECT_DELAY
    BY <2>1, <2>2, LoopConstants DEF MasterCard, Scanned, NewPresence, IInv, HoldInv
  <2>4. heldFor <= seenFor /\ unseenFor = awayFor
    BY <2>3 DEF IInv, HoldInv
  <2>5. seenFor' = seenFor /\ unseenFor' = 0
    BY <2>1, <2>3, <2>4, LoopConstants DEF MasterCard, IInv, HoldInv
  <2> QED BY <2>2, <2>4, <2>5, LoopConstants DEF IInv, HoldInv
<1>2. IInv /\ [Next]_vars => [EnteredAfterHold]_vars
  BY <1>1
<1> QED BY <1>2, Invariance, PTL DEF Spec, HoldRequired

\* Until a card is granted no lockout is shorter than the one before it.
THEOREM Shrinks == Spec => LockoutNeverShrinks
<1>1. IInv /\ [Next]_vars => LocksAtLeastAsLong \/ UNCHANGED vars
  <2> SUFFICES ASSUME IInv, Next, lastLock' # 0 PROVE lastLock' >= lastLock
    BY DEF LocksAtLeastAsLong
  <2>1. lastLock' = lastLock \/ lastLock' = 0 \/ lastLock' = Lockout
    BY Frames DEF lockVars, AccessGranted, GrantEffects, AccessDenied, Tick
  <2> QED BY <2>1, LockoutsTyped DEF IInv, LockInv, Lockout
<1>2. IInv /\ [Next]_vars => [LocksAtLeastAsLong]_vars
  BY <1>1
<1> QED BY <1>2, Invariance, PTL DEF Spec, LockoutNeverShrinks

\* The prompt is given once per activity, and never in programming mode.
THEOREM Prompt == Spec => PromptOnlyWhenDue
<1>1. IInv /\ [Next]_vars => PromptsWhenDue \/ UNCHANGED vars
  <2> SUFFICES ASSUME IInv, Next, impatient', ~impatient PROVE event = "activity" /\ ~prog
    BY DEF PromptsWhenDue
  <2>1. ~UNCHANGED promptVars
    BY DEF promptVars
  <2>2. NoCard /\ ImpatienceDue
    BY <2>1, Frames, Zenon DEF MasterTimeout, ProgrammingIdle, NoCard, Tick, ProgrammingCard,
             AccessGranted, GrantEffects, AccessDenied, markUserActivity, promptVars
  <2> QED BY <2>2 DEF NoCard, ImpatienceDue, IInv, PromptInv, LoopInv
<1>2. IInv /\ [Next]_vars => [PromptsWhenDue]_vars
  BY <1>1
<1> QED BY <1>2, Invariance, PTL DEF Spec, PromptOnlyWhenDue
=============================================================================
