------------------------ MODULE MacroExecutorProofs ------------------------
(***************************************************************************)
(* Safety of the macro engine for every macro table, every set of relays   *)
(* and every timing, with and without the NimBLE host task.                *)
(***************************************************************************)
EXTENDS MacroExecutor, TLAPS

\* relayActive covers everything that happens between an accepted call and
\* the end of its sequence, and each position in an operation goes with the
\* states of the engine it can be reached in.
Tracking ==
  /\ currentRelayState # "IDLE" => relayActive
  /\ pc \in {"energise", "arm", "clear", "cleared", "next", "finish"} => relayActive
  /\ pc \in {"copy", "mark", "energise"} => currentRelayState # "STEP_GAP"
  /\ pc \in {"clear", "cleared"} => currentRelayState = "STEP_ACTIVE"
  /\ pc = "finish" => currentRelayState = "IDLE"
  /\ pc = "next" => currentRelayState = "STEP_GAP"

\* A gap is only begun when a further step exists.
GapHasNext ==
  currentRelayState = "STEP_GAP" /\ pc # "arm" => currentStep + 1 < activeMacro.step_count

\* Once the loop has found a pulse or a gap over, it still is.
Due ==
  /\ pc = "clear" => elapsed >= activeMacro.steps[currentStep].duration
  /\ pc = "next" => elapsed >= activeMacro.steps[currentStep].gap

\* Unless a callback got in, nothing runs when the loop is about to copy.
NothingRunsAtCopy == ~overlapped /\ pc = "copy" => ~relayActive

IInv ==
  /\ TypeOK
  /\ Tracking
  /\ GapHasNext
  /\ Due
  /\ StepWithinMacro
  /\ NothingRunsAtCopy
  /\ OnlyActiveStepDriven

----------------------------------------------------------------------------
\* What the operators return.

LEMMA SlotTypes ==
  ASSUME config \in MacroConfig, NEW i \in 0..MAX_MACROS-1
  PROVE  /\ config.macros[i] \in Macro
         /\ config.macros[i].steps[0] \in Step
         /\ config.macros[i].steps[0].mask \in SUBSET Relays
<1>1. config.macros[i] \in Macro
  BY DEF MacroConfig
<1>2. 0 \in 0..MAX_STEPS-1
  BY ExecutorConstants
<1>3. config.macros[i].steps[0] \in Step
  BY <1>1, <1>2 DEF Macro
<1>4. QED
  BY <1>1, <1>3 DEF Step

LEMMA MacroTypes ==
  ASSUME NEW m \in Macro, NEW s \in 0..MAX_STEPS-1
  PROVE  /\ m.step_count \in 0..MAX_STEPS
         /\ m.steps[s].mask \in SUBSET Relays
         /\ m.steps[s].duration \in 0..MaxElapsed
         /\ m.steps[s].gap \in 0..MaxElapsed
  BY ExecutorConstants DEF Macro, Step

LEMMA NoMacroType == NoMacro \in Macro
  BY ExecutorConstants DEF NoMacro, NoStep, Macro, Step

\* An accepted index names a slot of the table.
LEMMA AcceptedSlot ==
  ASSUME config \in MacroConfig, NEW i \in 0..MAX_MACROS, Accepts(i)
  PROVE  i \in 0..MAX_MACROS-1 /\ ~relayActive
  BY ExecutorConstants DEF MacroConfig, Accepts

----------------------------------------------------------------------------
LEMMA InitIInv == Init => IInv
<1> SUFFICES ASSUME Init PROVE IInv
  OBVIOUS
<1>1. TypeOK
  <2>1. config \in MacroConfig
    BY ExecutorConstants DEF Init
  <2>2. 0 \in 0..MAX_STEPS-1 /\ 0 \in 0..MAX_MACROS-1 /\ 0 \in 0..MaxElapsed
    BY ExecutorConstants
  <2>3. QED
    BY <2>1, <2>2, NoMacroType DEF Init, TypeOK, RelayStates, LoopSteps
<1>2. QED
  BY <1>1 DEF Init, IInv, Tracking, GapHasNext, Due, StepWithinMacro,
              NothingRunsAtCopy, OnlyActiveStepDriven, Pulsing

\* Type correctness is preserved: the steps that index activeMacro.steps need
\* GapHasNext.
LEMMA TypeStep ==
  ASSUME TypeOK, GapHasNext, Tracking, [Next]_vars
  PROVE  TypeOK'
<1> USE DEF TypeOK, RelayStates, LoopSteps
<1>1. ASSUME NEW i \in 0..MAX_MACROS, FireCheck(i) PROVE TypeOK'
  BY <1>1, AcceptedSlot DEF FireCheck
<1>2. CASE FireCopy
  BY <1>2, SlotTypes, ExecutorConstants DEF FireCopy
<1>3. CASE FireMark
  BY <1>3 DEF FireMark
<1>4. CASE FireEnergise
  BY <1>4, MacroTypes DEF FireEnergise, Driven
<1>5. CASE Arm
  BY <1>5, ExecutorConstants DEF Arm
<1>6. CASE PulseOver
  BY <1>6 DEF PulseOver
<1>7. CASE ClearStep
  BY <1>7 DEF ClearStep
<1>8. CASE BeginGap
  BY <1>8, ExecutorConstants DEF BeginGap
<1>9. CASE GoIdle
  BY <1>9 DEF GoIdle
<1>10. CASE Release
  BY <1>10 DEF Release
<1>11. CASE GapOver
  BY <1>11 DEF GapOver
<1>12. CASE NextStep
  <2>1. currentStep + 1 < activeMacro.step_count
    BY <1>12 DEF NextStep, GapHasNext, Tracking
  <2>2. currentStep + 1 \in 0..MAX_STEPS-1
    BY <2>1, MacroTypes, ExecutorConstants
  <2>3. activeMacro.steps[currentStep + 1].mask \in SUBSET Relays
    BY <2>2, MacroTypes
  <2>4. QED
    BY <1>12, <2>2, <2>3 DEF NextStep
<1>13. ASSUME NEW i \in 0..MAX_MACROS, BleFire(i) PROVE TypeOK'
  <2>1. i \in 0..MAX_MACROS-1
    BY <1>13, AcceptedSlot DEF BleFire
  <2>2. QED
    BY <1>13, <2>1, SlotTypes, ExecutorConstants DEF BleFire
<1>14. ASSUME NEW c \in Configs, SaveMacros(c) PROVE TypeOK'
  BY <1>14, ExecutorConstants DEF SaveMacros
<1>15. CASE Tick
  BY <1>15, ExecutorConstants DEF Tick
<1>16. CASE UNCHANGED vars
  BY <1>16 DEF vars
<1>17. QED
  BY <1>1, <1>2, <1>3, <1>4, <1>5, <1>6, <1>7, <1>8, <1>9, <1>10, <1>11,
     <1>12, <1>13, <1>14, <1>15, <1>16 DEF Next, FireMacro, Sequence, Requests

\* The control invariants are preserved: one step per action.
LEMMA ControlStep ==
  ASSUME TypeOK, Tracking, GapHasNext, Due, StepWithinMacro, [Next]_vars
  PROVE  Tracking' /\ GapHasNext' /\ Due' /\ StepWithinMacro'
<1> USE DEF Tracking, GapHasNext, Due, StepWithinMacro
<1>1. ASSUME NEW i \in 0..MAX_MACROS, FireCheck(i)
      PROVE  Tracking' /\ GapHasNext' /\ Due' /\ StepWithinMacro'
  BY <1>1 DEF FireCheck, Accepts
<1>2. CASE FireCopy
  BY <1>2 DEF FireCopy
<1>3. CASE FireMark
  BY <1>3 DEF FireMark
<1>4. CASE FireEnergise
  BY <1>4 DEF FireEnergise
<1>5. CASE Arm
  BY <1>5 DEF Arm
<1>6. CASE PulseOver
  BY <1>6 DEF PulseOver
<1>7. CASE ClearStep
  BY <1>7 DEF ClearStep
<1>8. CASE BeginGap
  BY <1>8 DEF BeginGap
<1>9. CASE GoIdle
  BY <1>9 DEF GoIdle
<1>10. CASE Release
  BY <1>10 DEF Release
<1>11. CASE GapOver
  BY <1>11 DEF GapOver
<1>12. CASE NextStep
  BY <1>12 DEF NextStep
<1>13. ASSUME NEW i \in 0..MAX_MACROS, BleFire(i)
       PROVE  Tracking' /\ GapHasNext' /\ Due' /\ StepWithinMacro'
  BY <1>13 DEF BleFire, Accepts, TypeOK, LoopSteps
<1>14. ASSUME NEW c \in Configs, SaveMacros(c)
       PROVE  Tracking' /\ GapHasNext' /\ Due' /\ StepWithinMacro'
  BY <1>14 DEF SaveMacros
<1>15. CASE Tick
  \* Only elapsed changes, and only upwards.
  <2>1. activeMacro.steps[currentStep].duration \in 0..MaxElapsed
        /\ activeMacro.steps[currentStep].gap \in 0..MaxElapsed
    BY MacroTypes DEF TypeOK
  <2>2. QED
    BY <1>15, <2>1, ExecutorConstants DEF Tick, TypeOK
<1>16. CASE UNCHANGED vars
  BY <1>16 DEF vars
<1>17. QED
  BY <1>1, <1>2, <1>3, <1>4, <1>5, <1>6, <1>7, <1>8, <1>9, <1>10, <1>11,
     <1>12, <1>13, <1>14, <1>15, <1>16 DEF Next, FireMacro, Sequence, Requests

\* The relays are preserved as the engine tracks them, outside an overlap.
LEMMA RelayStep ==
  ASSUME IInv, [Next]_vars
  PROVE  NothingRunsAtCopy' /\ OnlyActiveStepDriven'
<1> USE DEF IInv, Tracking, NothingRunsAtCopy, OnlyActiveStepDriven, Pulsing, Driven
<1> DEFINE Goal == NothingRunsAtCopy /\ OnlyActiveStepDriven
<1>1. ASSUME NEW i \in 0..MAX_MACROS, FireCheck(i) PROVE Goal'
  BY <1>1 DEF FireCheck, Accepts
<1>2. CASE FireCopy
  BY <1>2 DEF FireCopy
<1>3. CASE FireMark
  BY <1>3 DEF FireMark
<1>4. CASE FireEnergise
  BY <1>4 DEF FireEnergise
<1>5. CASE Arm
  BY <1>5 DEF Arm
<1>6. CASE PulseOver
  BY <1>6 DEF PulseOver
<1>7. CASE ClearStep
  BY <1>7 DEF ClearStep
<1>8. CASE BeginGap
  BY <1>8 DEF BeginGap
<1>9. CASE GoIdle
  BY <1>9 DEF GoIdle
<1>10. CASE Release
  BY <1>10 DEF Release
<1>11. CASE GapOver
  BY <1>11 DEF GapOver
<1>12. CASE NextStep
  BY <1>12 DEF NextStep
<1>13. ASSUME NEW i \in 0..MAX_MACROS, BleFire(i) PROVE Goal'
  \* Accepted, so no macro runs; the loop is at rest, copying or marking.
  <2>1. ~relayActive /\ currentRelayState = "IDLE" /\ pc \in {"rest", "copy", "mark"}
    BY <1>13 DEF BleFire, Accepts, TypeOK, LoopSteps
  <2>2. ~overlapped => on = {}
    BY <2>1
  <2>3. QED
    BY <1>13, <2>1, <2>2 DEF BleFire
<1>14. ASSUME NEW c \in Configs, SaveMacros(c) PROVE Goal'
  BY <1>14 DEF SaveMacros
<1>15. CASE Tick
  BY <1>15 DEF Tick
<1>16. CASE UNCHANGED vars
  BY <1>16 DEF vars
<1>17. QED
  BY <1>1, <1>2, <1>3, <1>4, <1>5, <1>6, <1>7, <1>8, <1>9, <1>10, <1>11,
     <1>12, <1>13, <1>14, <1>15, <1>16 DEF Next, FireMacro, Sequence, Requests

LEMMA NextIInv == IInv /\ [Next]_vars => IInv'
  BY TypeStep, ControlStep, RelayStep DEF IInv

\* The inductive invariant holds in every reachable state.
THEOREM Invariance == Spec => []IInv
  BY InitIInv, NextIInv, PTL DEF Spec

\* Type correctness, in particular that currentStep stays inside the array.
THEOREM TypeCorrect == Spec => []TypeOK
<1>1. IInv => TypeOK
  BY DEF IInv
<1>2. QED
  BY <1>1, Invariance, PTL

\* Unless a BLE callback started a macro inside the loop's check-then-copy
\* window, the relays that are on are those of the step being pulsed.
THEOREM RelaysTracked == Spec => []OnlyActiveStepDriven
<1>1. IInv => OnlyActiveStepDriven
  BY DEF IInv
<1>2. QED
  BY <1>1, Invariance, PTL

\* The executor stays within the steps of the macro it copied.
THEOREM StepsInRange == Spec => []StepWithinMacro
<1>1. IInv => StepWithinMacro
  BY DEF IInv
<1>2. QED
  BY <1>1, Invariance, PTL

\* A relay goes off only at the end of its step's full duration: only ClearStep
\* takes relays off, and PulseOver found the pulse over.
THEOREM PulseLength == Spec => NoEarlyRelease
<1>1. IInv /\ [Next]_vars =>
        [ReleasesOnlyWhenDue]_vars
  <2> USE DEF ReleasesOnlyWhenDue
  <2> SUFFICES ASSUME IInv, [Next]_vars
               PROVE  \/ \A r \in on \ on' :
                             /\ r \in Driven
                             /\ elapsed >= activeMacro.steps[currentStep].duration
                      \/ vars' = vars
    OBVIOUS
  <2>1. CASE on' = on
    BY <2>1
  <2>2. CASE ClearStep
    BY <2>2 DEF ClearStep, IInv, Due
  <2>3. ASSUME NEW i \in 0..MAX_MACROS, BleFire(i) PROVE on \subseteq on'
    BY <2>3 DEF BleFire
  <2>4. CASE FireEnergise \/ NextStep
    BY <2>4 DEF FireEnergise, NextStep
  <2>5. QED
    BY <2>1, <2>2, <2>3, <2>4
       DEF Next, FireMacro, Sequence, Requests, vars, FireCheck, FireCopy,
           FireMark, Arm, PulseOver, BeginGap, GoIdle, Release, GapOver,
           SaveMacros, Tick
<1>2. QED
  BY <1>1, Invariance, PTL DEF Spec, NoEarlyRelease

\* A running macro is neither replaced nor made to skip or repeat a step.
THEOREM NotInterrupted == Spec => RunsToCompletion
<1>1. IInv /\ [Next]_vars =>
        [KeepsMacro]_vars
  <2> USE DEF KeepsMacro
  <2> SUFFICES ASSUME IInv, [Next]_vars, currentRelayState # "IDLE", ~overlapped'
               PROVE  /\ activeMacro' = activeMacro
                      /\ currentStep' \in {currentStep, currentStep + 1}
    OBVIOUS
  <2>1. relayActive
    BY DEF IInv, Tracking
  <2>2. ~FireCopy
    <3>1. ASSUME FireCopy PROVE overlapped' = overlapped /\ pc = "copy"
      BY <3>1 DEF FireCopy
    <3>2. QED
      BY <2>1, <3>1, Zenon DEF IInv, NothingRunsAtCopy
  <2>3. \A i \in 0..MAX_MACROS : ~BleFire(i)
    BY <2>1 DEF BleFire, Accepts
  <2>4. CASE NextStep
    BY <2>4 DEF NextStep
  <2>5. QED
    BY <2>2, <2>3, <2>4
       DEF Next, FireMacro, Sequence, Requests, vars, FireCheck, FireMark,
           FireEnergise, Arm, PulseOver, ClearStep, BeginGap, GoIdle, Release,
           GapOver, SaveMacros, Tick
<1>2. QED
  BY <1>1, Invariance, PTL DEF Spec, RunsToCompletion

----------------------------------------------------------------------------
\* The engine implements RelaySequence, step by step.

\* The macros that can be started, as Promise is instantiated.
AllMacros == UNION {{c.macros[i] : i \in 0..MAX_MACROS-1} : c \in Configs}

\* What fireMacro has copied is a macro of a table, until a callback's macro
\* gets in before the copy.
LoopInv ==
  /\ config \in Configs
  /\ ~overlapped /\ pc \in {"mark", "energise"} =>
        currentStep = 0 /\ activeMacro \in AllMacros

LEMMA InitLoopInv == Init => LoopInv
  BY DEF Init, LoopInv

LEMMA LoopInvStep ==
  ASSUME IInv, LoopInv, [Next]_vars
  PROVE  LoopInv'
<1> USE DEF LoopInv
<1>1. ASSUME NEW i \in 0..MAX_MACROS, FireCheck(i) PROVE LoopInv'
  BY <1>1 DEF FireCheck, Accepts
<1>2. CASE FireCopy
  <2>1. config.macros[req] \in AllMacros
    BY DEF AllMacros, IInv, TypeOK
  <2>2. QED
    BY <1>2, <2>1 DEF FireCopy
<1>3. CASE FireMark
  BY <1>3 DEF FireMark
<1>4. CASE FireEnergise
  BY <1>4 DEF FireEnergise
<1>5. CASE Arm
  BY <1>5 DEF Arm
<1>6. CASE PulseOver
  BY <1>6 DEF PulseOver
<1>7. CASE ClearStep
  BY <1>7 DEF ClearStep
<1>8. CASE BeginGap
  BY <1>8 DEF BeginGap
<1>9. CASE GoIdle
  BY <1>9 DEF GoIdle
<1>10. CASE Release
  BY <1>10 DEF Release
<1>11. CASE GapOver
  BY <1>11 DEF GapOver
<1>12. CASE NextStep
  BY <1>12 DEF NextStep
<1>13. ASSUME NEW i \in 0..MAX_MACROS, BleFire(i) PROVE LoopInv'
  <2>1. config.macros[i] \in AllMacros
    BY <1>13, AcceptedSlot DEF AllMacros, BleFire, IInv, TypeOK
  <2>2. QED
    BY <1>13, <2>1 DEF BleFire
<1>14. ASSUME NEW c \in Configs, SaveMacros(c) PROVE LoopInv'
  BY <1>14 DEF SaveMacros
<1>15. CASE Tick
  BY <1>15 DEF Tick
<1>16. CASE UNCHANGED vars
  BY <1>16 DEF vars
<1>17. QED
  BY <1>1, <1>2, <1>3, <1>4, <1>5, <1>6, <1>7, <1>8, <1>9, <1>10, <1>11,
     <1>12, <1>13, <1>14, <1>15, <1>16 DEF Next, FireMacro, Sequence, Requests

\* Every step of the engine is a step of the promise or a stutter, but for the
\* two exceptions.
LEMMA StepSimulation ==
  ASSUME IInv, LoopInv, [Next]_vars, ~overlapped', ~EmptyCopied
  PROVE  [Promise!Next]_(Promise!rvars)
<1> USE DEF AbsJob, AbsAge, AbsPhase, Pulsing, Promise!rvars
<1> DEFINE Stutter == UNCHANGED <<on, AbsJob, AbsAge>>
<1>o. ~overlapped
  BY Zenon DEF Next, FireMacro, Sequence, Requests, vars, FireCheck, FireCopy, FireMark,
     FireEnergise, Arm, PulseOver, ClearStep, BeginGap, GoIdle, Release, GapOver,
     NextStep, BleFire, SaveMacros, Tick
<1>a. TypeOK /\ Tracking /\ GapHasNext /\ Due /\ LoopInv
  BY DEF IInv
<1>b. on = IF Pulsing THEN Driven ELSE {}
  BY <1>o, <1>a DEF IInv, OnlyActiveStepDriven
<1>1. ASSUME NEW i \in 0..MAX_MACROS, FireCheck(i) PROVE Stutter
  BY <1>1, <1>a DEF FireCheck, Accepts, Tracking
<1>2. CASE FireCopy
  <2>1. currentRelayState = "IDLE"
    BY <1>2, <1>o, <1>a DEF FireCopy, Tracking, IInv, NothingRunsAtCopy
  <2>2. Stutter
    BY <1>2, <2>1 DEF FireCopy
  <2>3. QED
    BY <2>2
<1>3. CASE FireMark
  <2>1. Stutter
    BY <1>3 DEF FireMark
  <2>2. QED
    BY <2>1
<1>4. CASE FireEnergise
  <2>1. pc = "energise" /\ currentStep = 0 /\ activeMacro \in AllMacros
    BY <1>4, <1>o, <1>a DEF FireEnergise, LoopInv
  <2>2. CASE currentRelayState = "IDLE"
    <3>1. activeMacro.step_count # 0
      BY <2>1 DEF EmptyCopied
    <3>2. on = {} /\ AbsJob = [phase |-> "none"]
      BY <2>1, <2>2, <1>b
    <3>3. /\ AbsJob' = [phase |-> "pulse", macro |-> activeMacro, step |-> 0]
          /\ AbsAge' = 0
      BY <1>4, <2>1 DEF FireEnergise
    <3>4. on' = activeMacro.steps[0].mask
      BY <1>4, <2>1, <3>2 DEF FireEnergise, Driven
    <3>5. Promise!Start(activeMacro)
      BY <3>1, <3>2, <3>3, <3>4 DEF Promise!Start, Promise!Idle, Promise!NoJob, Promise!Mask
    <3>6. QED
      BY <2>1, <3>5 DEF Promise!Next, AllMacros
  <2>3. CASE currentRelayState = "STEP_ACTIVE"
    \* A callback's macro is running: its relays are on already.
    <3>1. Stutter
      BY <1>4, <1>b, <2>1, <2>3 DEF FireEnergise
    <3>2. QED
      BY <3>1
  <2>4. QED
    BY <2>1, <2>2, <2>3, <1>a DEF Tracking, TypeOK, RelayStates
<1>5. CASE Arm
  <2>1. Stutter
    BY <1>5 DEF Arm
  <2>2. QED
    BY <2>1
<1>6. CASE PulseOver
  <2>1. Stutter
    BY <1>6 DEF PulseOver
  <2>2. QED
    BY <2>1
<1>7. CASE ClearStep
  <2>1. /\ pc = "clear" /\ currentRelayState = "STEP_ACTIVE" /\ pc' = "cleared"
        /\ UNCHANGED <<activeMacro, currentStep, currentRelayState, elapsed>>
        /\ elapsed >= activeMacro.steps[currentStep].duration
    BY <1>7, <1>a DEF ClearStep, Tracking, Due
  <2>2. /\ AbsJob = [phase |-> "pulse", macro |-> activeMacro, step |-> currentStep]
        /\ AbsAge = elapsed
    BY <2>1
  <2>3. AbsAge' = 0
    BY <2>1
  <2>4. AbsJob' = IF currentStep + 1 < activeMacro.step_count
                    THEN [phase |-> "gap", macro |-> activeMacro, step |-> currentStep]
                    ELSE [phase |-> "none"]
    BY <2>1
  <2>5. on' = {}
    BY <1>7, <2>1, <1>b DEF ClearStep
  <2>6. Promise!EndPulse
    <3> HIDE DEF AbsJob, AbsAge
    <3>1. /\ AbsJob.phase = "pulse"
          /\ AbsJob.macro = activeMacro
          /\ AbsJob.step = currentStep
          /\ [AbsJob EXCEPT !.phase = "gap"]
               = [phase |-> "gap", macro |-> activeMacro, step |-> currentStep]
      BY <2>2
    <3>2. QED
      BY <2>1, <2>2, <2>3, <2>4, <2>5, <3>1 DEF Promise!EndPulse, Promise!NoJob
  <2>7. QED
    BY <2>6 DEF Promise!Next
<1>8. CASE BeginGap
  <2>1. Stutter
    BY <1>8, <1>a DEF BeginGap, Tracking
  <2>2. QED
    BY <2>1
<1>9. CASE GoIdle
  <2>1. ~(currentStep + 1 < activeMacro.step_count)
    BY <1>9, <1>a DEF GoIdle, TypeOK, Macro
  <2>2. Stutter
    BY <1>9, <1>a, <2>1 DEF GoIdle, Tracking
  <2>3. QED
    BY <2>2
<1>10. CASE Release
  <2>1. Stutter
    BY <1>10, <1>a DEF Release, Tracking
  <2>2. QED
    BY <2>1
<1>11. CASE GapOver
  <2>1. Stutter
    BY <1>11 DEF GapOver
  <2>2. QED
    BY <2>1
<1>12. CASE NextStep
  <2>1. /\ pc = "next" /\ currentRelayState = "STEP_GAP" /\ pc' = "arm"
        /\ UNCHANGED <<activeMacro, currentRelayState>>
        /\ currentStep' = currentStep + 1
        /\ elapsed >= activeMacro.steps[currentStep].gap
    BY <1>12, <1>a DEF NextStep, Tracking, Due
  <2>2. /\ AbsJob = [phase |-> "gap", macro |-> activeMacro, step |-> currentStep]
        /\ AbsAge = elapsed
    BY <2>1
  <2>3. /\ AbsJob' = [phase |-> "pulse", macro |-> activeMacro, step |-> currentStep + 1]
        /\ AbsAge' = 0
    BY <2>1
  <2>4. on' = activeMacro.steps[currentStep + 1].mask
    BY <1>12, <2>1, <1>b DEF NextStep
  <2>5. Promise!EndGap
    <3> HIDE DEF AbsJob, AbsAge
    <3>1. /\ AbsJob.phase = "gap"
          /\ AbsJob.macro = activeMacro
          /\ AbsJob.step = currentStep
      BY <2>2
    <3>2. QED
      BY <2>1, <2>2, <2>3, <2>4, <3>1 DEF Promise!EndGap, Promise!Mask
  <2>6. QED
    BY <2>5 DEF Promise!Next
<1>13. ASSUME NEW i \in 0..MAX_MACROS, BleFire(i) PROVE Promise!Next
  <2> DEFINE m == config.macros[i]
  <2>1. /\ ~relayActive /\ currentRelayState = "IDLE" /\ pc \in {"rest", "mark"}
        /\ m.step_count # 0
    BY <1>13, <1>a DEF BleFire, Accepts, Tracking, TypeOK, LoopSteps
  <2>2. on = {} /\ AbsJob = [phase |-> "none"]
    BY <2>1, <1>b
  <2>3. /\ pc' = pc /\ activeMacro' = m /\ currentStep' = 0 /\ elapsed' = 0
        /\ currentRelayState' = "STEP_ACTIVE" /\ on' = on \cup m.steps[0].mask
    BY <1>13 DEF BleFire
  <2>4. /\ AbsJob' = [phase |-> "pulse", macro |-> m, step |-> 0]
        /\ AbsAge' = 0
    BY <2>1, <2>3
  <2>5. m \in AllMacros
    BY <1>13, <1>a, AcceptedSlot DEF AllMacros, BleFire, TypeOK, LoopInv
  <2> HIDE DEF m
  <2>6. Promise!Start(m)
    BY <2>1, <2>2, <2>3, <2>4 DEF Promise!Start, Promise!Idle, Promise!NoJob, Promise!Mask
  <2>7. QED
    BY <2>5, <2>6 DEF Promise!Next, AllMacros
<1>14. ASSUME NEW c \in Configs, SaveMacros(c) PROVE Stutter
  BY <1>14 DEF SaveMacros
<1>15. CASE Tick
  <2>1. CASE AbsPhase = "none" \/ pc \in {"mark", "energise", "arm", "cleared"}
    <3>1. Stutter
      BY <1>15, <2>1 DEF Tick
    <3>2. QED
      BY <3>1
  <2>2. CASE ~(AbsPhase = "none" \/ pc \in {"mark", "energise", "arm", "cleared"})
    <3>1. AbsAge = elapsed /\ AbsAge' = elapsed + 1 /\ UNCHANGED <<on, AbsJob>>
      BY <1>15, <2>2 DEF Tick
    <3>2. AbsJob # [phase |-> "none"]
      <4>1. AbsJob.phase # "none"
        BY <2>2
      <4>2. QED
        BY <4>1
    <3>3. Promise!Tick
      BY <1>15, <3>1, <3>2 DEF Promise!Tick, Tick, Promise!Idle, Promise!NoJob
    <3>4. QED
      BY <3>3 DEF Promise!Next
  <2>3. QED
    BY <2>1, <2>2
<1>16. CASE UNCHANGED vars
  <2>1. Stutter
    BY <1>16 DEF vars
  <2>2. QED
    BY <2>1
<1>17. QED
  BY <1>1, <1>2, <1>3, <1>4, <1>5, <1>6, <1>7, <1>8, <1>9, <1>10, <1>11,
     <1>12, <1>13, <1>14, <1>15, <1>16 DEF Next, FireMacro, Sequence, Requests

LEMMA InitPromise == Init => Promise!Init
  BY DEF Init, Promise!Init, Promise!NoJob, AbsJob, AbsAge, AbsPhase, Pulsing

\* Whatever BLE callbacks come between the loop's steps, every step of the
\* engine is one of the abstract relay sequence or a stutter: in every state the
\* relays that are on, and when they change, are the promise's.  Only a callback
\* between fireMacro's check and its copy can make an exception.
THEOREM Refinement == Spec => ImplementsRelaySequence
<1>1. Init => Promise!Init
  BY InitPromise
<1>2. IInv /\ LoopInv /\ [Next]_vars =>
        [overlapped' \/ EmptyCopied \/ [Promise!Next]_(Promise!rvars)]_vars
  BY StepSimulation
<1>3. QED
  BY <1>1, <1>2, InitLoopInv, LoopInvStep, Invariance, PTL DEF Spec, ImplementsRelaySequence

\* Without BLE, what the loop found in fireMacro's checks still holds at each
\* later point of the call.
NoBleInv ==
  /\ ~overlapped
  /\ pc = "copy" => config.macros[req].step_count # 0
  /\ pc \in {"mark", "energise"} => activeMacro.step_count # 0

LEMMA NoBleStep ==
  ASSUME ~BleEnabled, NoBleInv, [Next]_vars
  PROVE  NoBleInv'
  BY DEF NoBleInv, Next, FireMacro, Sequence, Requests, vars, FireCheck, Accepts, FireCopy,
     FireMark, FireEnergise, Arm, PulseOver, ClearStep, BeginGap, GoIdle, Release,
     GapOver, NextStep, BleFire, SaveMacros, Tick

\* Without BLE there is no exception: the engine implements RelaySequence.
THEOREM WithoutBle == ~BleEnabled => (Spec => Promise!Spec)
<1> SUFFICES ASSUME ~BleEnabled PROVE Spec => Promise!Spec
  OBVIOUS
<1>1. Init => NoBleInv
  BY DEF Init, NoBleInv
<1>2. NoBleInv /\ [Next]_vars => NoBleInv'
  BY NoBleStep
<1>3. Init => Promise!Init
  BY InitPromise
<1>4. IInv /\ LoopInv /\ NoBleInv /\ NoBleInv' /\ [Next]_vars
        => [Promise!Next]_(Promise!rvars)
  BY StepSimulation DEF NoBleInv, EmptyCopied
<1>5. QED
  BY <1>1, <1>2, <1>3, <1>4, InitLoopInv, LoopInvStep, Invariance, PTL DEF Spec, Promise!Spec

\* Without BLE, an idle engine has every relay off: the documented automatic
\* deactivation.
THEOREM Deactivation == ~BleEnabled => (Spec => []AutomaticDeactivation)
<1> SUFFICES ASSUME ~BleEnabled PROVE Spec => []AutomaticDeactivation
  OBVIOUS
<1>1. Init => NoBleInv
  BY DEF Init, NoBleInv
<1>2. NoBleInv /\ [Next]_vars => NoBleInv'
  BY NoBleStep
<1>3. IInv /\ NoBleInv => AutomaticDeactivation
  BY DEF IInv, NoBleInv, OnlyActiveStepDriven, AutomaticDeactivation, Pulsing
<1>4. QED
  BY <1>1, <1>2, <1>3, Invariance, PTL DEF Spec

=============================================================================
