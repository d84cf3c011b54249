--------------------------- MODULE MacroExecutor ---------------------------
(***************************************************************************)
(* The macro engine of lib/relay_controller/macro_executor.hpp at the      *)
(* granularity at which tasks can interleave.                              *)
(*                                                                         *)
(* The Arduino loop task runs handleRelaySequence once per iteration and   *)
(* fireMacro for a granted tag or a WiFi command.  The NimBLE host task    *)
(* runs fireMacro, and saves macro tables, from BLE write callbacks, with  *)
(* no lock.  It has the higher priority, so on the single-core ESP32-C3 a  *)
(* callback pre-empts the loop between any two of the loop's steps and     *)
(* runs to completion before the loop goes on: the loop's operations are   *)
(* split into steps (pc), a callback is one step.                          *)
(*                                                                         *)
(* relay_mask is a set of relays.  relayActivatedTime is represented by    *)
(* elapsed, the value of millis() - relayActivatedTime.                    *)
(***************************************************************************)
EXTENDS Naturals

CONSTANTS
  Relays,       \* the relay outputs
  MAX_STEPS,    \* steps a macro can hold
  MAX_MACROS,   \* macro slots in a table
  Configs,      \* the macro tables that may be saved
  BleEnabled,   \* TRUE when the NimBLE host task issues commands
  MaxElapsed    \* where the model's stopwatch saturates

Step  == [mask : SUBSET Relays, duration : 0..MaxElapsed, gap : 0..MaxElapsed]
Macro == [step_count : 0..MAX_STEPS, steps : [0..MAX_STEPS-1 -> Step]]
MacroConfig == [macro_count : 0..MAX_MACROS, macros : [0..MAX_MACROS-1 -> Macro]]

ASSUME ExecutorConstants ==
  /\ MAX_STEPS \in Nat \ {0}
  /\ MAX_MACROS \in Nat \ {0}
  /\ MaxElapsed \in Nat
  /\ Configs # {} /\ Configs \subseteq MacroConfig
  /\ BleEnabled \in BOOLEAN

VARIABLES
  config,             \* macroConfigManager.config
  on,                 \* relays.m_relays: the set of relays that are on
  activeMacro, currentStep, relayActive, currentRelayState,  \* AccessLoopState
  elapsed,            \* millis() - state.relayActivatedTime, saturated
  pc,                 \* where in an operation the loop task is
  req,                \* macroIndex of the fireMacro call the loop is in
  overlapped          \* ghost: a callback's macro was started after the loop
                      \* passed the relayActive check and before its copy

vars == <<config, on, activeMacro, currentStep, relayActive,
          currentRelayState, elapsed, pc, req, overlapped>>

\* AccessLoopState's zero-initialised activeMacro.
NoStep  == [mask |-> {}, duration |-> 0, gap |-> 0]
NoMacro == [step_count |-> 0, steps |-> [s \in 0..MAX_STEPS-1 |-> NoStep]]

RelayStates == {"IDLE", "STEP_ACTIVE", "STEP_GAP"}
LoopSteps   == {"rest", "copy", "mark", "energise", "arm",
                "clear", "cleared", "finish", "next"}

\* Every variable has its type; in particular currentStep always indexes the
\* MAX_STEPS entries of activeMacro.steps, whatever the tasks interleave.
TypeOK ==
  /\ config \in MacroConfig
  /\ on \in SUBSET Relays
  /\ activeMacro \in Macro
  /\ currentStep \in 0..MAX_STEPS-1
  /\ relayActive \in BOOLEAN
  /\ currentRelayState \in RelayStates
  /\ elapsed \in 0..MaxElapsed
  /\ pc \in LoopSteps
  /\ req \in 0..MAX_MACROS-1
  /\ overlapped \in BOOLEAN

Init ==
  /\ config \in Configs
  /\ on = {}
  /\ activeMacro = NoMacro
  /\ currentStep = 0
  /\ relayActive = FALSE
  /\ currentRelayState = "IDLE"
  /\ elapsed = 0
  /\ pc = "rest"
  /\ req = 0
  /\ overlapped = FALSE

----------------------------------------------------------------------------
\* Helpers

Driven == activeMacro.steps[currentStep].mask

\* Variants named Mut* are plausible bugs: the checks of this module's
\* properties replace an operator by its variant and expect a violation.

\* Variant of Accepts: the relayActive check is missing.
MutAccepts(i) ==
  /\ i < config.macro_count
  /\ config.macros[i].step_count # 0

\* Variant of Accepts: off by one in the bound, an empty macro is accepted.
MutAcceptsBound(i) ==
  /\ i <= config.macro_count
  /\ ~relayActive

\* The three checks of fireMacro that return early.
Accepts(i) ==
  /\ i < config.macro_count
  /\ config.macros[i].step_count # 0
  /\ ~relayActive

----------------------------------------------------------------------------
\* The loop task: fireMacro, called for a granted tag or a WiFi command.
\* A call that an early return rejects changes nothing.

FireCheck(i) ==
  /\ pc = "rest"
  /\ Accepts(i)
  /\ pc' = "copy"
  /\ req' = i
  /\ UNCHANGED <<config, on, activeMacro, currentStep, relayActive,
                 currentRelayState, elapsed, overlapped>>

\* Variant of FireCopy: currentStep is not reset.
MutFireCopy ==
  /\ pc = "copy"
  /\ activeMacro' = config.macros[req]
  /\ pc' = "mark"
  /\ UNCHANGED <<config, on, currentStep, relayActive, currentRelayState,
                 elapsed, req, overlapped>>

FireCopy ==
  /\ pc = "copy"
  /\ activeMacro' = config.macros[req]
  /\ currentStep' = 0
  /\ pc' = "mark"
  /\ UNCHANGED <<config, on, relayActive, currentRelayState, elapsed, req, overlapped>>

\* Variant of FireMark: relayActive is not set.
MutFireMark ==
  /\ pc = "mark"
  /\ pc' = "energise"
  /\ UNCHANGED <<config, on, activeMacro, currentStep, relayActive,
                 currentRelayState, elapsed, req, overlapped>>

FireMark ==
  /\ pc = "mark"
  /\ relayActive' = TRUE
  /\ pc' = "energise"
  /\ UNCHANGED <<config, on, activeMacro, currentStep, currentRelayState,
                 elapsed, req, overlapped>>

FireEnergise ==
  /\ pc = "energise"
  /\ on' = on \cup Driven
  /\ pc' = "arm"
  /\ UNCHANGED <<config, activeMacro, currentStep, relayActive,
                 currentRelayState, elapsed, req, overlapped>>

\* The last two assignments of fireMacro, and of the gap case of
\* handleRelaySequence.
Arm ==
  /\ pc = "arm"
  /\ elapsed' = 0
  /\ currentRelayState' = "STEP_ACTIVE"
  /\ pc' = "rest"
  /\ UNCHANGED <<config, on, activeMacro, currentStep, relayActive, req, overlapped>>

----------------------------------------------------------------------------
\* The loop task: handleRelaySequence.  An iteration that finds RELAY_IDLE, or
\* a pulse or gap that is not over, changes nothing.

\* Variant of PulseOver: the pulse is timed by the gap.
MutPulseOver ==
  /\ pc = "rest"
  /\ currentRelayState = "STEP_ACTIVE"
  /\ elapsed >= activeMacro.steps[currentStep].gap
  /\ pc' = "clear"
  /\ UNCHANGED <<config, on, activeMacro, currentStep, relayActive,
                 currentRelayState, elapsed, req, overlapped>>

PulseOver ==
  /\ pc = "rest"
  /\ currentRelayState = "STEP_ACTIVE"
  /\ elapsed >= activeMacro.steps[currentStep].duration
  /\ pc' = "clear"
  /\ UNCHANGED <<config, on, activeMacro, currentStep, relayActive,
                 currentRelayState, elapsed, req, overlapped>>

ClearStep ==
  /\ pc = "clear"
  /\ on' = on \ Driven
  /\ pc' = "cleared"
  /\ UNCHANGED <<config, activeMacro, currentStep, relayActive,
                 currentRelayState, elapsed, req, overlapped>>

\* Variant of BeginGap: off by one in the test for a further step.
MutBeginGap ==
  /\ pc = "cleared"
  /\ currentStep + 1 <= activeMacro.step_count
  /\ elapsed' = 0
  /\ currentRelayState' = "STEP_GAP"
  /\ pc' = "rest"
  /\ UNCHANGED <<config, on, activeMacro, currentStep, relayActive, req, overlapped>>

BeginGap ==
  /\ pc = "cleared"
  /\ currentStep + 1 < activeMacro.step_count
  /\ elapsed' = 0
  /\ currentRelayState' = "STEP_GAP"
  /\ pc' = "rest"
  /\ UNCHANGED <<config, on, activeMacro, currentStep, relayActive, req, overlapped>>

\* The sequence is complete: first the state, then (Release) relayActive.
GoIdle ==
  /\ pc = "cleared"
  /\ currentStep + 1 >= activeMacro.step_count
  /\ currentRelayState' = "IDLE"
  /\ pc' = "finish"
  /\ UNCHANGED <<config, on, activeMacro, currentStep, relayActive, elapsed,
                 req, overlapped>>

Release ==
  /\ pc = "finish"
  /\ relayActive' = FALSE
  /\ pc' = "rest"
  /\ UNCHANGED <<config, on, activeMacro, currentStep, currentRelayState,
                 elapsed, req, overlapped>>

GapOver ==
  /\ pc = "rest"
  /\ currentRelayState = "STEP_GAP"
  /\ elapsed >= activeMacro.steps[currentStep].gap
  /\ pc' = "next"
  /\ UNCHANGED <<config, on, activeMacro, currentStep, relayActive,
                 currentRelayState, elapsed, req, overlapped>>

\* Variant of NextStep: the step just pulsed is fired again.
MutNextStep ==
  /\ pc = "next"
  /\ currentStep' = currentStep + 1
  /\ on' = on \cup activeMacro.steps[currentStep].mask
  /\ pc' = "arm"
  /\ UNCHANGED <<config, activeMacro, relayActive, currentRelayState, elapsed,
                 req, overlapped>>

NextStep ==
  /\ pc = "next"
  /\ currentStep' = currentStep + 1
  /\ on' = on \cup activeMacro.steps[currentStep + 1].mask
  /\ pc' = "arm"
  /\ UNCHANGED <<config, activeMacro, relayActive, currentRelayState, elapsed,
                 req, overlapped>>

----------------------------------------------------------------------------
\* The NimBLE host task: fireMacro as one step, at any point of the loop.

BleFire(i) ==
  /\ BleEnabled
  /\ Accepts(i)
  /\ activeMacro' = config.macros[i]
  /\ currentStep' = 0
  /\ relayActive' = TRUE
  /\ on' = on \cup config.macros[i].steps[0].mask
  /\ elapsed' = 0
  /\ currentRelayState' = "STEP_ACTIVE"
  /\ overlapped' = (overlapped \/ pc = "copy")
  /\ UNCHANGED <<config, pc, req>>

\* A macro table is replaced: by the loop task's WiFi handler between two
\* operations, by the BLE task at any point.
SaveMacros(c) ==
  /\ pc = "rest" \/ BleEnabled
  /\ config' = c
  /\ UNCHANGED <<on, activeMacro, currentStep, relayActive, currentRelayState,
                 elapsed, pc, req, overlapped>>

Tick ==
  /\ elapsed < MaxElapsed
  /\ elapsed' = elapsed + 1
  /\ UNCHANGED <<config, on, activeMacro, currentStep, relayActive,
                 currentRelayState, pc, req, overlapped>>

----------------------------------------------------------------------------
FireMacro    == FireCopy \/ FireMark \/ FireEnergise \/ Arm

\* Variant of Sequence: the two last assignments are swapped, relayActive is
\* released before the state is idle.
FreedFirst ==
  /\ pc = "cleared"
  /\ currentStep + 1 >= activeMacro.step_count
  /\ relayActive' = FALSE
  /\ pc' = "finish"
  /\ UNCHANGED <<config, on, activeMacro, currentStep, currentRelayState,
                 elapsed, req, overlapped>>
IdleLast ==
  /\ pc = "finish"
  /\ currentRelayState' = "IDLE"
  /\ pc' = "rest"
  /\ UNCHANGED <<config, on, activeMacro, currentStep, relayActive, elapsed,
                 req, overlapped>>
MutSequence  == PulseOver \/ ClearStep \/ BeginGap \/ FreedFirst \/ IdleLast
                \/ GapOver \/ NextStep

Sequence     == PulseOver \/ ClearStep \/ BeginGap \/ GoIdle \/ Release
                \/ GapOver \/ NextStep
Requests     == \/ \E i \in 0..MAX_MACROS : FireCheck(i) \/ BleFire(i)
                \/ \E c \in Configs : SaveMacros(c)

Next == FireMacro \/ Sequence \/ Requests \/ Tick

\* The loop task keeps running and time passes.  Nothing is assumed of the
\* requests.
Fairness == WF_vars(FireMacro \/ Sequence) /\ WF_vars(Tick)

Spec == Init /\ [][Next]_vars
FairSpec == Spec /\ Fairness

----------------------------------------------------------------------------
\* Properties

\* The active step is being pulsed.
Pulsing == (currentRelayState = "STEP_ACTIVE" /\ pc # "cleared") \/ pc = "arm"

\* The relays that are on are exactly those of the step being pulsed, and
\* none is on in a gap or when no macro runs -- unless a BLE callback started
\* a macro between the loop's relayActive check and its copy of the macro.
\* That window is the only way to a relay the engine has lost track of.
OnlyActiveStepDriven ==
  ~overlapped => on = IF Pulsing THEN Driven ELSE {}

\* The executor never runs past the last step of the macro it copied, even
\* when the table is rewritten between the check of step_count and the copy.
StepWithinMacro == currentStep = 0 \/ currentStep < activeMacro.step_count

\* A relay that is on goes off only after the active step's full duration: no
\* callback and no saved table cuts a pulse short.
ReleasesOnlyWhenDue ==
  \A r \in on \ on' : /\ r \in Driven
                      /\ elapsed >= activeMacro.steps[currentStep].duration
NoEarlyRelease == [][ReleasesOnlyWhenDue]_vars

\* While a macro runs, neither a new command nor a saved table replaces it or
\* moves it to a step other than the next one.
KeepsMacro ==
  currentRelayState # "IDLE" /\ ~overlapped' =>
    /\ activeMacro' = activeMacro
    /\ currentStep' \in {currentStep, currentStep + 1}
RunsToCompletion == [][KeepsMacro]_vars

\* The engine always becomes free again: whatever a BLE callback does between
\* any two steps of fireMacro and handleRelaySequence, the macros it starts
\* and the tables it saves, relayActive is not left set for good.
EngineFreed == relayActive ~> ~relayActive

\* The documented promise: when the engine is idle every relay is off.
AutomaticDeactivation ==
  pc = "rest" /\ currentRelayState = "IDLE" /\ ~relayActive => on = {}

----------------------------------------------------------------------------
\* Refinement: the engine implements RelaySequence.  A macro starts when its
\* first relays go on and a pulse ends when they go off, so the phase is ahead
\* of currentRelayState at "arm" and "cleared".  A callback's macro that comes
\* between fireMacro's copy and its end is timed anew from that end.

AbsPhase ==
  IF Pulsing THEN "pulse"
  ELSE IF currentRelayState = "STEP_GAP" THEN "gap"
  ELSE IF pc = "cleared" /\ currentStep + 1 < activeMacro.step_count THEN "gap"
  ELSE "none"

AbsJob ==
  IF AbsPhase = "none" THEN [phase |-> "none"]
  ELSE [phase |-> AbsPhase, macro |-> activeMacro, step |-> currentStep]

AbsAge ==
  IF AbsPhase = "none" \/ pc \in {"mark", "energise", "arm", "cleared"} THEN 0
  ELSE elapsed

Promise == INSTANCE RelaySequence WITH
             Macros <- UNION {{c.macros[i] : i \in 0..MAX_MACROS-1} : c \in Configs},
             job <- AbsJob, age <- AbsAge

\* A table saved between fireMacro's check and its copy emptied the macro.
EmptyCopied == pc = "energise" /\ activeMacro.step_count = 0

\* Every step of the engine is one of the promise or a stutter, whatever BLE
\* callbacks come between: each accepted macro is pulsed step by step, in order,
\* each step for its duration, and none is started while another runs.  The two
\* exceptions need a callback between fireMacro's check and its copy: a macro
\* that it starts there (overlapped), and one that it empties there, which is
\* started with a first step it no longer has.
ImplementsRelaySequence ==
  /\ Promise!Init
  /\ [][overlapped' \/ EmptyCopied \/ [Promise!Next]_(Promise!rvars)]_vars
=============================================================================
