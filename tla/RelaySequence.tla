--------------------------- MODULE RelaySequence ---------------------------
(***************************************************************************)
(* What the relay engine of lib/relay_controller promises to its callers,  *)
(* at the granularity of whole calls: a macro, once accepted, pulses the   *)
(* relays of its steps one step at a time, each for at least the step's    *)
(* duration, with all relays off during the gaps between steps, and        *)
(* another macro is accepted only when no macro is running.                *)
(*                                                                         *)
(* MacroExecutor implements this module: wholly without BLE, and with BLE  *)
(* but for two windows of fireMacro.  AccessLoop uses its actions as the   *)
(* relay part of the access loop.                                          *)
(***************************************************************************)
EXTENDS Naturals

CONSTANTS
  Relays,      \* the relay outputs
  MAX_STEPS,   \* steps a macro can hold
  Macros,      \* the macros that may be started: [step_count, steps], a step
               \* being [mask, duration, gap]
  MaxElapsed   \* where the model's stopwatch saturates: at least every
               \* duration and gap, so that no comparison changes beyond it

VARIABLES
  on,      \* the set of relays that are energised
  job,     \* the running macro, its step and phase; "none" between macros
  age      \* time since the phase began

Phases == {"pulse", "gap"}
NoJob  == [phase |-> "none"]
Job    == [phase : Phases, macro : Macros, step : 0..MAX_STEPS-1]

TypeOK ==
  /\ on \in SUBSET Relays
  /\ job \in Job \cup {NoJob}
  /\ age \in 0..MaxElapsed

Idle == job = NoJob
Mask(m, s) == m.steps[s].mask

Init ==
  /\ on = {}
  /\ job = NoJob
  /\ age = 0

----------------------------------------------------------------------------
\* fireMacro accepted: the first step's relays go on at once.
Start(m) ==
  /\ Idle
  /\ m.step_count # 0
  /\ job' = [phase |-> "pulse", macro |-> m, step |-> 0]
  /\ on' = Mask(m, 0)
  /\ age' = 0

\* The pulse is over: every relay of the step goes off, then either the gap
\* before the next step begins or the macro is complete.
EndPulse ==
  /\ job.phase = "pulse"
  /\ age >= job.macro.steps[job.step].duration
  /\ job' = IF job.step + 1 < job.macro.step_count
              THEN [job EXCEPT !.phase = "gap"]
              ELSE NoJob
  /\ on' = {}
  /\ age' = 0

\* The gap is over: the next step's relays go on.
EndGap ==
  /\ job.phase = "gap"
  /\ age >= job.macro.steps[job.step].gap
  /\ job' = [phase |-> "pulse", macro |-> job.macro, step |-> job.step + 1]
  /\ on' = Mask(job.macro, job.step + 1)
  /\ age' = 0

Tick ==
  /\ ~Idle
  /\ age < MaxElapsed
  /\ age' = age + 1
  /\ UNCHANGED <<on, job>>

Next ==
  \/ \E m \in Macros : Start(m)
  \/ EndPulse
  \/ EndGap
  \/ Tick

rvars == <<on, job, age>>
Spec == Init /\ [][Next]_rvars
=============================================================================
