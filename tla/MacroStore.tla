----------------------------- MODULE MacroStore -----------------------------
(***************************************************************************)
(* The macro table (lib/relay_controller/macro_config.hpp): config in RAM, *)
(* its keys in NVS, and everything that writes it: POST /api/macros in the *)
(* loop task, the macro characteristics in the BLE task, the USB handler,  *)
(* the factory reset and the boot; with the boot mode (main.cpp,           *)
(* pairing_button.hpp) that decides who they are.  A wireless build has    *)
(* the first two, a wired one USB, after a hold of the button.             *)
(*                                                                         *)
(* A macro is the number of the save that wrote it, so a table made of two *)
(* saves shows.  BLE callbacks pre-empt the loop and run to their end; a   *)
(* reset may come anywhere.                                                *)
(***************************************************************************)
EXTENDS Integers

CONSTANTS
  MAX_MACROS,
  DEFAULT_COUNT,    \* macros of DEFAULT_MACRO_CONFIG
  MaxSaves          \* bound: tables sent to the device

ASSUME StoreConstants ==
  /\ MAX_MACROS \in Nat \ {0} /\ MaxSaves \in Nat
  /\ DEFAULT_COUNT \in 1..MAX_MACROS

Index   == 0..MAX_MACROS - 1
Default == 0            \* a macro of DEFAULT_MACRO_CONFIG
Zero    == -1           \* a macro nobody has set
None    == -2           \* an absent NVS key
Tasks   == {"loop", "ble"}

VARIABLES
  config,           \* in RAM: macro_count, tag_macro, macros
  nvs,              \* the namespace macro_cfg
  build,            \* wireless or wired: the firmware's flags
  up,               \* setup, normal or usb: bootMode, once read
  boot_mode,        \* its NVS key
  job,              \* per task: where in a parse or a save it is
  version,          \* the number of the last table sent
  saved,            \* ghost: the table last reported as saved
  mixed,            \* ghost: a BLE load or save came into the loop's
  torn,             \* ghost: since the last save, a reset came into one
  half,             \* ghost: USB refused a table it had begun to take
  asked             \* ghost: a hold of the button is about to restart

ghostVars == <<saved, mixed, torn, half, asked>>
modeVars  == <<build, up, boot_mode>>
vars == <<config, nvs, modeVars, job, version, ghostVars>>

Idle == [at |-> "idle", i |-> 0, n |-> 0, v |-> 0]

Table(macro, counts) ==
  [count : counts, tag : {None} \cup 0..MAX_MACROS, macros : [Index -> macro]]

TypeOK ==
  /\ config \in Table(Zero..MaxSaves, 1..MAX_MACROS)
  /\ nvs \in Table(None..MaxSaves, {None} \cup 1..MAX_MACROS)
  /\ job \in [Tasks -> [at : {"idle", "parse", "macro", "count", "tag"},
                        i : 0..MAX_MACROS, n : 0..MAX_MACROS, v : 0..MaxSaves]]
  /\ build \in {"wireless", "wired"} /\ up \in {"setup", "normal", "usb"}
  /\ boot_mode \in {"NORMAL", "USB_CONFIG"}
  /\ config.tag # None
  /\ up = "setup" => config.tag < config.count

----------------------------------------------------------------------------
Prefix(f, n, v) == [m \in Index |-> IF m < n THEN v ELSE f[m]]

\* Variant of TagOf: the tag is taken as it is.
MutTagOf(c, g) == g

\* load's clamp: a tag past the count is macro 0.
TagOf(c, g) == IF g >= c THEN 0 ELSE g

\* Variant of Loaded: a key that is absent leaves what is in RAM.
MutLoaded(r) ==
  LET c == IF nvs.count = None THEN DEFAULT_COUNT ELSE nvs.count
      g == IF nvs.tag = None THEN 0 ELSE nvs.tag
  IN  [count |-> c, tag |-> TagOf(c, g),
       macros |-> [m \in Index |->
         IF m < c /\ nvs.macros[m] # None THEN nvs.macros[m] ELSE r.macros[m]]]

\* load, into what is in RAM: an absent macro is the default one if there is
\* one; macros past the count stay.
Loaded(r) ==
  LET c == IF nvs.count = None THEN DEFAULT_COUNT ELSE nvs.count
      g == IF nvs.tag = None THEN 0 ELSE nvs.tag
  IN  [count |-> c, tag |-> TagOf(c, g),
       macros |-> [m \in Index |->
         IF m >= c THEN r.macros[m]
         ELSE IF nvs.macros[m] # None THEN nvs.macros[m]
         ELSE IF m < DEFAULT_COUNT THEN Default
         ELSE r.macros[m]]]

\* The part of a table that anybody sees: buildMacroConfigJson.
View(c) == [count |-> c.count, tag |-> c.tag,
            macros |-> [m \in 0..c.count - 1 |-> c.macros[m]]]

GetMacros       == View(config)     \* GET /api/macros
handleGetMacros == View(config)     \* GET_MACROS over USB

NewConfig(c, g, written) ==
  [count |-> c, tag |-> g, macros |-> Prefix(config.macros, written, version + 1)]

\* A writer's work on the table it was sent, of n macros.
Job(at, n) == [at |-> at, i |-> 0, n |-> n, v |-> version + 1]

AllIdle == \A t \in Tasks : job[t] = Idle

\* A task moves; the loop only when no BLE callback runs.
Runs(t, at) == job[t].at = at /\ (t = "loop" => job["ble"] = Idle)

To(t, at, i) ==
  job' = [job EXCEPT ![t] = [at |-> at, i |-> i, n |-> @.n, v |-> @.v]]

\* A writer may begin; bound: MaxSaves.
Begin == up # "setup" /\ ~asked /\ version < MaxSaves /\ version' = version + 1

\* POST /api/macros, once it has passed its checks: count and tag at once.
PostMacros(c, g) ==
  /\ build = "wireless" /\ AllIdle /\ Begin
  /\ g < c
  /\ config' = NewConfig(c, g, 0)
  /\ job' = [job EXCEPT !["loop"] = Job("parse", c)]
  /\ mixed' = FALSE
  /\ UNCHANGED <<nvs, modeVars, saved, torn, half, asked>>

\* ... then each macro, and then saveAll.
ParseMacro ==
  /\ Runs("loop", "parse")
  /\ LET i == job["loop"].i IN
     /\ config' = [config EXCEPT !.macros[i] = job["loop"].v]
     /\ IF i + 1 < job["loop"].n THEN To("loop", "parse", i + 1)
                                 ELSE To("loop", "macro", 0)
  /\ UNCHANGED <<nvs, modeVars, version, ghostVars>>

\* The macro characteristic written: a payload that ends early leaves the
\* macros from n on as they were, any tag is taken, and all of it is saved.
BleMacros(c, g, n) ==
  /\ build = "wireless" /\ job["ble"] = Idle /\ Begin
  /\ n <= c
  /\ config' = NewConfig(c, g, n)
  /\ job' = [job EXCEPT !["ble"] = Job("macro", c)]
  /\ mixed' = (mixed \/ job["loop"] # Idle)
  /\ UNCHANGED <<nvs, modeVars, saved, torn, half, asked>>

\* The macro characteristic read: NVS replaces what is in RAM, whatever the
\* loop is doing with it.
BleLoad ==
  /\ build = "wireless" /\ up = "normal" /\ job["ble"] = Idle
  /\ config' = Loaded(config)
  /\ mixed' = (mixed \/ job["loop"] # Idle)
  /\ UNCHANGED <<nvs, modeVars, job, version, saved, torn, half, asked>>

\* SAVE_MACROS over USB, taken whole ...
handleSaveMacros(c, g) ==
  /\ build = "wired" /\ up = "usb" /\ AllIdle /\ Begin
  /\ config' = NewConfig(c, g, c)
  /\ job' = [job EXCEPT !["loop"] = Job("macro", c)]
  /\ mixed' = FALSE /\ half' = FALSE
  /\ UNCHANGED <<nvs, modeVars, saved, torn, asked>>

\* ... or refused at its n-th macro (missing_steps, step_index_oob).
RefuseMacros(c, g, n) ==
  /\ build = "wired" /\ up = "usb" /\ AllIdle /\ Begin
  /\ n \in 1..c
  /\ config' = NewConfig(c, g, n)
  /\ half' = TRUE
  /\ UNCHANGED <<nvs, modeVars, job, saved, mixed, torn, asked>>

\* Variant of Last: saveAll leaves the last macro out.
MutLast(i) == i + 1 >= config.count

\* saveAll's loop is over; macro_count is read again each time.
Last(i) == i >= config.count

\* save(i): its three keys, one by one.
SaveMacro(t) ==
  /\ Runs(t, "macro") /\ ~Last(job[t].i)
  /\ nvs' = [nvs EXCEPT !.macros[job[t].i] = config.macros[job[t].i]]
  /\ To(t, "count", job[t].i)
  /\ UNCHANGED <<config, modeVars, version, ghostVars>>

SaveCount(t) ==
  /\ Runs(t, "count")
  /\ nvs' = [nvs EXCEPT !.count = config.count]
  /\ To(t, "tag", job[t].i)
  /\ UNCHANGED <<config, modeVars, version, ghostVars>>

SaveTag(t) ==
  /\ Runs(t, "tag")
  /\ nvs' = [nvs EXCEPT !.tag = config.tag]
  /\ To(t, "macro", job[t].i + 1)
  /\ UNCHANGED <<config, modeVars, version, ghostVars>>

\* saveAll returns, and the client is told the table is saved.
SaveDone(t) ==
  /\ Runs(t, "macro") /\ Last(job[t].i)
  /\ job' = [job EXCEPT ![t] = Idle]
  /\ saved' = View(config) /\ torn' = FALSE
  /\ UNCHANGED <<config, nvs, modeVars, version, mixed, half, asked>>

Absent == [count |-> None, tag |-> None, macros |-> [m \in Index |-> None]]
Defaults == [count |-> DEFAULT_COUNT, tag |-> 0,
             macros |-> [m \in Index |-> IF m < DEFAULT_COUNT THEN Default ELSE Zero]]

\* clear: the factory reset of a wireless build.
Clear ==
  /\ build = "wireless" /\ up = "normal" /\ AllIdle
  /\ nvs' = Absent /\ config' = Defaults
  /\ saved' = View(Defaults) /\ torn' = FALSE
  /\ UNCHANGED <<modeVars, job, version, mixed, half, asked>>

\* The button of a wired build is held: the next boot is to be USB.
HoldForUsb ==
  /\ build = "wired" /\ up # "setup" /\ AllIdle /\ ~asked
  /\ boot_mode' = "USB_CONFIG" /\ asked' = TRUE
  /\ UNCHANGED <<config, nvs, build, up, job, version, saved, mixed, torn, half>>

\* A save has written some of its keys and not all.
Writing == \E t \in Tasks :
  job[t].at \in {"count", "tag"} \/ (job[t].at = "macro" /\ job[t].i > 0)

\* A reset at any moment, the one asked for included; setup loads the table.
Restart ==
  /\ up' = "setup"
  /\ config' = Loaded([Defaults EXCEPT !.macros = [m \in Index |-> Zero]])
  /\ job' = [t \in Tasks |-> Idle]
  /\ torn' = (torn \/ Writing)
  /\ mixed' = FALSE /\ half' = FALSE /\ asked' = FALSE
  /\ UNCHANGED <<nvs, build, boot_mode, version, saved>>

\* setup: the boot mode is read; USB mode is for this boot only.
Setup ==
  /\ up = "setup"
  /\ up' = IF boot_mode = "USB_CONFIG" THEN "usb" ELSE "normal"
  /\ boot_mode' = "NORMAL"
  /\ UNCHANGED <<config, nvs, build, job, version, ghostVars>>

Init ==
  /\ build \in {"wireless", "wired"}
  /\ up = "setup" /\ boot_mode = "NORMAL"
  /\ nvs = Absent /\ config = Defaults
  /\ job = [t \in Tasks |-> Idle] /\ version = 0
  /\ saved = View(Defaults)
  /\ mixed = FALSE /\ torn = FALSE /\ half = FALSE /\ asked = FALSE

Next ==
  \/ \E c \in 1..MAX_MACROS, g \in 0..MAX_MACROS :
       \/ PostMacros(c, g) \/ handleSaveMacros(c, g)
       \/ \E n \in 0..MAX_MACROS : BleMacros(c, g, n) \/ RefuseMacros(c, g, n)
  \/ ParseMacro \/ BleLoad
  \/ \E t \in Tasks : SaveMacro(t) \/ SaveCount(t) \/ SaveTag(t) \/ SaveDone(t)
  \/ Clear \/ HoldForUsb \/ Restart \/ Setup

Spec == Init /\ [][Next]_vars

----------------------------------------------------------------------------
\* A table with its tag as load takes it.
Clamped(v) == [v EXCEPT !.tag = TagOf(v.count, @)]

\* What the loop is saving is the table it was sent, whole.
AsSent ==
  LET j == job["loop"] IN
  j.at \in {"macro", "count", "tag"} =>
    config.count = j.n /\ \A m \in 0..j.n - 1 : config.macros[m] = j.v

\* The table last reported as saved is what every later boot loads, and what
\* every reader is shown (but for a tag that names no macro, which a boot turns
\* into 0), unless a reset came into a save since, or, for the readers, USB had
\* taken part of a table before refusing it: however BLE reads and writes come
\* into the loop's parsing and saving.  If none did, it is the table the client
\* sent and no mixture of two.
SavedIsLoaded ==
  /\ AllIdle /\ ~torn =>
       /\ View(Loaded(Defaults)) = Clamped(saved)
       /\ ~half => {Clamped(GetMacros), Clamped(handleGetMacros)} = {Clamped(saved)}
  /\ ~mixed => AsSent
=============================================================================
