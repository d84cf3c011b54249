-------------------------- MODULE MacroStoreProofs --------------------------
(***************************************************************************)
(* Proofs about MacroStore, for every number of macros, default table and  *)
(* number of tables sent.                                                  *)
(*                                                                         *)
(* The inductive invariant says of each task in a save what of the table   *)
(* in RAM it has written to NVS (Progress).  The loop's part survives a    *)
(* BLE read, which loads what was written, and a BLE write, which saves    *)
(* the whole table before the loop goes on: while it runs only the macros  *)
(* past its count are as the loop left them.  A save that is over has thus *)
(* written all of the table, whoever came into it, and StoredInv carries   *)
(* that to the next save.                                                  *)
(***************************************************************************)
EXTENDS MacroStore, TLAPS

Config == [count : 1..MAX_MACROS, tag : 0..MAX_MACROS, macros : [Index -> Zero..MaxSaves]]
Stage  == {"idle", "parse", "macro", "count", "tag"}
Work   == [at : Stage, i : 0..MAX_MACROS, n : 0..MAX_MACROS, v : 0..MaxSaves]

ModeInv ==
  /\ build \in {"wireless", "wired"} /\ up \in {"setup", "normal", "usb"}
  /\ boot_mode \in {"NORMAL", "USB_CONFIG"}

TableInv ==
  /\ config \in Config
  /\ nvs \in Table(None..MaxSaves, {None} \cup 1..MAX_MACROS)
  /\ up = "setup" => config.tag < config.count

JobInv ==
  /\ job \in [Tasks -> Work] /\ version \in 0..MaxSaves
  /\ \A t \in Tasks :
       /\ job[t].at \in {"count", "tag"} => job[t].i < MAX_MACROS
       /\ job[t].at = "parse" => t = "loop" /\ job[t].i < job[t].n
       /\ job[t].at = "idle" => job[t] = Idle

Saving(t) == job[t].at \in {"macro", "count", "tag"}

\* The macros a task in a save has written.
Written(t) == {m \in Index : \/ m < job[t].i
                             \/ m = job[t].i /\ job[t].at \in {"count", "tag"}}

Same(m) == nvs.macros[m] = config.macros[m]
SameCount == nvs.count = config.count
SameTag == nvs.tag # None /\ TagOf(config.count, nvs.tag) = TagOf(config.count, config.tag)

\* What a save has written so far is in NVS; a loop's save that BLE writes in
\* the middle of may rely only on what BLE does not write.
Progress(t) ==
  Saving(t) =>
    /\ \A m \in Written(t) :
         Same(m) \/ (t = "loop" /\ job["ble"] # Idle /\ m < config.count)
    /\ t = "ble" \/ job["ble"] = Idle =>
         /\ job[t].i > 0 => SameCount /\ SameTag
         /\ job[t].at = "tag" => SameCount

SaveInv == Progress("loop") /\ Progress("ble")

\* No macro within the stored count is missing but for a default one.
Count == IF nvs.count = None THEN DEFAULT_COUNT ELSE nvs.count
Full == \A m \in Index : m < Count => nvs.macros[m] # None \/ m < DEFAULT_COUNT

StoredInv ==
  ~torn /\ ~Writing => Full /\ View(Loaded(Defaults)) = Clamped(saved)

ShownInv == AllIdle /\ ~torn /\ ~half => Clamped(View(config)) = Clamped(saved)

SentInv ==
  ~mixed =>
    /\ AsSent
    /\ job["loop"].at = "parse" =>
         /\ config.count = job["loop"].n
         /\ \A m \in Index : m < job["loop"].i => config.macros[m] = job["loop"].v

IInv == ModeInv /\ TableInv /\ JobInv /\ SaveInv /\ StoredInv /\ ShownInv /\ SentInv

----------------------------------------------------------------------------
LEMMA Constants ==
  /\ MAX_MACROS \in Nat \ {0} /\ MaxSaves \in Nat
  /\ DEFAULT_COUNT \in 1..MAX_MACROS
  /\ Zero = -1 /\ None = -2 /\ Default = 0
BY StoreConstants DEF Zero, None, Default

\* What load makes of NVS is a table, its tag within its count.
LEMMA LoadedTyped ==
  ASSUME nvs \in Table(None..MaxSaves, {None} \cup 1..MAX_MACROS),
         NEW r, r.macros \in [Index -> Zero..MaxSaves]
  PROVE  /\ Loaded(r) \in Config /\ Loaded(r).tag < Loaded(r).count
         /\ Loaded(r).count = Count
         /\ Loaded(r).tag = TagOf(Count, IF nvs.tag = None THEN 0 ELSE nvs.tag)
<1> USE Constants
<1> DEFINE g == IF nvs.tag = None THEN 0 ELSE nvs.tag
           f == [m \in Index |->
                  IF m >= Count THEN r.macros[m]
                  ELSE IF nvs.macros[m] # None THEN nvs.macros[m]
                  ELSE IF m < DEFAULT_COUNT THEN Default
                  ELSE r.macros[m]]
<1>1. Loaded(r) = [count |-> Count, tag |-> TagOf(Count, g), macros |-> f]
  BY DEF Loaded, Count
<1>2. Count \in 1..MAX_MACROS
  BY DEF Count, Table
<1>3. TagOf(Count, g) \in 0..MAX_MACROS /\ TagOf(Count, g) < Count
  BY <1>2 DEF TagOf, Table
<1>4. f \in [Index -> Zero..MaxSaves]
  <2> SUFFICES ASSUME NEW m \in Index PROVE f[m] \in Zero..MaxSaves
    OBVIOUS
  <2>1. nvs.macros[m] \in None..MaxSaves
    BY DEF Table
  <2> QED BY <2>1
<1> HIDE DEF f, g
<1> QED BY <1>1, <1>2, <1>3, <1>4 DEF Config, g

LEMMA TagTwice ==
  ASSUME NEW c \in Nat \ {0}, NEW g \in Nat
  PROVE  TagOf(c, TagOf(c, g)) = TagOf(c, g)
BY DEF TagOf

LEMMA ClampedView ==
  ASSUME NEW c \in Config
  PROVE  Clamped(View(c)) = [count |-> c.count, tag |-> TagOf(c.count, c.tag),
                             macros |-> [m \in 0..c.count - 1 |-> c.macros[m]]]
<1> DEFINE f == [m \in 0..c.count - 1 |-> c.macros[m]]
           v == [count |-> c.count, tag |-> c.tag, macros |-> f]
<1>1. View(c) = v
  BY DEF View
<1>2. Clamped(v) = [v EXCEPT !.tag = TagOf(c.count, c.tag)]
  BY DEF Clamped
<1> HIDE DEF f
<1> QED BY <1>1, <1>2 DEF f

\* A table whose tag is in it is clamped already.
LEMMA ClampedAlready ==
  ASSUME NEW c \in Config, c.tag < c.count
  PROVE  Clamped(View(c)) = View(c)
<1>1. TagOf(c.count, c.tag) = c.tag
  BY Constants DEF TagOf, Config
<1> QED BY <1>1, ClampedView DEF View

LEMMA DefaultsTyped == Defaults \in Config /\ Defaults.tag < Defaults.count
<1> USE Constants
<1>1. [m \in Index |-> IF m < DEFAULT_COUNT THEN Default ELSE Zero] \in [Index -> Zero..MaxSaves]
  OBVIOUS
<1> QED BY <1>1 DEF Defaults, Config

\* What is shown of a table loaded from a full NVS does not depend on RAM.
LEMMA LoadedSame ==
  ASSUME nvs \in Table(None..MaxSaves, {None} \cup 1..MAX_MACROS), Full,
         NEW r, r.macros \in [Index -> Zero..MaxSaves],
         NEW s, s.macros \in [Index -> Zero..MaxSaves]
  PROVE  View(Loaded(r)) = View(Loaded(s))
<1> USE Constants
<1>1. Loaded(r).count = Count /\ Loaded(s).count = Count /\ Loaded(r).tag = Loaded(s).tag
  BY LoadedTyped
<1>2. Count \in 1..MAX_MACROS
  BY DEF Count, Table
<1>3. ASSUME NEW m \in 0..Count - 1 PROVE Loaded(r).macros[m] = Loaded(s).macros[m]
  <2>1. m \in Index /\ ~(m >= Count)
    BY <1>2 DEF Index
  <2>2. nvs.macros[m] # None \/ m < DEFAULT_COUNT
    BY <1>2, <2>1 DEF Full
  <2> QED BY <2>1, <2>2 DEF Loaded, Count
<1> QED BY <1>1, <1>3 DEF View

\* Once all of the table is written, NVS is full and loads as the table.
LEMMA AllWritten ==
  ASSUME TableInv, SameCount, SameTag, \A m \in Index : m < config.count => Same(m)
  PROVE  Full /\ View(Loaded(Defaults)) = Clamped(View(config))
<1> USE Constants DEF TableInv
<1>1. config.count \in 1..MAX_MACROS /\ Count = config.count
  BY DEF Config, SameCount, Count
<1>2. ASSUME NEW m \in Index, m < config.count
      PROVE  nvs.macros[m] # None /\ nvs.macros[m] = config.macros[m]
  BY <1>2 DEF Same, Config
<1>3. Full
  BY <1>1, <1>2 DEF Full
<1>4. /\ Loaded(Defaults).count = config.count
      /\ Loaded(Defaults).tag = TagOf(config.count, config.tag)
  BY <1>1, LoadedTyped, DefaultsTyped DEF SameTag, Config
<1>5. ASSUME NEW m \in 0..config.count - 1
      PROVE  Loaded(Defaults).macros[m] = config.macros[m]
  <2>1. m \in Index /\ m < config.count
    BY <1>1 DEF Index
  <2> QED BY <1>1, <1>2, <2>1 DEF Loaded, Count
<1> QED BY <1>3, <1>4, <1>5, ClampedView DEF View

----------------------------------------------------------------------------
\* What the steps do to a job and to the table.

LEMMA Stages == {"parse", "macro", "count", "tag"} = Stage \ {"idle"}
BY DEF Stage

LEMMA Moved ==
  ASSUME JobInv, NEW t \in Tasks, NEW at \in Stage, NEW i \in 0..MAX_MACROS, To(t, at, i)
  PROVE  /\ job' \in [Tasks -> Work]
         /\ job'[t] = [at |-> at, i |-> i, n |-> job[t].n, v |-> job[t].v]
         /\ \A u \in Tasks : u # t => job'[u] = job[u]
<1>1. job[t] \in Work
  BY DEF JobInv
<1>2. job' = [job EXCEPT ![t] = [at |-> at, i |-> i, n |-> job[t].n, v |-> job[t].v]]
  BY DEF To
<1>3. [at |-> at, i |-> i, n |-> job[t].n, v |-> job[t].v] \in Work
  BY <1>1 DEF Work
<1> QED BY <1>2, <1>3 DEF JobInv

LEMMA Begun ==
  ASSUME JobInv, Begin, NEW at \in Stage, NEW n \in 0..MAX_MACROS, NEW t \in Tasks,
         job' = [job EXCEPT ![t] = Job(at, n)]
  PROVE  /\ version' \in 0..MaxSaves /\ job' \in [Tasks -> Work]
         /\ job'[t] = [at |-> at, i |-> 0, n |-> n, v |-> version + 1]
         /\ \A u \in Tasks : u # t => job'[u] = job[u]
<1>1. version + 1 \in 0..MaxSaves
  BY Constants DEF JobInv, Begin
<1>2. Job(at, n) \in Work
  BY <1>1, Constants DEF Job, Work
<1> QED BY <1>1, <1>2 DEF JobInv, Begin, Job

LEMMA NewTyped ==
  ASSUME TableInv, JobInv, Begin, NEW c \in 1..MAX_MACROS, NEW g \in 0..MAX_MACROS,
         NEW w \in 0..MAX_MACROS
  PROVE  /\ NewConfig(c, g, w) \in Config /\ NewConfig(c, g, w).count = c
         /\ \A m \in Index : NewConfig(c, g, w).macros[m] =
                                IF m < w THEN version + 1 ELSE config.macros[m]
<1> USE Constants
<1>1. version + 1 \in Zero..MaxSaves
  BY DEF JobInv, Begin
<1>2. Prefix(config.macros, w, version + 1) \in [Index -> Zero..MaxSaves]
  BY <1>1 DEF Prefix, TableInv, Config
<1> QED BY <1>2 DEF NewConfig, Prefix, Config

LEMMA Parsed ==
  ASSUME TableInv, JobInv, ParseMacro
  PROVE  LET j == job["loop"] IN
         /\ j.i \in Index /\ j.i < j.n /\ j.n \in 0..MAX_MACROS /\ j.v \in 0..MaxSaves
         /\ config' \in Config /\ config'.count = config.count /\ config'.tag = config.tag
         /\ \A m \in Index : config'.macros[m] = IF m = j.i THEN j.v ELSE config.macros[m]
<1> USE Constants
<1> DEFINE j == job["loop"]
<1>1. "loop" \in Tasks /\ j.at = "parse"
  BY DEF ParseMacro, Runs, Tasks
<1>2. j \in Work /\ j.i < j.n
  BY <1>1 DEF JobInv
<1>3. j.i \in Index /\ j.n \in 0..MAX_MACROS /\ j.v \in 0..MaxSaves
  BY <1>2 DEF Work, Index
<1>4. config' = [config EXCEPT !.macros = [config.macros EXCEPT ![j.i] = j.v]]
  BY DEF ParseMacro
<1>5. [config.macros EXCEPT ![j.i] = j.v] \in [Index -> Zero..MaxSaves]
  BY <1>3 DEF TableInv, Config
<1> HIDE DEF j
<1> QED BY <1>2, <1>3, <1>4, <1>5 DEF TableInv, Config, j

\* A task that is saving, where, and alone if it is the loop.
LEMMA SavedBy ==
  ASSUME JobInv, NEW t \in Tasks, NEW at \in Stage \ {"idle"}, Runs(t, at)
  PROVE  /\ job[t].at = at /\ job[t] # Idle
         /\ job[t].i \in 0..MAX_MACROS /\ job[t].n \in 0..MAX_MACROS
         /\ t = "loop" => job["ble"] = Idle
BY DEF JobInv, Runs, Stage, Idle, Work

----------------------------------------------------------------------------
LEMMA Initially == Init => IInv
<1> SUFFICES ASSUME Init PROVE IInv
  OBVIOUS
<1> USE Constants
<1>1. ModeInv
  BY DEF Init, ModeInv
<1>2. nvs \in Table(None..MaxSaves, {None} \cup 1..MAX_MACROS)
  <2>1. [m \in Index |-> None] \in [Index -> None..MaxSaves]
    OBVIOUS
  <2> QED BY <2>1 DEF Init, Absent, Table
<1>3. TableInv
  BY <1>2, DefaultsTyped DEF Init, TableInv
<1>4. job = [t \in Tasks |-> Idle] /\ version = 0
  BY DEF Init
<1>5. JobInv
  <2>1. Idle \in Work
    BY DEF Idle, Work, Stage
  <2> QED BY <1>4, <2>1 DEF JobInv, Idle
<1>6. SaveInv /\ ~Writing
  BY <1>4 DEF SaveInv, Progress, Saving, Writing, Idle, Tasks
<1>7. Full /\ View(Loaded(Defaults)) = Clamped(View(Defaults))
  <2>1. nvs = Absent
    BY DEF Init
  <2>2. Count = DEFAULT_COUNT /\ Full
    BY <2>1 DEF Absent, Count, Full
  <2>3. Loaded(Defaults).count = Defaults.count /\ Loaded(Defaults).tag = Defaults.tag
    BY <2>1, <2>2, <1>2, LoadedTyped, DefaultsTyped DEF Absent, Defaults, TagOf, Config
  <2>4. ASSUME NEW m \in 0..DEFAULT_COUNT - 1
        PROVE  Loaded(Defaults).macros[m] = Defaults.macros[m]
    <3>1. m \in Index /\ m < DEFAULT_COUNT
      BY DEF Index
    <3> QED BY <2>1, <3>1 DEF Loaded, Absent, Defaults
  <2>5. Defaults.count = DEFAULT_COUNT
    BY DEF Defaults
  <2> QED BY <2>2, <2>3, <2>4, <2>5, ClampedAlready, DefaultsTyped DEF View
<1>8. StoredInv /\ ShownInv
  BY <1>7 DEF Init, StoredInv, ShownInv
<1>9. SentInv
  BY <1>4 DEF SentInv, AsSent, Idle, Tasks
<1> QED BY <1>1, <1>3, <1>5, <1>6, <1>8, <1>9 DEF IInv

LEMMA ModeStep == ModeInv /\ Next => ModeInv'
<1> SUFFICES ASSUME ModeInv, Next PROVE ModeInv'
  OBVIOUS
<1>1. UNCHANGED modeVars \/ HoldForUsb \/ Restart \/ Setup
  BY DEF Next, PostMacros, handleSaveMacros, BleMacros, RefuseMacros, ParseMacro, BleLoad,
         SaveMacro, SaveCount, SaveTag, SaveDone, Clear
<1> QED BY <1>1 DEF ModeInv, modeVars, HoldForUsb, Restart, Setup

LEMMA TableStep == TableInv /\ JobInv /\ Next => TableInv'
<1> SUFFICES ASSUME TableInv, JobInv, Next PROVE TableInv'
  OBVIOUS
<1> USE Constants
<1>1. ASSUME NEW c \in 1..MAX_MACROS, NEW g \in 0..MAX_MACROS, NEW w \in 0..MAX_MACROS,
             Begin, config' = NewConfig(c, g, w), UNCHANGED <<nvs, up>>
      PROVE  TableInv'
  BY <1>1, NewTyped DEF TableInv, Begin
<1>2. ASSUME NEW c \in 1..MAX_MACROS, NEW g \in 0..MAX_MACROS,
             PostMacros(c, g) \/ handleSaveMacros(c, g)
      PROVE  TableInv'
  BY <1>1, <1>2 DEF PostMacros, handleSaveMacros, modeVars
<1>3. ASSUME NEW c \in 1..MAX_MACROS, NEW g \in 0..MAX_MACROS, NEW n \in 0..MAX_MACROS,
             BleMacros(c, g, n) \/ RefuseMacros(c, g, n)
      PROVE  TableInv'
  BY <1>1, <1>3 DEF BleMacros, RefuseMacros, modeVars
<1>4. CASE ParseMacro
  <2>1. UNCHANGED <<nvs, up>>
    BY <1>4 DEF ParseMacro, modeVars
  <2> QED BY <1>4, <2>1, Parsed DEF TableInv
<1>5. CASE BleLoad
  <2>1. UNCHANGED <<nvs, up>> /\ up # "setup" /\ config' = Loaded(config)
    BY <1>5 DEF BleLoad, modeVars
  <2> QED BY <2>1, LoadedTyped DEF TableInv, Config
<1>6. ASSUME NEW t \in Tasks, SaveMacro(t) PROVE TableInv'
  <2>1. job[t].i \in Index
    <3>1. job[t].i \in 0..MAX_MACROS /\ ~(job[t].i >= config.count)
      BY <1>6, SavedBy DEF SaveMacro, Last, Stage
    <3> QED BY <3>1 DEF TableInv, Config, Index
  <2>2. nvs' = [nvs EXCEPT !.macros = [nvs.macros EXCEPT ![job[t].i] = config.macros[job[t].i]]]
    BY <1>6 DEF SaveMacro
  <2>3. config.macros[job[t].i] \in None..MaxSaves
    BY <2>1 DEF TableInv, Config
  <2>4. [nvs.macros EXCEPT ![job[t].i] = config.macros[job[t].i]] \in [Index -> None..MaxSaves]
    BY <2>1, <2>3 DEF TableInv, Table
  <2>5. UNCHANGED <<config, up>>
    BY <1>6 DEF SaveMacro, modeVars
  <2> QED BY <2>2, <2>4, <2>5 DEF TableInv, Table
<1>7. ASSUME NEW t \in Tasks, SaveCount(t) \/ SaveTag(t) PROVE TableInv'
  BY <1>7 DEF SaveCount, SaveTag, modeVars, TableInv, Table, Config
<1>8. ASSUME NEW t \in Tasks, SaveDone(t) PROVE TableInv'
  BY <1>8 DEF SaveDone, modeVars, TableInv
<1>9. CASE Clear
  <2>1. nvs' = Absent /\ config' = Defaults
    BY <1>9 DEF Clear
  <2>2. nvs' \in Table(None..MaxSaves, {None} \cup 1..MAX_MACROS)
    BY <2>1 DEF Absent, Table
  <2> QED BY <2>1, <2>2, DefaultsTyped DEF TableInv
<1>10. CASE Restart
  <2> DEFINE r == [Defaults EXCEPT !.macros = [m \in Index |-> Zero]]
  <2>1. r.macros \in [Index -> Zero..MaxSaves]
    BY DEF Defaults
  <2>2. config' = Loaded(r) /\ UNCHANGED nvs
    BY <1>10 DEF Restart
  <2> HIDE DEF r
  <2> QED BY <2>1, <2>2, LoadedTyped DEF TableInv
<1>11. CASE HoldForUsb \/ Setup
  BY <1>11 DEF HoldForUsb, Setup, TableInv
<1> QED BY <1>2, <1>3, <1>4, <1>5, <1>6, <1>7, <1>8, <1>9, <1>10, <1>11 DEF Next

LEMMA JobStep == JobInv /\ TableInv /\ Next => JobInv'
<1> SUFFICES ASSUME JobInv, TableInv, Next PROVE JobInv'
  OBVIOUS
<1> USE Constants
<1>1. CASE UNCHANGED <<job, version>>
  BY <1>1 DEF JobInv
<1>2. ASSUME NEW c \in 1..MAX_MACROS, NEW at \in {"parse", "macro"}, NEW t \in Tasks, Begin,
             job' = [job EXCEPT ![t] = Job(at, c)], at = "parse" => t = "loop"
      PROVE  JobInv'
  <2>1. at \in Stage /\ c \in 0..MAX_MACROS
    BY DEF Stage
  <2>2. /\ version' \in 0..MaxSaves /\ job' \in [Tasks -> Work]
        /\ job'[t] = [at |-> at, i |-> 0, n |-> c, v |-> version + 1]
        /\ \A u \in Tasks : u # t => job'[u] = job[u]
    BY <1>2, <2>1, Begun
  <2> QED BY <1>2, <2>2 DEF JobInv
<1>3. ASSUME NEW t \in Tasks, NEW at \in {"parse", "macro", "count", "tag"},
             NEW i \in 0..MAX_MACROS, To(t, at, i), UNCHANGED version,
             at \in {"count", "tag"} => i < MAX_MACROS,
             at = "parse" => t = "loop" /\ i < job[t].n
      PROVE  JobInv'
  <2>1. at \in Stage
    BY DEF Stage
  <2>2. /\ job' \in [Tasks -> Work]
        /\ job'[t] = [at |-> at, i |-> i, n |-> job[t].n, v |-> job[t].v]
        /\ \A u \in Tasks : u # t => job'[u] = job[u]
    BY <1>3, <2>1, Moved
  <2> QED BY <1>3, <2>2 DEF JobInv
<1>4. ASSUME NEW c \in 1..MAX_MACROS, NEW g \in 0..MAX_MACROS,
             PostMacros(c, g) \/ handleSaveMacros(c, g)
      PROVE  JobInv'
  BY <1>2, <1>4 DEF PostMacros, handleSaveMacros, Tasks
<1>5. ASSUME NEW c \in 1..MAX_MACROS, NEW g \in 0..MAX_MACROS, NEW n \in 0..MAX_MACROS,
             BleMacros(c, g, n)
      PROVE  JobInv'
  BY <1>2, <1>5 DEF BleMacros, Tasks
<1>6. ASSUME NEW c \in 1..MAX_MACROS, NEW g \in 0..MAX_MACROS, NEW n \in 0..MAX_MACROS,
             RefuseMacros(c, g, n)
      PROVE  JobInv'
  <2>1. UNCHANGED job /\ version' = version + 1 /\ version < MaxSaves
    BY <1>6 DEF RefuseMacros, Begin
  <2> QED BY <2>1 DEF JobInv
<1>7. CASE ParseMacro
  <2> DEFINE j == job["loop"]
  <2>1. j.i \in Index /\ j.i < j.n /\ j.n \in 0..MAX_MACROS
    BY <1>7, Parsed
  <2>2. \/ j.i + 1 < j.n /\ To("loop", "parse", j.i + 1)
        \/ To("loop", "macro", 0)
    BY <1>7 DEF ParseMacro
  <2>3. UNCHANGED version
    BY <1>7 DEF ParseMacro
  <2>4. j.i + 1 < j.n => j.i + 1 \in 0..MAX_MACROS
    <3> HIDE DEF j
    <3> QED BY <2>1 DEF Index
  <2> QED BY <1>3, <2>2, <2>3, <2>4 DEF Tasks
<1>8. ASSUME NEW t \in Tasks, SaveMacro(t) PROVE JobInv'
  <2>1. job[t].i \in 0..MAX_MACROS /\ job[t].i < MAX_MACROS
    BY <1>8, SavedBy DEF SaveMacro, Last, Stage, TableInv, Config
  <2>2. To(t, "count", job[t].i) /\ UNCHANGED version
    BY <1>8 DEF SaveMacro
  <2> QED BY <1>3, <2>1, <2>2
<1>9. ASSUME NEW t \in Tasks, SaveCount(t) PROVE JobInv'
  <2>1. job[t].i \in 0..MAX_MACROS /\ job[t].i < MAX_MACROS
    BY <1>9, SavedBy DEF SaveCount, Stage, JobInv
  <2>2. To(t, "tag", job[t].i) /\ UNCHANGED version
    BY <1>9 DEF SaveCount
  <2> QED BY <1>3, <2>1, <2>2
<1>10. ASSUME NEW t \in Tasks, SaveTag(t) PROVE JobInv'
  <2>1. job[t].i \in 0..MAX_MACROS /\ job[t].i < MAX_MACROS
    BY <1>10, SavedBy DEF SaveTag, Stage, JobInv
  <2>2. To(t, "macro", job[t].i + 1) /\ UNCHANGED version
    BY <1>10 DEF SaveTag
  <2>3. job[t].i + 1 \in 0..MAX_MACROS
    BY <2>1
  <2> QED BY <1>3, <2>2, <2>3
<1>11. ASSUME NEW J \in SUBSET Tasks, UNCHANGED version,
              job' = [t \in Tasks |-> IF t \in J THEN Idle ELSE job[t]]
       PROVE  JobInv'
  <2>1. Idle \in Work
    BY DEF Idle, Work, Stage
  <2> QED BY <1>11, <2>1 DEF JobInv, Idle
<1>12. ASSUME NEW t \in Tasks, SaveDone(t) PROVE JobInv'
  <2>1. UNCHANGED version /\ job' = [job EXCEPT ![t] = Idle]
    BY <1>12 DEF SaveDone
  <2>2. job' = [u \in Tasks |-> IF u \in {t} THEN Idle ELSE job[u]]
    BY <2>1 DEF JobInv
  <2> QED BY <1>11, <2>1, <2>2
<1>13. CASE Restart
  <2>1. UNCHANGED version /\ job' = [t \in Tasks |-> Idle]
    BY <1>13 DEF Restart
  <2> QED BY <1>11, <2>1
<1>14. CASE BleLoad \/ Clear \/ HoldForUsb \/ Setup
  BY <1>1, <1>14 DEF BleLoad, Clear, HoldForUsb, Setup
<1> QED BY <1>4, <1>5, <1>6, <1>7, <1>8, <1>9, <1>10, <1>12, <1>13, <1>14 DEF Next

----------------------------------------------------------------------------
\* A save that is over has written the whole table, whatever came into it.
LEMMA SaveComplete ==
  ASSUME JobInv, TableInv, SaveInv, NEW t \in Tasks, SaveDone(t)
  PROVE  /\ \A m \in Index : m < config.count => Same(m)
         /\ SameCount /\ SameTag
<1>1. job[t].at = "macro" /\ job[t].i \in 0..MAX_MACROS /\ job[t].i >= config.count
      /\ (t = "loop" => job["ble"] = Idle)
  BY SavedBy DEF SaveDone, Last, Stage
<1>2. config.count \in Nat \ {0} /\ MAX_MACROS \in Nat
  BY Constants DEF TableInv, Config
<1>3. Progress(t) /\ Saving(t) /\ (t = "ble" \/ t = "loop")
  BY <1>1 DEF SaveInv, Saving, Tasks
<1>4. job[t].i > 0
  BY <1>1, <1>2
<1>5. ASSUME NEW m \in Index, m < config.count PROVE m \in Written(t)
  BY <1>1, <1>2, <1>5 DEF Written, Index
<1> QED BY <1>1, <1>3, <1>4, <1>5 DEF Progress

\* Every task's writes stay in step with the table in RAM.
LEMMA SaveStep == SaveInv /\ JobInv /\ TableInv /\ Next => SaveInv'
<1> SUFFICES ASSUME SaveInv, JobInv, TableInv, Next PROVE SaveInv'
  OBVIOUS
<1> USE Constants
<1>1. CASE UNCHANGED <<config, nvs, job>>
  BY <1>1 DEF SaveInv, Progress, Saving, Written, Same, SameCount, SameTag
<1>2. ASSUME \A t \in Tasks : job'[t].at \in {"idle", "parse"} \/ job'[t] = Idle
                              \/ (job'[t].at = "macro" /\ job'[t].i = 0)
      PROVE  SaveInv'
  <2> SUFFICES ASSUME NEW t \in Tasks, job'[t].at \in {"macro", "count", "tag"}
                 PROVE  Progress(t)'
    BY DEF SaveInv, Progress, Saving, Tasks
  <2>2. job'[t].at = "macro" /\ job'[t].i = 0
    BY <1>2 DEF Idle
  <2>3. \A m \in Index : m \notin Written(t)'
    BY <2>2 DEF Written, Index
  <2> QED BY <2>2, <2>3 DEF Progress, Written
<1>3. ASSUME AllIdle, UNCHANGED job PROVE SaveInv'
  BY <1>2, <1>3 DEF AllIdle
<1>4. ASSUME NEW c \in 1..MAX_MACROS, NEW at \in {"parse", "macro"}, AllIdle, Begin,
             job' = [job EXCEPT !["loop"] = Job(at, c)]
      PROVE  SaveInv'
  <2>1. at \in Stage /\ c \in 0..MAX_MACROS /\ "loop" \in Tasks
    BY Stages DEF Tasks
  <2>2. /\ job'["loop"].at = at /\ job'["loop"].i = 0
        /\ \A u \in Tasks : u # "loop" => job'[u] = job[u]
    BY <1>4, <2>1 DEF Job, JobInv
  <2> QED BY <1>2, <1>4, <2>2 DEF AllIdle
<1>5. ASSUME NEW c \in 1..MAX_MACROS, NEW g \in 0..MAX_MACROS,
             PostMacros(c, g) \/ handleSaveMacros(c, g)
      PROVE  SaveInv'
  BY <1>4, <1>5 DEF PostMacros, handleSaveMacros
<1>6. ASSUME NEW c \in 1..MAX_MACROS, NEW g \in 0..MAX_MACROS, NEW n \in 0..MAX_MACROS,
             BleMacros(c, g, n)
      PROVE  SaveInv'
  <2>1. /\ Begin /\ job["ble"] = Idle /\ n <= c /\ config' = NewConfig(c, g, n)
        /\ UNCHANGED nvs /\ job' = [job EXCEPT !["ble"] = Job("macro", c)]
    BY <1>6 DEF BleMacros
  <2>2. /\ job'["ble"] = [at |-> "macro", i |-> 0, n |-> c, v |-> version + 1]
        /\ job'["loop"] = job["loop"]
    <3>1. "macro" \in Stage /\ c \in 0..MAX_MACROS /\ "ble" \in Tasks /\ "loop" \in Tasks
      BY Stages DEF Tasks
    <3> QED BY <2>1, <3>1, Begun
  <2>3. Progress("ble")'
    <3>1. \A m \in Index : m \notin Written("ble")'
      BY <2>2 DEF Written, Index
    <3> QED BY <2>2, <3>1 DEF Progress, Written
  <2>4. ASSUME Saving("loop")', NEW m \in Written("loop")'
        PROVE  Same(m)' \/ m < config'.count
    <3>1. m \in Written("loop") /\ m \in Index /\ Saving("loop")
      BY <2>2, <2>4 DEF Written, Saving
    <3>2. Same(m)
      BY <2>1, <3>1 DEF SaveInv, Progress
    <3>3. /\ config'.count = c
          /\ config'.macros[m] = IF m < n THEN version + 1 ELSE config.macros[m]
      BY <2>1, <3>1, NewTyped
    <3>4. m \in Int /\ c \in Int /\ n \in Int
      BY <3>1 DEF Index
    <3> QED BY <2>1, <3>2, <3>3, <3>4 DEF Same
  <2>5. job'["ble"] # Idle
    BY <2>2 DEF Idle
  <2>6. Progress("loop")'
    BY <2>4, <2>5 DEF Progress
  <2> QED BY <2>3, <2>6 DEF SaveInv
<1>7. ASSUME NEW c \in 1..MAX_MACROS, NEW g \in 0..MAX_MACROS, NEW n \in 0..MAX_MACROS,
             RefuseMacros(c, g, n)
      PROVE  SaveInv'
  BY <1>3, <1>7 DEF RefuseMacros
<1>8. CASE ParseMacro
  <2> DEFINE j == job["loop"]
  <2>1. job["ble"] = Idle /\ j.i \in Index /\ j.n \in 0..MAX_MACROS
    BY <1>8, Parsed DEF ParseMacro, Runs
  <2>2. \/ j.i + 1 < j.n /\ To("loop", "parse", j.i + 1)
        \/ To("loop", "macro", 0)
    BY <1>8 DEF ParseMacro
  <2>3. j.i + 1 < j.n => j.i + 1 \in 0..MAX_MACROS
    <3> HIDE DEF j
    <3> QED BY <2>1 DEF Index
  <2>4. /\ job'["ble"] = Idle
        /\ job'["loop"].at = "parse" \/ (job'["loop"].at = "macro" /\ job'["loop"].i = 0)
    <3>1. "ble" \in Tasks /\ "loop" \in Tasks
      BY DEF Tasks
    <3> HIDE DEF j
    <3>2. CASE To("loop", "macro", 0)
      BY <2>1, <3>1, <3>2 DEF To, JobInv
    <3>3. CASE j.i + 1 < j.n /\ To("loop", "parse", j.i + 1)
      BY <2>1, <3>1, <3>3 DEF To, JobInv
    <3> QED BY <2>2, <3>2, <3>3
  <2> QED BY <1>2, <2>4 DEF Tasks
<1>9. CASE BleLoad
  <2>1. job["ble"] = Idle /\ UNCHANGED <<job, nvs>> /\ config' = Loaded(config)
    BY <1>9 DEF BleLoad
  <2>2. config.macros \in [Index -> Zero..MaxSaves]
    BY DEF TableInv, Config
  <2>3. /\ config'.count = Count
        /\ config'.tag = TagOf(Count, IF nvs.tag = None THEN 0 ELSE nvs.tag)
        /\ config' \in Config
    BY <2>1, <2>2, LoadedTyped DEF TableInv
  <2>4. Progress("ble")'
    BY <2>1 DEF Progress, Saving, Idle
  <2>5. ASSUME Saving("loop")
        PROVE  Progress("loop")'
    <3>1. ASSUME NEW m \in Written("loop") PROVE Same(m)'
      <4>1. Same(m) /\ m \in Index
        BY <2>1, <2>5, <3>1 DEF SaveInv, Progress, Written
      <4>2. nvs.macros[m] # None
        BY <4>1 DEF Same, TableInv, Config
      <4> QED BY <2>1, <4>1, <4>2 DEF Same, Loaded
    <3>2. SameCount => SameCount'
      BY <2>1, <2>3 DEF SameCount, Count, TableInv, Config
    <3>3. SameCount /\ SameTag => SameTag'
      <4> SUFFICES ASSUME SameCount, SameTag PROVE SameTag'
        OBVIOUS
      <4>1. Count = config.count /\ config.count \in Nat \ {0} /\ nvs.tag \in Nat
        BY DEF SameCount, SameTag, Count, TableInv, Config, Table
      <4>2. config'.tag = TagOf(Count, nvs.tag) /\ config'.count = Count /\ nvs'.tag = nvs.tag
        BY <2>1, <2>3 DEF SameTag
      <4> QED BY <4>1, <4>2, TagTwice DEF SameTag
    <3>4. Written("loop")' = Written("loop")
      BY <2>1 DEF Written
    <3> QED BY <2>1, <2>5, <3>1, <3>2, <3>3, <3>4 DEF Progress, SaveInv
  <2>6. ~Saving("loop") => Progress("loop")'
    BY <2>1 DEF Progress, Saving
  <2> QED BY <2>4, <2>5, <2>6 DEF SaveInv
<1>10. ASSUME NEW t \in Tasks, NEW at \in {"macro", "count", "tag"}, Runs(t, at),
              NEW next \in {"macro", "count", "tag"}, NEW i \in 0..MAX_MACROS, To(t, next, i),
              UNCHANGED config,
              \A m \in Index : Same(m) => Same(m)',
              \A m \in Written(t)' : m \in Written(t) \/ Same(m)',
              i > 0 /\ (job[t].i > 0 => SameCount /\ SameTag) /\ (at = "tag" => SameCount)
                => SameCount' /\ SameTag',
              next = "tag" => SameCount'
       PROVE  SaveInv'
  <2>1. at \in Stage \ {"idle"} /\ next \in Stage
    BY DEF Stage
  <2>2. job[t].at = at /\ job[t] # Idle /\ (t = "loop" => job["ble"] = Idle)
    BY <1>10, <2>1, SavedBy
  <2>3. /\ job'[t] = [at |-> next, i |-> i, n |-> job[t].n, v |-> job[t].v]
        /\ \A u \in Tasks : u # t => job'[u] = job[u]
    BY <1>10, <2>1, Moved
  <2>4. Progress(t) /\ Saving(t)
    BY <2>2 DEF SaveInv, Saving, Tasks
  <2>5. job'[t] # Idle /\ (t = "loop" => job'["ble"] = Idle)
    BY <2>2, <2>3 DEF Idle, Tasks
  <2>6. Progress(t)'
    <3>1. \A m \in Written(t)' : Same(m)'
      <4>1. \A m \in Written(t) : m \in Index /\ Same(m)
        BY <2>2, <2>4 DEF Progress, Written
      <4> QED BY <1>10, <4>1
    <3>2. (job[t].i > 0 => SameCount /\ SameTag) /\ (at = "tag" => SameCount)
      BY <2>2, <2>4 DEF Progress, Tasks
    <3> QED BY <1>10, <2>3, <3>1, <3>2 DEF Progress
  <2>7. ASSUME NEW u \in Tasks, u # t PROVE Progress(u)'
    <3>1. CASE t = "loop"
      BY <2>5, <2>7, <3>1 DEF Tasks, Progress, Saving, Idle
    <3>2. CASE t = "ble"
      <4>1. u = "loop" /\ job'["loop"] = job["loop"] /\ job["ble"] # Idle /\ job'["ble"] # Idle
        BY <2>2, <2>3, <2>5, <2>7, <3>2 DEF Tasks
      <4>2. Saving("loop")' = Saving("loop") /\ Written("loop")' = Written("loop")
        BY <4>1 DEF Saving, Written
      <4>3. ASSUME NEW m \in Written("loop"), Saving("loop")
            PROVE  Same(m)' \/ m < config'.count
        <5>1. m \in Index /\ (Same(m) \/ m < config.count)
          BY <4>3 DEF SaveInv, Progress, Written
        <5> QED BY <1>10, <5>1
      <4> QED BY <4>1, <4>2, <4>3 DEF Progress
    <3> QED BY <3>1, <3>2 DEF Tasks
  <2> QED BY <2>6, <2>7 DEF SaveInv, Tasks
<1>11. ASSUME NEW t \in Tasks, SaveMacro(t) PROVE SaveInv'
  <2>1. /\ Runs(t, "macro") /\ UNCHANGED config /\ To(t, "count", job[t].i)
        /\ nvs' = [nvs EXCEPT !.macros[job[t].i] = config.macros[job[t].i]]
        /\ ~(job[t].i >= config.count)
    BY <1>11 DEF SaveMacro, Last
  <2>2. job[t].i \in 0..MAX_MACROS /\ job[t].at = "macro"
    BY <2>1, SavedBy DEF Stage
  <2>3. /\ nvs'.count = nvs.count /\ nvs'.tag = nvs.tag
        /\ \A m \in Index : nvs'.macros[m] = IF m = job[t].i THEN config.macros[m] ELSE nvs.macros[m]
    BY <2>1 DEF TableInv, Table
  <2>4. \A m \in Index : Same(m) => Same(m)'
    BY <2>1, <2>3 DEF Same
  <2>5. ASSUME NEW m \in Written(t)' PROVE m \in Written(t) \/ Same(m)'
    <3>1. job'[t].i = job[t].i
      BY <2>1 DEF To, JobInv
    <3>2. m \in Index /\ (m < job[t].i \/ m = job[t].i)
      BY <3>1 DEF Written
    <3> QED BY <2>1, <2>3, <3>2 DEF Written, Same
  <2>6. SameCount' = SameCount /\ SameTag' = SameTag
    BY <2>1, <2>3 DEF SameCount, SameTag
  <2> QED BY <1>10, <2>1, <2>2, <2>4, <2>5, <2>6
<1>12. ASSUME NEW t \in Tasks, SaveCount(t) PROVE SaveInv'
  <2>1. /\ Runs(t, "count") /\ UNCHANGED config /\ To(t, "tag", job[t].i)
        /\ nvs' = [nvs EXCEPT !.count = config.count]
    BY <1>12 DEF SaveCount
  <2>2. job[t].i \in 0..MAX_MACROS /\ job[t].at = "count"
    BY <2>1, SavedBy DEF Stage
  <2>3. nvs'.count = config.count /\ nvs'.tag = nvs.tag /\ nvs'.macros = nvs.macros
    BY <2>1 DEF TableInv, Table
  <2>4. \A m \in Index : Same(m) => Same(m)'
    BY <2>1, <2>3 DEF Same
  <2>5. Written(t)' = Written(t)
    <3>1. job'[t].i = job[t].i /\ job'[t].at = "tag"
      BY <2>1 DEF To, JobInv
    <3> QED BY <2>2, <3>1 DEF Written
  <2>6. SameCount' /\ SameTag' = SameTag
    BY <2>1, <2>3 DEF SameCount, SameTag
  <2>7. job[t].i > 0 /\ (job[t].i > 0 => SameCount /\ SameTag) => SameTag'
    BY <2>6
  <2> QED BY <1>10, <2>1, <2>2, <2>4, <2>5, <2>6, <2>7
<1>13. ASSUME NEW t \in Tasks, SaveTag(t) PROVE SaveInv'
  <2>1. /\ Runs(t, "tag") /\ UNCHANGED config /\ To(t, "macro", job[t].i + 1)
        /\ nvs' = [nvs EXCEPT !.tag = config.tag]
    BY <1>13 DEF SaveTag
  <2>2. job[t].i \in 0..MAX_MACROS /\ job[t].at = "tag" /\ job[t].i < MAX_MACROS
    BY <2>1, SavedBy DEF Stage, JobInv
  <2>3. nvs'.count = nvs.count /\ nvs'.tag = config.tag /\ nvs'.macros = nvs.macros
    BY <2>1 DEF TableInv, Table
  <2>4. \A m \in Index : Same(m) => Same(m)'
    BY <2>1, <2>3 DEF Same
  <2>8. job[t].i + 1 \in 0..MAX_MACROS
    BY <2>2
  <2>5. Written(t)' = Written(t)
    <3>1. job'[t].i = job[t].i + 1 /\ job'[t].at = "macro"
      BY <2>1 DEF To, JobInv
    <3>2. \A m \in Index : m < job[t].i + 1 <=> (m < job[t].i \/ m = job[t].i)
      BY <2>2 DEF Index
    <3> QED BY <2>2, <3>1, <3>2 DEF Written
  <2>6. (SameCount => SameCount') /\ SameTag'
    BY <2>1, <2>3 DEF SameCount, SameTag, TableInv, Config
  <2> QED BY <1>10, <2>1, <2>4, <2>5, <2>6, <2>8
<1>14. ASSUME NEW t \in Tasks, SaveDone(t) PROVE SaveInv'
  <2>1. UNCHANGED <<config, nvs>> /\ job' = [job EXCEPT ![t] = Idle] /\ Runs(t, "macro")
    BY <1>14 DEF SaveDone
  <2>2. /\ \A m \in Index : m < config.count => Same(m)
        /\ SameCount /\ SameTag
    BY <1>14, SaveComplete
  <2>3. job'[t] = Idle /\ \A u \in Tasks : u # t => job'[u] = job[u]
    BY <2>1 DEF JobInv
  <2>4. CASE t = "loop"
    <3>1. \A u \in Tasks : job'[u] = Idle
      BY <2>1, <2>3, <2>4 DEF Runs, Tasks
    <3> QED BY <1>2, <3>1
  <2>5. CASE t = "ble"
    <3>1. job'["ble"] = Idle /\ job'["loop"] = job["loop"]
      BY <2>3, <2>5 DEF Tasks
    <3>2. Progress("ble")'
      BY <3>1 DEF Progress, Saving, Idle
    <3>3. ASSUME Saving("loop") PROVE Progress("loop")'
      <4>1. \A m \in Written("loop") : Same(m)
        BY <2>2, <3>3 DEF SaveInv, Progress, Written
      <4>2. \A m \in Written("loop")' : Same(m)'
        BY <2>1, <3>1, <4>1 DEF Written, Same
      <4>3. SameCount' /\ SameTag'
        BY <2>1, <2>2 DEF SameCount, SameTag
      <4> QED BY <4>2, <4>3 DEF Progress
    <3>4. ~Saving("loop") => Progress("loop")'
      BY <3>1 DEF Progress, Saving
    <3> QED BY <3>2, <3>3, <3>4 DEF SaveInv
  <2> QED BY <2>4, <2>5 DEF Tasks
<1>15. CASE Clear
  BY <1>3, <1>15 DEF Clear
<1>16. CASE Restart
  <2>1. job' = [t \in Tasks |-> Idle]
    BY <1>16 DEF Restart
  <2> QED BY <1>2, <2>1
<1>17. CASE HoldForUsb \/ Setup
  BY <1>1, <1>17 DEF HoldForUsb, Setup
<1> QED BY <1>5, <1>6, <1>7, <1>8, <1>9, <1>11, <1>12, <1>13, <1>14, <1>15, <1>16, <1>17 DEF Next

\* Unless a reset came into a save, and while none has begun to write, NVS
\* loads as the table last reported as saved.
LEMMA StoredStep == StoredInv /\ SaveInv /\ JobInv /\ TableInv /\ Next => StoredInv'
<1> SUFFICES ASSUME StoredInv, SaveInv, JobInv, TableInv, Next PROVE StoredInv'
  OBVIOUS
<1> USE Constants
<1>1. ASSUME UNCHANGED <<nvs, saved>>, ~torn' /\ ~Writing' => ~torn /\ ~Writing
      PROVE  StoredInv'
  BY <1>1 DEF StoredInv, Full, Count, View, Loaded, Clamped
<1>2. ASSUME NEW c \in 1..MAX_MACROS, NEW g \in 0..MAX_MACROS,
             PostMacros(c, g) \/ handleSaveMacros(c, g)
      PROVE  StoredInv'
  <2>1. UNCHANGED <<nvs, saved, torn>> /\ ~Writing
    BY <1>2 DEF PostMacros, handleSaveMacros, AllIdle, Writing, Idle
  <2> QED BY <1>1, <2>1
<1>3. ASSUME NEW c \in 1..MAX_MACROS, NEW g \in 0..MAX_MACROS, NEW n \in 0..MAX_MACROS,
             BleMacros(c, g, n)
      PROVE  StoredInv'
  <2>1. /\ UNCHANGED <<nvs, saved, torn>> /\ job["ble"] = Idle
        /\ job' = [job EXCEPT !["ble"] = Job("macro", c)]
    BY <1>3 DEF BleMacros
  <2>2. Writing => Writing'
    <3>1. job'["loop"] = job["loop"]
      BY <2>1 DEF JobInv, Tasks
    <3> QED BY <2>1, <3>1 DEF Writing, Idle, Tasks
  <2> QED BY <1>1, <2>1, <2>2
<1>4. ASSUME NEW c \in 1..MAX_MACROS, NEW g \in 0..MAX_MACROS, NEW n \in 0..MAX_MACROS,
             RefuseMacros(c, g, n)
      PROVE  StoredInv'
  BY <1>1, <1>4 DEF RefuseMacros, Writing
<1>5. CASE ParseMacro
  <2>1. UNCHANGED <<nvs, saved, torn>> /\ job["loop"].at = "parse" /\ job["ble"] = Idle
    BY <1>5 DEF ParseMacro, ghostVars, Runs
  <2>2. ~Writing
    BY <2>1 DEF Writing, Idle, Tasks
  <2> QED BY <1>1, <2>1, <2>2
<1>6. CASE BleLoad
  BY <1>1, <1>6 DEF BleLoad, Writing
<1>7. ASSUME NEW t \in Tasks, SaveMacro(t) \/ SaveCount(t) \/ SaveTag(t) PROVE StoredInv'
  <2>1. job'[t].at \in {"count", "tag"} \/ (job'[t].at = "macro" /\ job'[t].i = job[t].i + 1)
    BY <1>7 DEF SaveMacro, SaveCount, SaveTag, To, JobInv
  <2>2. job[t].i + 1 > 0
    BY DEF JobInv, Work
  <2>3. Writing'
    BY <2>1, <2>2 DEF Writing
  <2> QED BY <2>3 DEF StoredInv
<1>8. ASSUME NEW t \in Tasks, SaveDone(t) PROVE StoredInv'
  <2>1. Full /\ View(Loaded(Defaults)) = Clamped(View(config))
    BY <1>8, SaveComplete, AllWritten
  <2>2. UNCHANGED nvs /\ saved' = View(config)
    BY <1>8 DEF SaveDone
  <2> QED BY <2>1, <2>2 DEF StoredInv, Full, Count, View, Loaded, Clamped
<1>9. CASE Clear
  <2>1. nvs' = Absent /\ saved' = View(Defaults)
    BY <1>9 DEF Clear
  <2>2. TableInv'
    BY TableStep
  <2>3. Count' = DEFAULT_COUNT /\ Full'
    BY <2>1 DEF Absent, Count, Full
  <2>4. Loaded(Defaults)' = Defaults
    <3>1. TagOf(DEFAULT_COUNT, 0) = 0
      BY DEF TagOf
    <3>2. \A m \in Index : (IF m >= DEFAULT_COUNT THEN Defaults.macros[m]
                           ELSE IF nvs'.macros[m] # None THEN nvs'.macros[m]
                           ELSE IF m < DEFAULT_COUNT THEN Default
                           ELSE Defaults.macros[m])
                         = IF m < DEFAULT_COUNT THEN Default ELSE Zero
      BY <2>1 DEF Absent, Defaults, Index
    <3>3. [m \in Index |-> IF m >= DEFAULT_COUNT THEN Defaults.macros[m]
                           ELSE IF nvs'.macros[m] # None THEN nvs'.macros[m]
                           ELSE IF m < DEFAULT_COUNT THEN Default
                           ELSE Defaults.macros[m]]
          = [m \in Index |-> IF m < DEFAULT_COUNT THEN Default ELSE Zero]
      BY <3>2
    <3>4. nvs'.count = None /\ nvs'.tag = None
      BY <2>1 DEF Absent
    <3> QED BY <3>1, <3>3, <3>4, Zenon DEF Loaded, Defaults
  <2>5. Clamped(View(Defaults)) = View(Defaults)
    BY DefaultsTyped, ClampedAlready
  <2> QED BY <2>1, <2>3, <2>4, <2>5 DEF StoredInv, Clamped, View
<1>10. CASE Restart
  BY <1>1, <1>10 DEF Restart
<1>11. CASE HoldForUsb \/ Setup
  BY <1>1, <1>11 DEF HoldForUsb, Setup, ghostVars, Writing
<1> QED BY <1>2, <1>3, <1>4, <1>5, <1>6, <1>7, <1>8, <1>9, <1>10, <1>11 DEF Next

\* Readers are shown what NVS would load.
LEMMA ShownStep == ShownInv /\ StoredInv /\ JobInv /\ TableInv /\ Next => ShownInv'
<1> SUFFICES ASSUME ShownInv, StoredInv, JobInv, TableInv, Next,
                    AllIdle', ~torn', ~half'
             PROVE  Clamped(View(config))' = Clamped(saved)'
  BY DEF ShownInv
<1> USE Constants
<1>1. \A t \in Tasks : job'[t].at = "idle"
  BY DEF AllIdle, Idle
<1>2. ASSUME NEW c \in 1..MAX_MACROS, NEW g \in 0..MAX_MACROS,
             PostMacros(c, g) \/ handleSaveMacros(c, g)
      PROVE  FALSE
  <2>1. job'["loop"].at # "idle"
    BY <1>2 DEF PostMacros, handleSaveMacros, Job, JobInv, Tasks
  <2> QED BY <1>1, <2>1 DEF Tasks
<1>3. ASSUME NEW c \in 1..MAX_MACROS, NEW g \in 0..MAX_MACROS, NEW n \in 0..MAX_MACROS,
             BleMacros(c, g, n) \/ RefuseMacros(c, g, n)
      PROVE  FALSE
  <2>1. job'["ble"].at # "idle" \/ half'
    BY <1>3 DEF BleMacros, RefuseMacros, Job, JobInv, Tasks
  <2> QED BY <1>1, <2>1 DEF Tasks
<1>4. CASE ParseMacro
  <2>1. job'["loop"].at # "idle"
    BY <1>4 DEF ParseMacro, To, JobInv, Tasks
  <2> QED BY <1>1, <2>1 DEF Tasks
<1>5. ASSUME NEW t \in Tasks, SaveMacro(t) \/ SaveCount(t) \/ SaveTag(t) PROVE FALSE
  <2>1. job'[t].at # "idle"
    BY <1>5 DEF SaveMacro, SaveCount, SaveTag, To, JobInv
  <2> QED BY <1>1, <2>1
<1>6. ASSUME NEW r, r.macros \in [Index -> Zero..MaxSaves], ~torn, ~Writing,
             config' = Loaded(r), UNCHANGED saved
      PROVE  Clamped(View(config))' = Clamped(saved)'
  <2>1. Full /\ View(Loaded(Defaults)) = Clamped(saved)
    BY <1>6 DEF StoredInv
  <2>2. View(Loaded(r)) = View(Loaded(Defaults))
    BY <1>6, <2>1, LoadedSame, DefaultsTyped DEF TableInv, Config
  <2>3. Clamped(View(Loaded(r))) = View(Loaded(r))
    BY <1>6, LoadedTyped, ClampedAlready DEF TableInv
  <2> QED BY <1>6, <2>1, <2>2, <2>3 DEF Clamped, View
<1>7. CASE BleLoad
  <2>1. config' = Loaded(config) /\ UNCHANGED <<job, saved, torn>>
    BY <1>7 DEF BleLoad
  <2>2. ~Writing
    BY <1>1, <2>1 DEF Writing
  <2>3. config.macros \in [Index -> Zero..MaxSaves]
    BY DEF TableInv, Config
  <2> QED BY <1>6, <2>1, <2>2, <2>3
<1>8. ASSUME NEW t \in Tasks, SaveDone(t) PROVE Clamped(View(config))' = Clamped(saved)'
  <2>1. UNCHANGED config /\ saved' = View(config)
    BY <1>8 DEF SaveDone
  <2> QED BY <2>1 DEF Clamped, View
<1>9. CASE Clear
  <2>1. config' = Defaults /\ saved' = View(Defaults)
    BY <1>9 DEF Clear
  <2> QED BY <2>1 DEF Clamped, View
<1>10. CASE Restart
  <2> DEFINE r == [Defaults EXCEPT !.macros = [m \in Index |-> Zero]]
  <2>1. r.macros \in [Index -> Zero..MaxSaves]
    BY DEF Defaults
  <2>2. config' = Loaded(r) /\ UNCHANGED saved /\ ~torn /\ ~Writing
    BY <1>10 DEF Restart
  <2> HIDE DEF r
  <2> QED BY <1>6, <2>1, <2>2
<1>11. CASE HoldForUsb \/ Setup
  <2>1. UNCHANGED <<config, saved, job, torn, half>>
    BY <1>11 DEF HoldForUsb, Setup, ghostVars
  <2> QED BY <2>1 DEF ShownInv, AllIdle, Clamped, View
<1> QED BY <1>2, <1>3, <1>4, <1>5, <1>7, <1>8, <1>9, <1>10, <1>11 DEF Next

\* What the loop parses and saves is what it was sent, if BLE kept out.
LEMMA SentStep == SentInv /\ JobInv /\ TableInv /\ Next => SentInv'
<1> SUFFICES ASSUME SentInv, JobInv, TableInv, Next, ~mixed' PROVE SentInv'
  BY DEF SentInv
<1> USE Constants
<1>1. ASSUME job'["loop"].at = "idle" PROVE SentInv'
  BY <1>1 DEF SentInv, AsSent
<1>2. ASSUME ~mixed, UNCHANGED config, job'["loop"] = job["loop"] PROVE SentInv'
  BY <1>2 DEF SentInv, AsSent
<1>3. ASSUME NEW c \in 1..MAX_MACROS, NEW g \in 0..MAX_MACROS, PostMacros(c, g)
      PROVE  SentInv'
  <2>1. Begin /\ config' = NewConfig(c, g, 0) /\ job' = [job EXCEPT !["loop"] = Job("parse", c)]
    BY <1>3 DEF PostMacros
  <2>2. job'["loop"].at = "parse" /\ job'["loop"].i = 0 /\ job'["loop"].n = c
    BY <2>1 DEF Job, JobInv, Tasks
  <2>3. config'.count = c
    BY <2>1, NewTyped
  <2> QED BY <2>2, <2>3 DEF SentInv, AsSent, Index
<1>4. ASSUME NEW c \in 1..MAX_MACROS, NEW g \in 0..MAX_MACROS, handleSaveMacros(c, g)
      PROVE  SentInv'
  <2>1. Begin /\ config' = NewConfig(c, g, c) /\ job' = [job EXCEPT !["loop"] = Job("macro", c)]
    BY <1>4 DEF handleSaveMacros
  <2>2. /\ job'["loop"].at = "macro" /\ job'["loop"].n = c
        /\ job'["loop"].v = version + 1
    BY <2>1 DEF Job, JobInv, Tasks
  <2>3. /\ config'.count = c
        /\ \A m \in Index : m < c => config'.macros[m] = version + 1
    BY <2>1, NewTyped
  <2>4. \A m \in 0..c - 1 : m \in Index /\ m < c
    BY DEF Index
  <2> QED BY <2>2, <2>3, <2>4 DEF SentInv, AsSent
<1>5. ASSUME NEW c \in 1..MAX_MACROS, NEW g \in 0..MAX_MACROS, NEW n \in 0..MAX_MACROS,
             BleMacros(c, g, n)
      PROVE  SentInv'
  <2>1. job["loop"] = Idle /\ job' = [job EXCEPT !["ble"] = Job("macro", c)]
    BY <1>5 DEF BleMacros
  <2>2. job'["loop"] = job["loop"]
    BY <2>1 DEF JobInv, Tasks
  <2> QED BY <1>1, <2>1, <2>2 DEF Idle
<1>6. ASSUME NEW c \in 1..MAX_MACROS, NEW g \in 0..MAX_MACROS, NEW n \in 0..MAX_MACROS,
             RefuseMacros(c, g, n)
      PROVE  SentInv'
  BY <1>1, <1>6 DEF RefuseMacros, AllIdle, Idle, Tasks
<1>7. CASE ParseMacro
  <2> DEFINE j == job["loop"]
  <2>1. /\ j.i \in Index /\ j.i < j.n /\ j.n \in 0..MAX_MACROS
        /\ config'.count = config.count
        /\ \A m \in Index : config'.macros[m] = IF m = j.i THEN j.v ELSE config.macros[m]
    BY <1>7, Parsed
  <2>2. j.at = "parse" /\ ~mixed
    BY <1>7 DEF ParseMacro, Runs, ghostVars
  <2>3. config.count = j.n /\ \A m \in Index : m < j.i => config.macros[m] = j.v
    BY <2>2 DEF SentInv
  <2>4. \A m \in Index : m \in Int
    BY DEF Index
  <2>5. CASE j.i + 1 < j.n
    <3>1. /\ job'["loop"].at = "parse" /\ job'["loop"].n = j.n
          /\ job'["loop"].i = j.i + 1 /\ job'["loop"].v = j.v
      BY <1>7, <2>5 DEF ParseMacro, To, JobInv, Tasks
    <3> HIDE DEF j
    <3> QED BY <2>1, <2>3, <2>4, <3>1 DEF SentInv, AsSent
  <2>6. CASE ~(j.i + 1 < j.n)
    <3>1. job'["loop"].at = "macro" /\ job'["loop"].n = j.n /\ job'["loop"].v = j.v
      BY <1>7, <2>6 DEF ParseMacro, To, JobInv, Tasks
    <3> HIDE DEF j
    <3>2. \A m \in 0..j.n - 1 : m \in Index /\ (m < j.i \/ m = j.i)
      BY <2>1, <2>6 DEF Index
    <3> QED BY <2>1, <2>3, <3>1, <3>2 DEF SentInv, AsSent
  <2> QED BY <2>5, <2>6
<1>8. CASE BleLoad
  <2>1. job["loop"] = Idle /\ job' = job
    BY <1>8, Zenon DEF BleLoad
  <2> QED BY <1>1, <2>1 DEF Idle
<1>9. ASSUME NEW t \in Tasks, SaveMacro(t) \/ SaveCount(t) \/ SaveTag(t) PROVE SentInv'
  <2>1. ~mixed /\ UNCHANGED config
    BY <1>9 DEF SaveMacro, SaveCount, SaveTag, ghostVars
  <2>2. CASE t = "loop"
    <3>1. job["loop"].at \in {"macro", "count", "tag"}
      BY <1>9, <2>2 DEF SaveMacro, SaveCount, SaveTag, Runs
    <3>2. /\ job'["loop"].at \in {"macro", "count", "tag"}
          /\ job'["loop"].n = job["loop"].n /\ job'["loop"].v = job["loop"].v
      BY <1>9, <2>2 DEF SaveMacro, SaveCount, SaveTag, To, JobInv, Tasks
    <3> QED BY <2>1, <3>1, <3>2 DEF SentInv, AsSent
  <2>3. CASE t # "loop"
    <3>1. job'["loop"] = job["loop"]
      BY <1>9, <2>3 DEF SaveMacro, SaveCount, SaveTag, To, JobInv, Tasks
    <3> QED BY <1>2, <2>1, <3>1
  <2> QED BY <2>2, <2>3
<1>10. ASSUME NEW t \in Tasks, SaveDone(t) PROVE SentInv'
  <2>1. ~mixed /\ UNCHANGED config /\ job' = [job EXCEPT ![t] = Idle]
    BY <1>10 DEF SaveDone
  <2>2. job'["loop"] = job["loop"] \/ job'["loop"] = Idle
    BY <2>1 DEF JobInv, Tasks
  <2>3. CASE job'["loop"] = Idle
    BY <2>3 DEF SentInv, AsSent, Idle
  <2> QED BY <1>2, <2>1, <2>2, <2>3
<1>11. CASE Clear
  BY <1>1, <1>11 DEF Clear, AllIdle, Idle, Tasks
<1>12. CASE Restart
  BY <1>1, <1>12 DEF Restart, Idle, Tasks
<1>13. CASE HoldForUsb \/ Setup
  BY <1>2, <1>13 DEF HoldForUsb, Setup, ghostVars
<1> QED BY <1>3, <1>4, <1>5, <1>6, <1>7, <1>8, <1>9, <1>10, <1>11, <1>12, <1>13 DEF Next

LEMMA NextStep == IInv /\ [Next]_vars => IInv'
<1>1. IInv /\ Next => IInv'
  BY ModeStep, TableStep, JobStep, SaveStep, StoredStep, ShownStep, SentStep DEF IInv
<1>2. ASSUME IInv, UNCHANGED vars PROVE IInv'
  <2>1. UNCHANGED <<config, nvs, build, up, boot_mode, job, version, saved, mixed, torn, half>>
    BY <1>2 DEF vars, modeVars, ghostVars
  <2>2. (ModeInv /\ TableInv /\ JobInv)'
    BY <1>2, <2>1 DEF IInv, ModeInv, TableInv, JobInv
  <2>3. SaveInv'
    BY <1>2, <2>1 DEF IInv, SaveInv, Progress, Saving, Written, Same, SameCount, SameTag
  <2>4. StoredInv'
    BY <1>2, <2>1 DEF IInv, StoredInv, Full, Count, View, Loaded, Clamped, Writing
  <2>5. (ShownInv /\ SentInv)'
    BY <1>2, <2>1 DEF IInv, ShownInv, SentInv, AsSent, AllIdle, View, Clamped
  <2> QED BY <2>2, <2>3, <2>4, <2>5 DEF IInv
<1> QED BY <1>1, <1>2

LEMMA Invariance == Spec => []IInv
BY Initially, NextStep, PTL DEF Spec

----------------------------------------------------------------------------
\* The tables in RAM and in NVS keep their shape whatever is sent, loaded or
\* interrupted: the count in RAM is 1 to MAX_MACROS and no parse or save gets
\* past MAX_MACROS.  The tag is a number, but it names a macro of the table only
\* as long as setup has just loaded it: BLE and USB may set any.
THEOREM TypeCorrect == Spec => []TypeOK
<1>1. IInv => TypeOK
  BY Constants DEF IInv, ModeInv, TableInv, JobInv, TypeOK, Table, Config, Work, Stage
<1> QED BY <1>1, Invariance, PTL

\* The table last reported as saved is what every later boot loads and every
\* reader is shown, and, if BLE kept out of the loop's parsing and saving, what
\* the client sent.
THEOREM Saved == Spec => []SavedIsLoaded
<1>1. IInv => SavedIsLoaded
  <2> SUFFICES ASSUME IInv PROVE SavedIsLoaded
    OBVIOUS
  <2>1. ASSUME AllIdle PROVE ~Writing
    BY <2>1 DEF AllIdle, Writing, Idle
  <2>2. ASSUME AllIdle, ~torn PROVE View(Loaded(Defaults)) = Clamped(saved)
    BY <2>1, <2>2 DEF IInv, StoredInv
  <2>3. ASSUME AllIdle, ~torn, ~half PROVE Clamped(View(config)) = Clamped(saved)
    BY <2>3 DEF IInv, ShownInv
  <2>4. ~mixed => AsSent
    BY DEF IInv, SentInv
  <2> QED BY <2>2, <2>3, <2>4 DEF SavedIsLoaded, GetMacros, handleGetMacros
<1> QED BY <1>1, Invariance, PTL
=============================================================================
