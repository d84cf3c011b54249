-------------------------- MODULE AccessLogProofs --------------------------
(***************************************************************************)
(* Proofs about AccessLog, for every size of the ring and every number of  *)
(* entries, boots and time units.                                          *)
(*                                                                         *)
(* The inductive invariant has a part per question.  SavedInv says that    *)
(* what differs between RAM and NVS is a key that some call has left to    *)
(* write (Owes); BLE does not disturb it outside the loop's windows, as    *)
(* each key is written with the value it has then.  OrderInv compares the  *)
(* ring in RAM with the entries told, KeptInv the one in NVS with those a  *)
(* reset should bring back.  DatedInv says what the time of an entry means *)
(* by the boot that made it and the one that dated it.                     *)
(***************************************************************************)
EXTENDS AccessLog, SequenceTheorems, TLAPS

Calls == {"log", "boot", "sync", "clear", "reboot"}
Keys  == {<<"head">>, <<"count">>, <<"clear">>} \cup {<<"log", s>> : s \in Slots}
Wipe  == <<<<"clear">>>>
Header(k) == k \in {<<"head">>, <<"count">>}

Places == {"call", "stamped", "overtaken", "filled", "counted", "write", "held"}

LogsOnce(program) ==
  \A i, j \in DOMAIN program :
    {program[i], program[j]} \subseteq {"log", "boot"} => i = j

\* A task, whatever the other does.
Task(t) ==
  /\ LogsOnce(todo[t])
  /\ todo[t] = <<>> => pc[t] = "call"
  /\ pc[t] \in {"stamped", "overtaken", "filled", "counted"} => Call(t) \in {"log", "boot"}
  /\ pc[t] \in {"stamped", "overtaken"} => arg[t] \in {0, 1}
  /\ pc[t] \in {"write", "held"} =>
       Call(t) \in {"log", "boot", "sync", "clear"} /\ writes[t] # <<>>
  /\ pc[t] \notin {"write", "held"} => writes[t] = <<>>
  /\ pc[t] = "held" =>
       /\ Call(t) # "clear" /\ Header(Head(writes[t]))
       /\ arg[t] \in (IF Head(writes[t]) = <<"head">> THEN Slots ELSE 0..LOG_MAX_ENTRIES)
  /\ \/ writes[t] = Wipe /\ Call(t) = "clear"
     \/ \A i \in DOMAIN writes[t] : writes[t][i] # <<"clear">>
  /\ Call(t) = "clear" => writes[t] \in {<<>>, Wipe}

\* The entries the tasks have still to number.
Unmade(t) ==
  IF Call(t) \in {"log", "boot"} /\ pc[t] \notin {"call", "stamped", "overtaken"}
  THEN 0 ELSE Pending(todo[t])

Typed ==
  /\ todo \in [Tasks -> Seq(Calls)] /\ writes \in [Tasks -> Seq(Keys)]
  /\ pc \in [Tasks -> Places] /\ arg \in [Tasks -> Nat] /\ entry \in [Tasks -> Slots]

TaskInv ==
  /\ \A t \in Tasks : Task(t)
  /\ nextId \in 1..MaxEvents + 1
  /\ nextId + Unmade("loop") + Unmade("ble") <= MaxEvents + 1
  /\ todo["ble"] # <<>> =>
       /\ pc["loop"] # "stamped"
       /\ ~raced => ~InWindow

LogInv ==
  /\ head \in Slots /\ count \in 0..LOG_MAX_ENTRIES /\ ring \in [Slots -> Entry]
  /\ nvs \in [head : Slots, count : 0..LOG_MAX_ENTRIES, log : [Slots -> Entry]]
  /\ sync \in [timeSynced : BOOLEAN, unix : Nat, uptime : Nat]
  /\ now \in 0..MaxTime /\ bootAt \in 0..now /\ boot \in 1..MaxBoots
  /\ raced \in BOOLEAN /\ torn \in BOOLEAN

\* The keys a task will write before its call returns; all of them while it
\* has to clear the namespace.
Before == (head + LOG_MAX_ENTRIES - 1) % LOG_MAX_ENTRIES
Owes(t, k) ==
  \/ \E i \in DOMAIN writes[t] : writes[t][i] = k
  \/ writes[t] = Wipe
  \/ pc[t] = "counted" /\ (Header(k) \/ k = <<"log", Before>>)
  \/ pc[t] = "filled" /\ k = <<"log", head>>
  \/ pc[t] = "stamped" /\ k = <<"log", entry[t]>>

\* What a task relies on is still right: the value it has read, the slot it
\* has begun, and the log it has emptied.
Current(t) ==
  /\ pc[t] = "held" => arg[t] = IF Head(writes[t]) = <<"head">> THEN head ELSE count
  /\ pc[t] = "stamped" => entry[t] = head
  /\ pc[t] # "overtaken"
  /\ writes[t] = Wipe =>
       head = 0 /\ count = 0 /\ ring = [s \in Slots |-> Blank] /\ told = <<>>

\* Some task is to write the key; a task that logs or clears is.  (A sync saves
\* every key, but changes no id.)
Owed(k) == \E t \in Tasks : Owes(t, k)
OwedAnew(k) == \E t \in Tasks : Call(t) # "sync" /\ Owes(t, k)

SavedInv ==
  ~raced =>
    /\ \A t \in Tasks : Current(t)
    /\ nvs.head = head \/ OwedAnew(<<"head">>)
    /\ nvs.count = count \/ OwedAnew(<<"count">>)
    /\ \A s \in Slots : nvs.log[s] = ring[s] \/ Owed(<<"log", s>>)
    /\ \A s \in Slots : nvs.log[s].id = ring[s].id \/ OwedAnew(<<"log", s>>)

\* The ids of entries n of a ring r that ends before slot h, oldest first.
Place(h, n, i) == (h + LOG_MAX_ENTRIES - n + i) % LOG_MAX_ENTRIES

OrderInv ==
  /\ told \in Seq(0..MaxEvents) /\ Len(told) <= LOG_MAX_ENTRIES
  /\ ~raced /\ ~torn =>
       /\ Len(told) = count
       /\ \A i \in 1..count :
            \/ ring[Place(head, count, i - 1)].id = told[i]
            \/ Place(head, count, i - 1) = head /\ \E t \in Tasks : pc[t] = "filled"

KeptInv ==
  /\ kept \in Seq(0..MaxEvents) /\ Len(kept) <= LOG_MAX_ENTRIES
  /\ ~torn /\ ~Saving =>
       /\ Len(kept) = nvs.count
       /\ \A i \in 1..nvs.count : nvs.log[Place(nvs.head, nvs.count, i - 1)].id = kept[i]

\* What is known of an entry's time, in RAM and in NVS.
Dated(e) ==
  /\ e.boot <= boot
  /\ e.boot # 0 /\ e.timeMode = 1 /\ e.by = e.boot => e.ts = Epoch + e.at
ThisBoot(e) ==
  /\ e.boot = boot /\ e.timeMode = 0 => e.ts = e.at - bootAt
  /\ e.boot = boot /\ e.timeMode = 1 => e.by = boot

DatedInv ==
  /\ sync.timeSynced => sync.unix = Epoch + bootAt + sync.uptime
  /\ \A s \in Slots : Dated(ring[s]) /\ ThisBoot(ring[s]) /\ Dated(nvs.log[s])
  /\ \A t \in Tasks : pc[t] = "stamped" =>
       LET e == ring[entry[t]] IN
       e.ts = IF arg[t] = 1 THEN Epoch + e.at ELSE e.at - bootAt

IInv == Typed /\ TaskInv /\ LogInv /\ SavedInv /\ OrderInv /\ KeptInv /\ DatedInv
----------------------------------------------------------------------------
\* Facts about the constants, slots and keys.

LEMMA Constants ==
  /\ LOG_MAX_ENTRIES \in Nat \ {0} /\ Epoch \in Nat \ {0} /\ MaxTime \in Nat
  /\ MaxEvents \in Nat \ {0} /\ MaxBoots \in Nat \ {0}
BY LogConstants

LEMMA Wrap ==
  ASSUME NEW a \in 0..2 * LOG_MAX_ENTRIES - 1
  PROVE  a % LOG_MAX_ENTRIES = IF a < LOG_MAX_ENTRIES THEN a ELSE a - LOG_MAX_ENTRIES
BY Constants

\* Where a ring's entries are.
LEMMA PlaceOf ==
  ASSUME NEW h \in Slots, NEW n \in 0..LOG_MAX_ENTRIES, NEW i \in 0..n - 1
  PROVE  /\ Place(h, n, i) \in Slots
         /\ Place(h, n, i) = IF h - n + i < 0 THEN h - n + i + LOG_MAX_ENTRIES ELSE h - n + i
<1>1. h + LOG_MAX_ENTRIES - n + i \in 0..2 * LOG_MAX_ENTRIES - 1
  BY Constants DEF Slots
<1> QED BY <1>1, Wrap, Constants DEF Place, Slots

LEMMA KeysDiffer ==
  /\ <<"head">> # <<"count">> /\ <<"head">> # <<"clear">> /\ <<"count">> # <<"clear">>
  /\ \A s, r \in Slots :
       /\ <<"log", s>> \notin {<<"head">>, <<"count">>, <<"clear">>}
       /\ <<"log", s>> = <<"log", r>> => s = r
OBVIOUS

LEMMA SaveEntryKeys ==
  ASSUME head \in Slots
  PROVE  /\ Before \in Slots /\ SaveEntry \in Seq(Keys) /\ SaveEntry # <<>>
         /\ \A i \in DOMAIN SaveEntry : SaveEntry[i] # <<"clear">>
         /\ \A k : Header(k) \/ k = <<"log", Before>>
                     => \E i \in DOMAIN SaveEntry : SaveEntry[i] = k
<1>1. Before \in Slots
  BY Constants DEF Before, Slots
<1>2. SaveEntry = <<<<"head">>, <<"count">>, <<"log", Before>>>>
  BY DEF SaveEntry, Before
<1>3. SaveEntry \in Seq(Keys) /\ DOMAIN SaveEntry = 1..3
  BY <1>1, <1>2 DEF Keys
<1>4. SaveEntry[1] = <<"head">> /\ SaveEntry[2] = <<"count">> /\ SaveEntry[3] = <<"log", Before>>
  BY <1>2
<1>5. \A i \in DOMAIN SaveEntry : SaveEntry[i] # <<"clear">>
  <2>1. <<"log", Before>> # <<"clear">>
    BY <1>1, KeysDiffer
  <2> QED BY <2>1, <1>3, <1>4, KeysDiffer
<1> QED BY <1>1, <1>2, <1>3, <1>4, <1>5 DEF Header

LEMMA SaveAllKeys ==
  /\ SaveAllEntries \in Seq(Keys) /\ SaveAllEntries # <<>>
  /\ \A i \in DOMAIN SaveAllEntries : SaveAllEntries[i] # <<"clear">>
  /\ \A s \in Slots : \E i \in DOMAIN SaveAllEntries : SaveAllEntries[i] = <<"log", s>>
<1> DEFINE a == <<<<"head">>, <<"count">>>>
           b == [i \in 1..LOG_MAX_ENTRIES |-> <<"log", i - 1>>]
<1>1. a \in Seq(Keys) /\ Len(a) = 2 /\ a[1] = <<"head">> /\ a[2] = <<"count">>
  BY DEF Keys
<1>2. b \in Seq(Keys) /\ Len(b) = LOG_MAX_ENTRIES
  <2>1. ASSUME NEW i \in 1..LOG_MAX_ENTRIES PROVE <<"log", i - 1>> \in Keys
    BY Constants DEF Keys, Slots
  <2> QED BY <2>1, Constants
<1>3. \A i \in 1..LOG_MAX_ENTRIES : b[i] = <<"log", i - 1>>
  OBVIOUS
<1>4. SaveAllEntries = a \o b
  BY DEF SaveAllEntries
<1> HIDE DEF a, b
<1>5. /\ SaveAllEntries \in Seq(Keys) /\ Len(SaveAllEntries) = LOG_MAX_ENTRIES + 2
      /\ \A i \in 1..2 : SaveAllEntries[i] = a[i]
      /\ \A i \in 3..LOG_MAX_ENTRIES + 2 : SaveAllEntries[i] = b[i - 2]
  <2>1. /\ a \o b \in Seq(Keys) /\ Len(a \o b) = Len(a) + Len(b)
        /\ \A i \in 1..Len(a) + Len(b) :
              (a \o b)[i] = IF i <= Len(a) THEN a[i] ELSE b[i - Len(a)]
    BY <1>1, <1>2, ConcatProperties
  <2> QED BY <1>1, <1>2, <1>4, <2>1, Constants
<1>6. DOMAIN SaveAllEntries = 1..LOG_MAX_ENTRIES + 2
  BY <1>5
<1>7. ASSUME NEW s \in Slots PROVE s + 3 \in DOMAIN SaveAllEntries /\ SaveAllEntries[s + 3] = <<"log", s>>
  <2>1. s + 3 \in 3..LOG_MAX_ENTRIES + 2 /\ s + 1 \in 1..LOG_MAX_ENTRIES /\ (s + 3) - 2 = s + 1 /\ (s + 1) - 1 = s
    BY Constants DEF Slots
  <2> QED BY <2>1, <1>3, <1>5, <1>6
<1>8. ASSUME NEW i \in DOMAIN SaveAllEntries PROVE SaveAllEntries[i] # <<"clear">>
  <2>1. CASE i \in 1..2
    <3>1. i = 1 \/ i = 2
      BY <2>1
    <3> QED BY <3>1, <2>1, <1>1, <1>5, KeysDiffer
  <2>2. CASE i \in 3..LOG_MAX_ENTRIES + 2
    <3>1. (i - 2) - 1 \in Slots /\ i - 2 \in 1..LOG_MAX_ENTRIES
      BY <2>2, Constants DEF Slots
    <3>2. SaveAllEntries[i] = <<"log", (i - 2) - 1>>
      BY <2>2, <3>1, <1>3, <1>5
    <3> QED BY <3>1, <3>2, KeysDiffer
  <2> QED BY <2>1, <2>2, <1>6, Constants
<1>9. SaveAllEntries # <<>>
  BY <1>5, Constants
<1> QED BY <1>5, <1>7, <1>8, <1>9

\* What a program has still to log, with its first call made.
LEMMA PendingTail ==
  ASSUME NEW p \in Seq(Calls), p # <<>>, LogsOnce(p)
  PROVE  /\ LogsOnce(Tail(p)) /\ Tail(p) \in Seq(Calls)
         /\ Pending(Tail(p)) \in {0, 1} /\ Pending(p) \in {0, 1}
         /\ Pending(Tail(p)) <= Pending(p)
         /\ p[1] \in {"log", "boot"} => Pending(Tail(p)) = 0 /\ Pending(p) = 1
<1>1. \A i \in DOMAIN Tail(p) : i + 1 \in DOMAIN p /\ Tail(p)[i] = p[i + 1] /\ i \in Nat /\ i > 0
  OBVIOUS
<1>2. LogsOnce(Tail(p))
  BY <1>1 DEF LogsOnce
<1>3. Tail(p) \in Seq(Calls) /\ 1 \in DOMAIN p
  OBVIOUS
<1>4. p[1] \in {"log", "boot"} => ~\E i \in DOMAIN Tail(p) : Tail(p)[i] \in {"log", "boot"}
  BY <1>1, <1>3 DEF LogsOnce
<1>5. (\E i \in DOMAIN Tail(p) : Tail(p)[i] \in {"log", "boot"})
         => \E i \in DOMAIN p : p[i] \in {"log", "boot"}
  BY <1>1
<1> QED BY <1>2, <1>3, <1>4, <1>5 DEF Pending

\* Every handler's calls.
LEMMA Programs ==
  \A p \in LoopPrograms \cup BlePrograms \cup {LogBootReason} :
    p \in Seq(Calls) /\ LogsOnce(p) /\ p # <<>>
<1> DEFINE All == {<<"sync">>, <<"log">>, <<"clear", "log">>, <<"log", "reboot">>,
                   <<"sync", "clear">>, <<"sync", "clear", "log">>, <<"sync", "log">>,
                   <<"boot">>}
<1>1. LoopPrograms \cup BlePrograms \cup {LogBootReason} \subseteq All
  BY DEF LoopPrograms, BlePrograms, LogBootReason, GetLogs, LogsClear, RebootRequest,
         Pairing, Command, FactoryReset, BleCommand, BleLogClear, BleReboot, BleTimeSync
<1>2. ASSUME NEW p \in All PROVE p \in Seq(Calls) /\ p # <<>>
  <2>1. <<"sync">> \in Seq(Calls) /\ <<"log">> \in Seq(Calls) /\ <<"boot">> \in Seq(Calls)
    BY DEF Calls
  <2>2. <<"clear", "log">> \in Seq(Calls) /\ <<"log", "reboot">> \in Seq(Calls)
    BY DEF Calls
  <2>3. <<"sync", "clear">> \in Seq(Calls) /\ <<"sync", "log">> \in Seq(Calls)
    BY DEF Calls
  <2>4. <<"sync", "clear", "log">> \in Seq(Calls)
    BY DEF Calls
  <2>5. p # <<>>
    OBVIOUS
  <2> QED BY <2>1, <2>2, <2>3, <2>4, <2>5, Zenon
<1>3. ASSUME NEW p \in All PROVE LogsOnce(p)
  BY DEF LogsOnce
<1> QED BY <1>1, <1>2, <1>3

----------------------------------------------------------------------------
\* The tasks.

\* The other task's variables.
Other(t) ==
  \A u \in Tasks \ {t} :
    /\ todo'[u] = todo[u] /\ pc'[u] = pc[u] /\ writes'[u] = writes[u]
    /\ arg'[u] = arg[u] /\ entry'[u] = entry[u]

\* A task whose call is in course has the processor to itself.
Moves(t) ==
  /\ todo[t] # <<>> /\ (t = "loop" => todo["ble"] = <<>>)
  /\ Other(t) /\ UNCHANGED raced

LEMMA CallTyped ==
  ASSUME Typed, NEW t \in Tasks
  PROVE  /\ todo[t] # <<>> => Call(t) = todo[t][1] /\ Call(t) \in Calls
         /\ Call(t) \in Calls => todo[t] # <<>>
<1>1. todo[t] \in Seq(Calls)
  BY DEF Typed
<1> QED BY <1>1 DEF Call, Calls

LEMMA OtherTask ==
  ASSUME NEW t \in Tasks, Other(t), NEW u \in Tasks \ {t}, Task(u)
  PROVE  Task(u)' /\ Unmade(u)' = Unmade(u)
BY DEF Other, Task, Call, Unmade, Pending, Header, LogsOnce

LEMMA PendingTyped ==
  ASSUME NEW p PROVE Pending(p) \in {0, 1}
BY DEF Pending

LEMMA UnmadeTyped ==
  ASSUME NEW t \in Tasks PROVE Unmade(t) \in {0, 1}
BY PendingTyped DEF Unmade

LEMMA Moved ==
  ASSUME Typed, TaskInv, NEW t \in Tasks, Moves(t), Task(t)',
         nextId' \in Nat \ {0}, nextId' + Unmade(t)' <= nextId + Unmade(t)
  PROVE  TaskInv'
<1>1. \A u \in Tasks : Task(u)'
  BY OtherTask DEF Moves, TaskInv
<1>2. \A u \in Tasks : Unmade(u) \in {0, 1} /\ Unmade(u)' \in {0, 1}
  BY UnmadeTyped DEF Unmade, Pending, Call
<1>3. nextId' + Unmade("loop")' + Unmade("ble")' <= MaxEvents + 1
  <2>1. CASE t = "loop"
    BY <1>2, <2>1, OtherTask, Constants DEF Moves, TaskInv, Tasks
  <2>2. CASE t = "ble"
    BY <1>2, <2>2, OtherTask, Constants DEF Moves, TaskInv, Tasks
  <2> QED BY <2>1, <2>2 DEF Tasks
<1>4. nextId' \in 1..MaxEvents + 1
  BY <1>2, <1>3, Constants DEF Tasks
<1>5. todo'["ble"] # <<>> => pc'["loop"] # "stamped" /\ (~raced' => ~InWindow')
  <2>1. CASE t = "loop"
    BY <2>1 DEF Moves, Other, Tasks
  <2>2. CASE t = "ble"
    BY <2>2 DEF Moves, Other, Tasks, TaskInv, InWindow
  <2> QED BY <2>1, <2>2 DEF Tasks
<1> QED BY <1>1, <1>3, <1>4, <1>5 DEF TaskInv

LEMMA Running ==
  ASSUME Typed, NEW t \in Tasks, NEW calls \in SUBSET Calls, NEW at, Runs(t, calls, at)
  PROVE  /\ todo[t] # <<>> /\ todo[t][1] \in calls /\ Call(t) \in calls /\ pc[t] = at
         /\ t = "loop" => todo["ble"] = <<>>
BY CallTyped DEF Runs

\* An action that leaves the other task alone and this one's program.
LEMMA StampTask ==
  ASSUME Typed, TaskInv, head \in Slots, NEW t \in Tasks, StampEntry(t)
  PROVE  Typed' /\ TaskInv' /\ Moves(t)
<1>1. todo[t] # <<>> /\ Call(t) \in {"log", "boot"} /\ pc[t] = "call"
      /\ (t = "loop" => todo["ble"] = <<>>)
  BY Running DEF StampEntry, Calls
<1>2. Stamp.timeMode \in {0, 1}
  BY DEF Stamp
<1>3. /\ arg' = [arg EXCEPT ![t] = Stamp.timeMode] /\ entry' = [entry EXCEPT ![t] = head]
      /\ pc' = [pc EXCEPT ![t] = "stamped"] /\ UNCHANGED <<todo, writes, nextId, raced>>
  BY DEF StampEntry, ghostVars
<1>4. Typed'
  BY <1>2, <1>3 DEF Typed, Places
<1>5. Moves(t)
  BY <1>1, <1>3 DEF Moves, Other, Typed
<1>6. pc'[t] = "stamped" /\ arg'[t] \in {0, 1} /\ todo'[t] = todo[t] /\ writes'[t] = writes[t]
  BY <1>2, <1>3 DEF Typed
<1>7. Task(t)'
  BY <1>1, <1>6 DEF TaskInv, Task, Call, LogsOnce
<1>8. Unmade(t)' = Unmade(t) /\ nextId' = nextId /\ nextId \in Nat \ {0}
  BY <1>1, <1>3, <1>6 DEF Unmade, Pending, Call, TaskInv
<1> QED BY <1>4, <1>5, <1>7, <1>8, Moved, UnmadeTyped, Constants

LEMMA FillTask ==
  ASSUME Typed, TaskInv, NEW t \in Tasks, Fill(t)
  PROVE  /\ Typed' /\ TaskInv' /\ Moves(t)
         /\ nextId \in 1..MaxEvents /\ nextId' = nextId + 1
<1>1. todo[t] # <<>> /\ todo[t][1] \in {"log", "boot"} /\ Call(t) \in {"log", "boot"}
      /\ pc[t] \in {"stamped", "overtaken"} /\ (t = "loop" => todo["ble"] = <<>>)
  BY Running DEF Fill, Calls
<1>2. /\ arg' = [arg EXCEPT ![t] = 0] /\ entry' = [entry EXCEPT ![t] = 0]
      /\ pc' = [pc EXCEPT ![t] = "filled"] /\ UNCHANGED <<todo, writes, raced>>
      /\ nextId' = nextId + 1
  BY DEF Fill, ghostVars
<1>3. Typed'
  BY <1>2, Constants DEF Typed, Places, Slots
<1>4. Moves(t)
  BY <1>1, <1>2 DEF Moves, Other, Typed
<1>5. pc'[t] = "filled" /\ todo'[t] = todo[t] /\ writes'[t] = writes[t]
  BY <1>2 DEF Typed
<1>6. Task(t)'
  BY <1>1, <1>5 DEF TaskInv, Task, Call, LogsOnce
<1>7. Unmade(t) = 1 /\ Unmade(t)' = 0
  <2>1. Pending(todo[t]) = 1
    BY <1>1, PendingTail DEF Typed, TaskInv, Task
  <2>2. Call(t)' = Call(t)
    BY <1>5 DEF Call
  <2> QED BY <1>1, <1>5, <2>1, <2>2 DEF Unmade
<1>8. nextId \in 1..MaxEvents
  BY <1>7, UnmadeTyped, Constants DEF TaskInv, Tasks
<1> QED BY <1>2, <1>3, <1>4, <1>6, <1>7, <1>8, Moved, Constants

LEMMA AdvanceTask ==
  ASSUME Typed, TaskInv, NEW t \in Tasks, Advance(t)
  PROVE  Typed' /\ TaskInv' /\ Moves(t)
<1>1. todo[t] # <<>> /\ Call(t) \in {"log", "boot"} /\ pc[t] = "filled"
      /\ (t = "loop" => todo["ble"] = <<>>)
  BY Running DEF Advance, Calls
<1>2. /\ pc' = [pc EXCEPT ![t] = "counted"]
      /\ UNCHANGED <<todo, writes, arg, entry, nextId, raced>>
  BY DEF Advance
<1>3. Typed'
  BY <1>2 DEF Typed, Places
<1>4. Moves(t)
  BY <1>1, <1>2 DEF Moves, Other, Typed
<1>5. pc'[t] = "counted" /\ todo'[t] = todo[t] /\ writes'[t] = writes[t]
  BY <1>2 DEF Typed
<1>6. Task(t)'
  BY <1>1, <1>5 DEF TaskInv, Task, Call, LogsOnce
<1>7. Unmade(t) = 0 /\ Unmade(t)' = 0
  BY <1>1, <1>5 DEF Unmade, Call
<1> QED BY <1>2, <1>3, <1>4, <1>6, <1>7, Moved, Constants DEF TaskInv

LEMMA CallSaveTask ==
  ASSUME Typed, TaskInv, head \in Slots, NEW t \in Tasks, CallSave(t)
  PROVE  Typed' /\ TaskInv' /\ Moves(t)
<1>1. todo[t] # <<>> /\ Call(t) \in {"log", "boot"} /\ pc[t] = "counted"
      /\ (t = "loop" => todo["ble"] = <<>>)
  BY Running DEF CallSave, Calls
<1>2. /\ pc' = [pc EXCEPT ![t] = "write"] /\ writes' = [writes EXCEPT ![t] = SaveEntry]
      /\ UNCHANGED <<todo, arg, entry, nextId, raced>>
  BY DEF CallSave, ghostVars
<1>3. Typed'
  BY <1>2, SaveEntryKeys DEF Typed, Places
<1>4. Moves(t)
  BY <1>1, <1>2 DEF Moves, Other, Typed
<1>5. pc'[t] = "write" /\ todo'[t] = todo[t] /\ writes'[t] = SaveEntry
  BY <1>2 DEF Typed
<1>6. Task(t)'
  BY <1>1, <1>5, SaveEntryKeys DEF TaskInv, Task, Call, LogsOnce
<1>7. Unmade(t) = 0 /\ Unmade(t)' = 0
  BY <1>1, <1>5 DEF Unmade, Call
<1> QED BY <1>2, <1>3, <1>4, <1>6, <1>7, Moved, Constants DEF TaskInv

LEMMA ClearTask ==
  ASSUME Typed, TaskInv, NEW t \in Tasks, Clear(t)
  PROVE  Typed' /\ TaskInv' /\ Moves(t)
<1>1. todo[t] # <<>> /\ Call(t) = "clear" /\ pc[t] = "call"
      /\ (t = "loop" => todo["ble"] = <<>>)
  <2>1. Runs(t, {"clear"}, "call")
    BY Zenon DEF Clear
  <2>2. {"clear"} \in SUBSET Calls
    BY DEF Calls
  <2>3. Call(t) \in {"clear"} /\ todo[t] # <<>> /\ pc[t] = "call"
        /\ (t = "loop" => todo["ble"] = <<>>)
    BY <2>1, <2>2, Running, Zenon
  <2> QED BY <2>3
<1>2. /\ pc' = [pc EXCEPT ![t] = "write"] /\ writes' = [writes EXCEPT ![t] = Wipe]
      /\ UNCHANGED <<todo, arg, entry, nextId, raced>>
  BY DEF Clear, Wipe
<1>3. Wipe \in Seq(Keys) /\ Wipe # <<>>
  BY DEF Wipe, Keys
<1>4. Typed'
  BY <1>2, <1>3 DEF Typed, Places
<1>5. Moves(t)
  BY <1>1, <1>2 DEF Moves, Other, Typed
<1>6. pc'[t] = "write" /\ todo'[t] = todo[t] /\ writes'[t] = Wipe
  BY <1>2 DEF Typed
<1>7. Task(t)'
  BY <1>1, <1>3, <1>6 DEF TaskInv, Task, Call, LogsOnce
<1>8. Unmade(t)' = Unmade(t)
  BY <1>1, <1>6 DEF Unmade, Call, Pending
<1> QED BY <1>2, <1>4, <1>5, <1>7, <1>8, UnmadeTyped, Moved, Constants DEF TaskInv

LEMMA ReadArgTask ==
  ASSUME Typed, TaskInv, head \in Slots, count \in 0..LOG_MAX_ENTRIES,
         NEW t \in Tasks, ReadArg(t)
  PROVE  /\ Typed' /\ TaskInv' /\ Moves(t)
         /\ writes[t] # <<>> /\ Header(Head(writes[t]))
<1>1. todo[t] # <<>> /\ Call(t) \in {"log", "boot", "sync"} /\ pc[t] = "write"
      /\ (t = "loop" => todo["ble"] = <<>>)
  BY Running DEF ReadArg, Calls
<1>2. /\ pc' = [pc EXCEPT ![t] = "held"]
      /\ arg' = [arg EXCEPT ![t] = IF Head(writes[t]) = <<"head">> THEN head ELSE count]
      /\ UNCHANGED <<todo, writes, entry, nextId, raced>>
      /\ Header(Head(writes[t]))
  BY DEF ReadArg, ghostVars, Header
<1>3. Typed'
  BY <1>2 DEF Typed, Places, Slots
<1>4. Moves(t)
  BY <1>1, <1>2 DEF Moves, Other, Typed
<1>5. /\ pc'[t] = "held" /\ todo'[t] = todo[t] /\ writes'[t] = writes[t]
      /\ arg'[t] = IF Head(writes[t]) = <<"head">> THEN head ELSE count
  BY <1>2 DEF Typed
<1>6. Task(t)'
  <2>1. Call(t)' = Call(t) /\ LogsOnce(todo[t])' /\ Header(Head(writes[t]))'
    BY <1>2, <1>5 DEF TaskInv, Task, Call, LogsOnce, Header
  <2>2. /\ writes[t] # <<>>
        /\ \A i \in DOMAIN writes[t] : writes[t][i] # <<"clear">>
    BY <1>1 DEF TaskInv, Task
  <2>3. arg'[t] \in (IF Head(writes[t]) = <<"head">> THEN Slots ELSE 0..LOG_MAX_ENTRIES)
    BY <1>5
  <2> QED BY <1>1, <1>5, <2>1, <2>2, <2>3, Zenon DEF Task
<1>7. Unmade(t)' = Unmade(t)
  BY <1>1, <1>5 DEF Unmade, Call, Pending
<1>8. writes[t] # <<>>
  BY <1>1 DEF TaskInv, Task
<1> QED BY <1>2, <1>3, <1>4, <1>6, <1>7, <1>8, UnmadeTyped, Moved, Constants DEF TaskInv

\* A call returns.
LEMMA Returned ==
  ASSUME Typed, NEW t \in Tasks, Return(t), todo[t] # <<>>, LogsOnce(todo[t])
  PROVE  /\ todo' \in [Tasks -> Seq(Calls)] /\ pc' \in [Tasks -> Places]
         /\ todo'[t] = Tail(todo[t]) /\ LogsOnce(todo'[t]) /\ pc'[t] = "call"
         /\ \A u \in Tasks \ {t} : todo'[u] = todo[u] /\ pc'[u] = pc[u]
         /\ Unmade(t)' <= Pending(todo[t])
         /\ Call(t) \in {"log", "boot"} => Unmade(t)' = 0
<1>1. todo' = [todo EXCEPT ![t] = Tail(@)] /\ pc' = [pc EXCEPT ![t] = "call"]
  BY DEF Return
<1>2. todo[t] \in Seq(Calls)
  BY DEF Typed
<1>3. Tail(todo[t]) \in Seq(Calls) /\ LogsOnce(Tail(todo[t]))
  BY <1>2, PendingTail
<1>4. todo'[t] = Tail(todo[t]) /\ pc'[t] = "call"
  BY <1>1 DEF Typed
<1>5. Unmade(t)' = Pending(Tail(todo[t]))
  BY <1>4 DEF Unmade, Pending, Call
<1> QED BY <1>1, <1>2, <1>3, <1>4, <1>5, PendingTail, CallTyped DEF Typed, Places

LEMMA SyncTask ==
  ASSUME Typed, TaskInv, NEW t \in Tasks, SetSystemTime(t)
  PROVE  Typed' /\ TaskInv' /\ Moves(t)
<1>1. todo[t] # <<>> /\ Call(t) = "sync" /\ pc[t] = "call"
      /\ (t = "loop" => todo["ble"] = <<>>)
  <2>1. Runs(t, {"sync"}, "call")
    BY Zenon DEF SetSystemTime
  <2>2. {"sync"} \in SUBSET Calls
    BY DEF Calls
  <2>3. Call(t) \in {"sync"} /\ todo[t] # <<>> /\ pc[t] = "call"
        /\ (t = "loop" => todo["ble"] = <<>>)
    BY <2>1, <2>2, Running, Zenon
  <2> QED BY <2>3
<1>2. LogsOnce(todo[t]) /\ writes[t] = <<>>
  BY <1>1 DEF TaskInv, Task
<1>3. UNCHANGED <<arg, entry, nextId, raced>>
  BY DEF SetSystemTime, ghostVars
<1>4. Unmade(t) = Pending(todo[t])
  BY <1>1 DEF Unmade
<1>5. CASE Return(t) /\ UNCHANGED writes
  <2>1. Typed'
    BY <1>1, <1>2, <1>3, <1>5, Returned DEF Typed
  <2>2. Moves(t)
    BY <1>1, <1>2, <1>3, <1>5, Returned DEF Moves, Other
  <2>3. Task(t)'
    BY <1>1, <1>2, <1>5, Returned DEF Task
  <2>4. Unmade(t)' <= Unmade(t) /\ Unmade(t)' \in {0, 1} /\ Unmade(t) \in {0, 1}
    BY <1>1, <1>2, <1>4, <1>5, Returned, PendingTyped DEF Unmade
  <2> QED BY <1>3, <2>1, <2>2, <2>3, <2>4, Moved, Constants DEF TaskInv
<1>6. CASE /\ writes' = [writes EXCEPT ![t] = SaveAllEntries]
           /\ pc' = [pc EXCEPT ![t] = "write"] /\ UNCHANGED todo
  <2>1. Typed'
    BY <1>3, <1>6, SaveAllKeys DEF Typed, Places
  <2>2. Moves(t)
    BY <1>1, <1>3, <1>6 DEF Moves, Other, Typed
  <2>3. pc'[t] = "write" /\ todo'[t] = todo[t] /\ writes'[t] = SaveAllEntries
    BY <1>6 DEF Typed
  <2>4. Task(t)'
    BY <1>1, <2>3, SaveAllKeys DEF TaskInv, Task, Call, LogsOnce
  <2>5. Unmade(t)' = Unmade(t)
    BY <1>1, <1>4, <2>3 DEF Unmade, Call, Pending
  <2> QED BY <1>3, <2>1, <2>2, <2>4, <2>5, UnmadeTyped, Moved, Constants DEF TaskInv
<1> QED BY <1>5, <1>6 DEF SetSystemTime

\* What is left of the keys after the first.
LEMMA KeysLeft ==
  ASSUME NEW w \in Seq(Keys), w # <<>>
  PROVE  /\ Tail(w) \in Seq(Keys) /\ Head(w) = w[1] /\ w[1] \in Keys /\ 1 \in DOMAIN w
         /\ Len(w) > 1 <=> Tail(w) # <<>>
         /\ \A i \in DOMAIN Tail(w) : i + 1 \in DOMAIN w /\ Tail(w)[i] = w[i + 1]
         /\ \A i \in DOMAIN w : i = 1 \/ (i - 1 \in DOMAIN Tail(w) /\ Tail(w)[i - 1] = w[i])
OBVIOUS

LEMMA WriteTask ==
  ASSUME Typed, TaskInv, NEW t \in Tasks, Write(t)
  PROVE  /\ Typed' /\ TaskInv' /\ Moves(t)
         /\ writes[t] \in Seq(Keys) /\ writes[t] # <<>>
         /\ pc[t] \in {"write", "held"} /\ Call(t) \in {"log", "boot", "sync", "clear"}
         /\ pc[t] = "write" => ~Header(Head(writes[t]))
         /\ writes'[t] = Tail(writes[t])
         /\ pc'[t] \in {"write", "call"}
         /\ Tail(writes[t]) # <<>> => pc'[t] = "write" /\ Call(t)' = Call(t) /\ UNCHANGED todo
<1>1. /\ todo[t] # <<>> /\ Call(t) \in {"log", "boot", "sync", "clear"}
      /\ pc[t] \in {"write", "held"} /\ (t = "loop" => todo["ble"] = <<>>)
      /\ pc[t] = "write" => ~Header(Head(writes[t]))
  <2>1. \/ Runs(t, {"log", "boot", "sync"}, "held")
        \/ /\ Runs(t, {"log", "boot", "sync", "clear"}, "write")
           /\ ~Header(Head(writes[t]))
    BY Zenon DEF Write, Header
  <2>2. {"log", "boot", "sync"} \in SUBSET Calls /\ {"log", "boot", "sync", "clear"} \in SUBSET Calls
    BY DEF Calls
  <2>3. CASE Runs(t, {"log", "boot", "sync"}, "held")
    <3>1. Call(t) \in {"log", "boot", "sync"} /\ todo[t] # <<>> /\ pc[t] = "held"
          /\ (t = "loop" => todo["ble"] = <<>>)
      BY <2>2, <2>3, Running, Zenon
    <3> QED BY <3>1
  <2>4. CASE /\ Runs(t, {"log", "boot", "sync", "clear"}, "write")
             /\ ~Header(Head(writes[t]))
    BY <2>2, <2>4, Running
  <2> QED BY <2>1, <2>3, <2>4
<1>2. /\ writes' = [writes EXCEPT ![t] = Tail(@)] /\ arg' = [arg EXCEPT ![t] = 0]
      /\ UNCHANGED <<entry, nextId, raced>>
      /\ IF Len(writes[t]) > 1 THEN pc' = [pc EXCEPT ![t] = "write"] /\ UNCHANGED todo
                               ELSE Return(t)
  BY Zenon DEF Write
<1>3. /\ writes[t] \in Seq(Keys) /\ writes[t] # <<>> /\ LogsOnce(todo[t])
      /\ \/ writes[t] = Wipe
         \/ \A i \in DOMAIN writes[t] : writes[t][i] # <<"clear">>
  BY <1>1 DEF Typed, TaskInv, Task
<1>4. Tail(writes[t]) \in Seq(Keys) /\ writes'[t] = Tail(writes[t])
  BY <1>2, <1>3, KeysLeft DEF Typed
<1>5. writes' \in [Tasks -> Seq(Keys)] /\ arg' \in [Tasks -> Nat] /\ entry' \in [Tasks -> Slots]
  BY <1>2, <1>4 DEF Typed
<1>6. \A u \in Tasks \ {t} : writes'[u] = writes[u] /\ arg'[u] = arg[u] /\ entry'[u] = entry[u]
  BY <1>2 DEF Typed
<1>7. Unmade(t) = IF Call(t) \in {"log", "boot"} THEN 0 ELSE Pending(todo[t])
  BY <1>1 DEF Unmade
<1>8. CASE Tail(writes[t]) # <<>>
  <2>1. pc' = [pc EXCEPT ![t] = "write"] /\ UNCHANGED todo
    BY <1>2, <1>3, <1>8, KeysLeft
  <2>2. pc'[t] = "write" /\ todo'[t] = todo[t] /\ Call(t)' = Call(t) /\ pc' \in [Tasks -> Places]
        /\ \A u \in Tasks \ {t} : pc'[u] = pc[u]
    BY <2>1 DEF Typed, Call, Places
  <2>3. Typed'
    BY <1>5, <2>1, <2>2 DEF Typed
  <2>4. Moves(t)
    BY <1>1, <1>2, <1>6, <2>1, <2>2 DEF Moves, Other
  <2>5. (\A i \in DOMAIN writes'[t] : writes'[t][i] # <<"clear">>) /\ Call(t) # "clear"
    <3>1. writes[t] # Wipe
      <4>1. Tail(Wipe) = <<>>
        BY DEF Wipe
      <4> QED BY <1>8, <4>1
    <3>2. \A i \in DOMAIN writes[t] : writes[t][i] # <<"clear">>
      BY <1>3, <3>1
    <3>3. \A i \in DOMAIN Tail(writes[t]) :
             i + 1 \in DOMAIN writes[t] /\ Tail(writes[t])[i] = writes[t][i + 1]
      BY <1>3, KeysLeft
    <3>4. Call(t) # "clear"
      BY <1>3, <3>1 DEF TaskInv, Task
    <3> QED BY <1>4, <3>2, <3>3, <3>4
  <2>6. Task(t)'
    BY <1>1, <1>3, <1>4, <1>8, <2>2, <2>5 DEF Task, LogsOnce
  <2>7. Unmade(t)' = Unmade(t)
    BY <1>7, <2>1, <2>2 DEF Unmade, Pending
  <2> QED BY <1>1, <1>2, <1>3, <1>4, UnmadeTyped, <2>1, <2>2, <2>3, <2>4, <2>6, <2>7, Moved,
             Constants DEF TaskInv
<1>9. CASE Tail(writes[t]) = <<>>
  <2>1. Return(t)
    BY <1>2, <1>3, <1>9, KeysLeft
  <2>2. pc'[t] = "call" /\ LogsOnce(todo'[t])
    BY <1>1, <1>3, <2>1, Returned
  <2>3. Typed'
    BY <1>1, <1>3, <1>5, <2>1, Returned DEF Typed
  <2>4. Moves(t)
    BY <1>1, <1>2, <1>3, <1>6, <2>1, Returned DEF Moves, Other
  <2>5. Task(t)'
    BY <1>4, <1>9, <2>2 DEF Task
  <2>6. Unmade(t)' <= Unmade(t) /\ Unmade(t)' \in {0, 1} /\ Unmade(t) \in {0, 1}
    BY <1>1, <1>3, <1>7, <2>1, Returned, PendingTyped DEF Unmade
  <2> QED BY <1>1, <1>2, <1>3, <1>4, <1>9, <2>2, <2>3, <2>4, <2>5, <2>6, Moved,
             Constants DEF TaskInv
<1> QED BY <1>8, <1>9

LEMMA StartTask ==
  ASSUME Typed, TaskInv, raced \in BOOLEAN, NEW t \in Tasks,
         NEW p \in LoopPrograms \cup BlePrograms, Start(t, p)
  PROVE  /\ Typed' /\ TaskInv'
         /\ todo[t] = <<>> /\ todo["ble"] = <<>> /\ pc[t] = "call"
         /\ todo' = [todo EXCEPT ![t] = p]
         /\ pc' = pc \/ (t = "ble" /\ pc["loop"] = "stamped"
                           /\ pc' = [pc EXCEPT !["loop"] = "overtaken"])
         /\ ~raced' => ~raced /\ (t = "ble" => ~InWindow)
<1>1. p \in Seq(Calls) /\ LogsOnce(p) /\ p # <<>>
  BY Programs
<1>2. /\ todo[t] = <<>> /\ todo["ble"] = <<>> /\ todo' = [todo EXCEPT ![t] = p]
      /\ raced' = (raced \/ (t = "ble" /\ InWindow))
      /\ UNCHANGED <<writes, arg, entry, nextId>>
      /\ nextId + Pending(todo["loop"]) + Pending(p) <= MaxEvents + 1
      /\ pc' = IF pc["loop"] = "stamped" THEN [pc EXCEPT !["loop"] = "overtaken"] ELSE pc
  BY DEF Start
<1>3. pc[t] = "call" /\ pc["ble"] = "call" /\ \A u \in Tasks : Task(u)
  BY <1>2 DEF TaskInv, Task, Tasks
<1>4. Typed'
  BY <1>1, <1>2 DEF Typed, Places, Tasks
<1>5. \A u \in Tasks : /\ todo'[u] = (IF u = t THEN p ELSE todo[u])
                       /\ pc'[u] = IF pc[u] = "stamped" THEN "overtaken" ELSE pc[u]
                       /\ writes'[u] = writes[u] /\ arg'[u] = arg[u]
  <2>1. \A u \in Tasks : pc'[u] = IF pc[u] = "stamped" THEN "overtaken" ELSE pc[u]
    BY <1>2, <1>3 DEF Typed, Tasks
  <2> QED BY <1>2, <2>1 DEF Typed
<1>6. ASSUME NEW u \in Tasks PROVE Task(u)'
  <2>1. CASE u = t
    BY <1>1, <1>3, <1>5, <2>1 DEF Task
  <2>2. CASE u # t
    <3>1. Call(u)' = Call(u) /\ LogsOnce(todo[u])' /\ todo'[u] = todo[u]
      BY <1>3, <1>5, <2>2 DEF Task, Call, LogsOnce
    <3>2. Header(Head(writes[u]))' = Header(Head(writes[u]))
      BY <1>5 DEF Header
    <3> QED BY <1>3, <1>5, <3>1, <3>2 DEF Task
  <2> QED BY <2>1, <2>2
<1>7. Pending(<<>>) = 0
  BY DEF Pending
<1>8. nextId + Unmade("loop")' + Unmade("ble")' <= MaxEvents + 1
  <2>1. CASE t = "loop"
    <3>1. Unmade("loop")' \in {0, Pending(p)} /\ Unmade("ble")' = 0
      BY <1>5, <1>2, <1>7, <2>1 DEF Unmade, Pending, Tasks, Call
    <3> QED BY <1>2, <1>7, <2>1, <3>1, PendingTyped, Constants DEF TaskInv
  <2>2. CASE t = "ble"
    <3>1. Unmade("loop")' \in {0, Pending(todo["loop"])} /\ Unmade("ble")' \in {0, Pending(p)}
      BY <1>5, <2>2 DEF Unmade, Pending, Tasks
    <3> QED BY <1>2, <3>1, PendingTyped, Constants DEF TaskInv
  <2> QED BY <2>1, <2>2 DEF Tasks
<1>9. todo'["ble"] # <<>> => pc'["loop"] # "stamped" /\ (~raced' => ~InWindow')
  <2>1. CASE t = "loop"
    BY <1>2, <2>1 DEF Typed, Tasks
  <2>2. CASE t = "ble"
    <3>1. pc'["loop"] # "stamped"
      BY <1>5 DEF Tasks
    <3>2. InWindow' => InWindow
      BY <1>5 DEF InWindow, Tasks
    <3> QED BY <1>2, <2>2, <3>1, <3>2
  <2> QED BY <2>1, <2>2 DEF Tasks
<1>10. TaskInv'
  BY <1>2, <1>6, <1>8, <1>9 DEF TaskInv
<1>11. pc' = pc \/ (t = "ble" /\ pc["loop"] = "stamped"
                      /\ pc' = [pc EXCEPT !["loop"] = "overtaken"])
  BY <1>2, <1>3 DEF Tasks
<1>12. ~raced' => ~raced /\ (t = "ble" => ~InWindow)
  BY <1>2, Zenon
<1> QED BY <1>2, <1>3, <1>4, <1>10, <1>11, <1>12

LEMMA BootTask ==
  ASSUME Typed, TaskInv, Boot
  PROVE  Typed' /\ TaskInv'
<1>1. /\ todo' = [t \in Tasks |-> IF t = "loop" THEN LogBootReason ELSE <<>>]
      /\ pc' = [t \in Tasks |-> "call"] /\ writes' = [t \in Tasks |-> <<>>]
      /\ arg' = [t \in Tasks |-> 0] /\ entry' = [t \in Tasks |-> 0]
      /\ UNCHANGED nextId /\ nextId <= MaxEvents
  BY DEF Boot
<1>2. LogBootReason \in Seq(Calls) /\ LogsOnce(LogBootReason)
  BY Programs
<1>3. LogsOnce(<<>>)
  BY DEF LogsOnce
<1>4. Typed'
  BY <1>1, <1>2, Constants DEF Typed, Places, Slots
<1>5. ASSUME NEW t \in Tasks PROVE Task(t)'
  BY <1>1, <1>2, <1>3 DEF Task
<1>6. Unmade("loop")' \in {0, 1} /\ Unmade("ble")' = 0
  BY <1>1 DEF Unmade, Pending, Call, Tasks
<1>7. todo'["ble"] = <<>>
  BY <1>1 DEF Tasks
<1> QED BY <1>1, <1>4, <1>5, <1>6, <1>7, Constants DEF TaskInv

LEMMA TaskInit == Init => Typed /\ TaskInv
<1> SUFFICES ASSUME Init PROVE Typed /\ TaskInv
  OBVIOUS
<1>1. /\ todo = [t \in Tasks |-> IF t = "loop" THEN LogBootReason ELSE <<>>]
      /\ pc = [t \in Tasks |-> "call"] /\ writes = [t \in Tasks |-> <<>>]
      /\ arg = [t \in Tasks |-> 0] /\ entry = [t \in Tasks |-> 0]
      /\ nextId = 1
  BY DEF Init
<1>2. LogBootReason \in Seq(Calls) /\ LogsOnce(LogBootReason)
  BY Programs
<1>3. LogsOnce(<<>>)
  BY DEF LogsOnce
<1>4. Typed
  BY <1>1, <1>2, Constants DEF Typed, Places, Slots
<1>5. ASSUME NEW t \in Tasks PROVE Task(t)
  BY <1>1, <1>2, <1>3 DEF Task
<1>6. Unmade("loop") \in {0, 1} /\ Unmade("ble") = 0
  BY <1>1 DEF Unmade, Pending, Call, Tasks
<1>7. todo["ble"] = <<>>
  BY <1>1 DEF Tasks
<1> QED BY <1>1, <1>4, <1>5, <1>6, <1>7, Constants DEF TaskInv

----------------------------------------------------------------------------
\* The types of the log, in RAM and in NVS.

Nvs == [head : Slots, count : 0..LOG_MAX_ENTRIES, log : [Slots -> Entry]]

LEMMA BlankTyped == Blank \in Entry /\ 0 \in Slots /\ EmptyNvs \in Nvs
<1>1. Blank \in Entry
  BY Constants DEF Blank, Entry
<1>2. 0 \in Slots
  BY Constants DEF Slots
<1> QED BY <1>1, <1>2, Constants DEF EmptyNvs, Nvs

\* What a written key changes.
LEMMA Wrote ==
  ASSUME Typed, TaskInv, LogInv, NEW t \in Tasks, Write(t),
         NEW k, k = Head(writes[t])
  PROVE  /\ k \in Keys /\ nvs' \in Nvs
         /\ Header(k) => pc[t] = "held" /\ Call(t) # "clear"
         /\ nvs'.head = IF k = <<"head">> THEN arg[t]
                        ELSE IF k = <<"clear">> THEN 0 ELSE nvs.head
         /\ nvs'.count = IF k = <<"count">> THEN arg[t]
                         ELSE IF k = <<"clear">> THEN 0 ELSE nvs.count
         /\ \A s \in Slots :
              nvs'.log[s] = IF k = <<"log", s>> THEN ring[s]
                            ELSE IF k = <<"clear">> THEN Blank ELSE nvs.log[s]
<1>1. /\ writes[t] \in Seq(Keys) /\ writes[t] # <<>>
      /\ pc[t] \in {"write", "held"} /\ (pc[t] = "write" => ~Header(k))
  BY WriteTask
<1>2. k \in Keys
  BY <1>1, KeysLeft
<1>3. nvs \in Nvs /\ ring \in [Slots -> Entry]
  BY DEF LogInv, Nvs
<1>4. nvs' = Written(t)
  BY DEF Write
<1>5. pc[t] = "held" => Call(t) # "clear" /\ arg[t] \in (IF k = <<"head">> THEN Slots ELSE 0..LOG_MAX_ENTRIES)
  BY DEF TaskInv, Task
<1>6. CASE k = <<"head">>
  <2>1. nvs' = [nvs EXCEPT !.head = arg[t]]
    BY <1>4, <1>6 DEF Written
  <2>2. pc[t] = "held" /\ Call(t) # "clear" /\ arg[t] \in Slots
    BY <1>1, <1>5, <1>6 DEF Header
  <2> QED BY <1>2, <1>3, <1>6, <2>1, <2>2, KeysDiffer DEF Nvs
<1>7. CASE k = <<"count">>
  <2>1. nvs' = [nvs EXCEPT !.count = arg[t]]
    BY <1>4, <1>7, KeysDiffer DEF Written
  <2>2. pc[t] = "held" /\ Call(t) # "clear" /\ arg[t] \in 0..LOG_MAX_ENTRIES
    BY <1>1, <1>5, <1>7, KeysDiffer DEF Header
  <2> QED BY <1>2, <1>3, <1>7, <2>1, <2>2, KeysDiffer DEF Nvs
<1>8. CASE k = <<"clear">>
  <2>1. nvs' = EmptyNvs
    BY <1>4, <1>8, KeysDiffer DEF Written, Wiped
  <2>2. ~Header(k)
    BY <1>8, KeysDiffer DEF Header
  <2> QED BY <1>2, <1>8, <2>1, <2>2, BlankTyped, KeysDiffer DEF EmptyNvs
<1>9. ASSUME NEW r \in Slots, k = <<"log", r>>
      PROVE  /\ nvs' \in Nvs /\ ~Header(k)
             /\ nvs'.head = nvs.head /\ nvs'.count = nvs.count
             /\ k # <<"head">> /\ k # <<"count">> /\ k # <<"clear">>
             /\ \A s \in Slots : nvs'.log[s] = IF k = <<"log", s>> THEN ring[s] ELSE nvs.log[s]
  <2>1. k # <<"head">> /\ k # <<"count">> /\ k # <<"clear">> /\ k[2] = r
    BY <1>9, KeysDiffer
  <2>2. nvs' = [nvs EXCEPT !.log[r] = ring[r]]
    BY <1>4, <2>1 DEF Written
  <2>3. \A s \in Slots : k = <<"log", s>> <=> s = r
    BY <1>9, KeysDiffer
  <2> QED BY <1>3, <2>1, <2>2, <2>3 DEF Nvs, Header
<1> QED BY <1>2, <1>6, <1>7, <1>8, <1>9 DEF Keys

\* The entry that log begins, and that it fills.
LEMMA Stamped ==
  ASSUME LogInv, NEW t \in Tasks, StampEntry(t)
  PROVE  /\ ring' \in [Slots -> Entry] /\ Stamp.timeMode \in {0, 1}
         /\ \A s \in Slots : ring'[s].id = ring[s].id
         /\ \A s \in Slots \ {head} : ring'[s] = ring[s]
         /\ ring'[head].at = now /\ ring'[head].ts = Stamp.ts /\ ring'[head].boot = 0
         /\ ring'[head].by = 0
<1> DEFINE x == [ring[head] EXCEPT !.ts = Stamp.ts, !.at = now, !.boot = 0, !.by = 0]
<1>1. Stamp.ts \in Int /\ Stamp.timeMode \in {0, 1}
  BY Constants DEF Stamp, LogInv, uptime
<1>2. ring[head] \in Entry /\ now \in 0..MaxTime /\ 0 \in 0..MaxBoots
  BY Constants DEF LogInv
<1>3. /\ x \in Entry /\ x.id = ring[head].id /\ x.at = now /\ x.ts = Stamp.ts
      /\ x.boot = 0 /\ x.by = 0
  BY <1>1, <1>2 DEF Entry
<1>4. ring' = [ring EXCEPT ![head] = x]
  BY DEF StampEntry
<1> HIDE DEF x
<1> QED BY <1>1, <1>3, <1>4 DEF LogInv

LEMMA Filled ==
  ASSUME Typed, TaskInv, LogInv, NEW t \in Tasks, Fill(t),
         NEW known, known = IF pc[t] = "stamped" THEN boot ELSE 0
  PROVE  /\ ring' \in [Slots -> Entry]
         /\ \A s \in Slots \ {entry[t]} : ring'[s] = ring[s]
         /\ LET e == ring[entry[t]]
                x == ring'[entry[t]]
            IN  /\ x.id = nextId /\ x.ts = e.ts /\ x.at = e.at /\ x.timeMode = arg[t]
                /\ x.boot = known /\ x.by = IF arg[t] = 1 THEN known ELSE 0
         /\ arg[t] \in {0, 1} /\ entry[t] \in Slots
<1> DEFINE e == ring[entry[t]]
           by == IF arg[t] = 1 THEN known ELSE 0
           x == [e EXCEPT !.id = nextId, !.timeMode = arg[t], !.boot = known, !.by = by]
<1>1. pc[t] \in {"stamped", "overtaken"} /\ nextId \in 1..MaxEvents
  BY FillTask DEF Fill, Runs
<1>2. arg[t] \in {0, 1} /\ entry[t] \in Slots
  BY <1>1 DEF TaskInv, Task, Typed
<1>3. e \in Entry /\ known \in 0..MaxBoots /\ by \in 0..MaxBoots
  BY <1>2, Constants DEF LogInv
<1>4. ring' = [ring EXCEPT ![entry[t]] = x]
  BY <1>1 DEF Fill
<1>5. /\ x \in Entry /\ x.id = nextId /\ x.ts = e.ts /\ x.at = e.at /\ x.timeMode = arg[t]
      /\ x.boot = known /\ x.by = by
  <2> DEFINE tm == arg[t]
             y == [e EXCEPT !.id = nextId, !.timeMode = tm, !.boot = known, !.by = by]
  <2>1. x = y /\ tm \in {0, 1}
    BY <1>2
  <2> HIDE DEF by, e, tm
  <2>2. y \in Entry
    <3>1. nextId \in 0..MaxEvents
      BY <1>1, Constants
    <3> QED BY <1>3, <2>1, <3>1 DEF Entry
  <2>3. /\ y.id = nextId /\ y.ts = e.ts /\ y.at = e.at /\ y.timeMode = tm
        /\ y.boot = known /\ y.by = by
    BY <1>3 DEF Entry
  <2> HIDE DEF x, y
  <2> QED BY <2>1, <2>2, <2>3 DEF tm
<1> HIDE DEF x, by
<1>6. ring'[entry[t]] = x
  BY <1>2, <1>4 DEF LogInv
<1>7. by = IF arg[t] = 1 THEN known ELSE 0
  BY DEF by
<1> QED BY <1>2, <1>4, <1>5, <1>6, <1>7 DEF LogInv

\* The entries dated later: e is r, or r with the time it was made at.
Redated(e, r, unix) ==
  /\ e.id = r.id /\ e.at = r.at /\ e.boot = r.boot
  /\ r.timeMode = 0 /\ e.timeMode = 1 /\ e.by = boot /\ e.ts = unix + (r.ts - uptime)

LEMMA BackfilledTyped ==
  ASSUME LogInv, NEW unix \in Nat
  PROVE  /\ Backfilled(unix) \in [Slots -> Entry]
         /\ count = 0 => Backfilled(unix) = ring
         /\ \A s \in Slots :
              Backfilled(unix)[s] = ring[s] \/ Redated(Backfilled(unix)[s], ring[s], unix)
<1>1. ring \in [Slots -> Entry] /\ uptime \in Int /\ boot \in 0..MaxBoots
  BY Constants DEF LogInv, uptime
<1>2. ASSUME NEW s \in Slots
      PROVE  /\ Backfilled(unix)[s] \in Entry
             /\ Backfilled(unix)[s] = ring[s] \/ Redated(Backfilled(unix)[s], ring[s], unix)
  <2> DEFINE ts == unix + (ring[s].ts - uptime)
             new == [ring[s] EXCEPT !.ts = unix + (@ - uptime), !.timeMode = 1, !.by = boot]
  <2>1. ring[s] \in Entry
    BY <1>1
  <2>2. ts \in Int
    BY <1>1, <2>1 DEF Entry
  <2>3. new = [ring[s] EXCEPT !.ts = ts, !.timeMode = 1, !.by = boot]
    OBVIOUS
  <2>4. /\ new \in Entry /\ new.id = ring[s].id /\ new.at = ring[s].at
        /\ new.boot = ring[s].boot /\ new.timeMode = 1 /\ new.by = boot /\ new.ts = ts
    <3> HIDE DEF ts, new
    <3> QED BY <1>1, <2>1, <2>2, <2>3 DEF Entry
  <2>5. Backfilled(unix)[s] = ring[s] \/ (ring[s].timeMode = 0 /\ Backfilled(unix)[s] = new)
    BY DEF Backfilled
  <2> HIDE DEF new
  <2> QED BY <2>1, <2>4, <2>5 DEF Redated
<1>3. Backfilled(unix) = [s \in Slots |-> Backfilled(unix)[s]]
  BY DEF Backfilled
<1>4. count = 0 => Backfilled(unix) = ring
  <2> SUFFICES ASSUME count = 0 PROVE Backfilled(unix) = ring
    OBVIOUS
  <2>1. {SlotAt(i) : i \in 0..count - 1} = {}
    OBVIOUS
  <2> QED BY <1>1, <2>1 DEF Backfilled
<1> QED BY <1>2, <1>3, <1>4

\* The kinds of a step: both ways of resetting are a Boot.
LEMMA Cases ==
  ASSUME [Next]_vars
  PROVE  \/ UNCHANGED vars \/ Tick \/ Boot
         \/ \E t \in Tasks, p \in LoopPrograms \cup BlePrograms : Start(t, p)
         \/ \E t \in Tasks :
              \/ StampEntry(t) \/ Fill(t) \/ Advance(t) \/ CallSave(t)
              \/ SetSystemTime(t) \/ Clear(t) \/ ReadArg(t) \/ Write(t)
<1>1. ASSUME NEW p \in LoopPrograms, Start("loop", p)
      PROVE  \E t \in Tasks, q \in LoopPrograms \cup BlePrograms : Start(t, q)
  BY <1>1, Zenon DEF Tasks
<1>2. ASSUME NEW p \in BlePrograms, Start("ble", p)
      PROVE  \E t \in Tasks, q \in LoopPrograms \cup BlePrograms : Start(t, q)
  BY <1>2, Zenon DEF Tasks
<1> QED BY <1>1, <1>2, Zenon DEF Next, Reboot, Crash

\* What a time sync does.
LEMMA Synced ==
  ASSUME Typed, TaskInv, LogInv, NEW t \in Tasks, SetSystemTime(t)
  PROVE  /\ UNCHANGED <<head, count, nvs, now, bootAt, boot, arg, entry, nextId, ghostVars>>
         /\ \/ UNCHANGED <<ring, sync, writes>> /\ Return(t)
            \/ /\ sync' = [timeSynced |-> TRUE, unix |-> Epoch + now, uptime |-> uptime]
               /\ ring' = Backfilled(Epoch + now) /\ ~sync.timeSynced
               /\ \/ count = 0 /\ Return(t) /\ UNCHANGED writes
                  \/ /\ writes' = [writes EXCEPT ![t] = SaveAllEntries]
                     /\ pc' = [pc EXCEPT ![t] = "write"] /\ UNCHANGED todo
<1>1. UNCHANGED <<head, count, nvs, timeVars, arg, entry, nextId, ghostVars>>
  BY Zenon DEF SetSystemTime
<1>2. \/ UNCHANGED <<ring, sync, writes>> /\ Return(t)
      \/ /\ sync' = [timeSynced |-> TRUE, unix |-> Epoch + now, uptime |-> uptime]
         /\ ring' = Backfilled(Epoch + now) /\ ~sync.timeSynced
         /\ \/ count = 0 /\ Return(t) /\ UNCHANGED writes
            \/ /\ writes' = [writes EXCEPT ![t] = SaveAllEntries]
               /\ pc' = [pc EXCEPT ![t] = "write"] /\ UNCHANGED todo
  BY Zenon DEF SetSystemTime
<1> QED BY <1>1, <1>2 DEF timeVars

LEMMA LogStep == Typed /\ TaskInv /\ LogInv /\ [Next]_vars => LogInv'
<1> SUFFICES ASSUME Typed, TaskInv, LogInv, [Next]_vars PROVE LogInv'
  OBVIOUS
<1> USE DEF logVars, timeVars, ghostVars
<1>1. CASE UNCHANGED vars
  BY <1>1 DEF LogInv, vars
<1>2. ASSUME NEW t \in Tasks, NEW p \in LoopPrograms \cup BlePrograms, Start(t, p)
      PROVE  LogInv'
  <2>1. UNCHANGED <<head, count, ring, sync, nvs, now, bootAt, boot, torn>>
    BY <1>2 DEF Start
  <2>2. raced' \in BOOLEAN
    BY <1>2, Zenon DEF Start
  <2> QED BY <2>1, <2>2 DEF LogInv
<1>3. ASSUME NEW t \in Tasks, StampEntry(t) PROVE LogInv'
  BY <1>3, Stamped DEF StampEntry, LogInv
<1>4. ASSUME NEW t \in Tasks, Fill(t) PROVE LogInv'
  BY <1>4, Filled DEF Fill, LogInv
<1>5. ASSUME NEW t \in Tasks, Advance(t) PROVE LogInv'
  <2>1. head' \in Slots
    <3>1. head + 1 \in 0..2 * LOG_MAX_ENTRIES - 1
      BY Constants DEF LogInv, Slots
    <3> QED BY <1>5, <3>1, Wrap, Constants DEF Advance, Slots
  <2>2. count' \in 0..LOG_MAX_ENTRIES
    BY <1>5, Constants DEF Advance, NextCount, LogInv
  <2>3. UNCHANGED <<ring, sync, nvs, now, bootAt, boot, raced, torn>>
    BY <1>5 DEF Advance
  <2> QED BY <2>1, <2>2, <2>3 DEF LogInv
<1>6. ASSUME NEW t \in Tasks, CallSave(t) \/ ReadArg(t) PROVE LogInv'
  BY <1>6 DEF CallSave, ReadArg, LogInv
<1>7. ASSUME NEW t \in Tasks, SetSystemTime(t) PROVE LogInv'
  <2>1. uptime \in Nat /\ Epoch + now \in Nat
    BY Constants DEF LogInv, uptime
  <2>2. sync' \in [timeSynced : BOOLEAN, unix : Nat, uptime : Nat] /\ ring' \in [Slots -> Entry]
    <3>1. CASE UNCHANGED <<ring, sync, writes>>
      BY <3>1 DEF LogInv
    <3>2. CASE /\ sync' = [timeSynced |-> TRUE, unix |-> Epoch + now, uptime |-> uptime]
               /\ ring' = Backfilled(Epoch + now)
      BY <2>1, <3>2, BackfilledTyped
    <3> QED BY <1>7, <3>1, <3>2, Synced
  <2> QED BY <1>7, <2>2, Synced DEF LogInv
<1>8. ASSUME NEW t \in Tasks, Clear(t) PROVE LogInv'
  BY <1>8, BlankTyped, Constants DEF Clear, LogInv
<1>9. ASSUME NEW t \in Tasks, Write(t) PROVE LogInv'
  <2>1. nvs' \in Nvs
    BY <1>9, Wrote
  <2>2. torn' \in BOOLEAN
    BY <1>9 DEF Write, LogInv
  <2>3. UNCHANGED <<head, count, ring, sync, now, bootAt, boot, raced>>
    BY <1>9, Zenon DEF Write
  <2> QED BY <2>1, <2>2, <2>3 DEF LogInv, Nvs
<1>10. CASE Boot
  <2>1. /\ head' = nvs.head /\ count' = nvs.count /\ ring' = nvs.log /\ UNCHANGED <<nvs, now>>
        /\ sync' = Unsynced /\ bootAt' = now /\ boot' = boot + 1 /\ boot < MaxBoots
    BY <1>10 DEF Boot
  <2>2. torn' \in BOOLEAN /\ raced' \in BOOLEAN
    BY <1>10, Zenon DEF Boot
  <2> QED BY <2>1, <2>2, Constants DEF LogInv, Unsynced
<1>11. CASE Tick
  BY <1>11, Constants DEF Tick, LogInv
<1> QED BY <1>1, <1>2, <1>3, <1>4, <1>5, <1>6, <1>7, <1>8, <1>9, <1>10, <1>11,
          Cases, Zenon

LEMMA TaskStep == Typed /\ TaskInv /\ LogInv /\ [Next]_vars => Typed' /\ TaskInv'
<1> SUFFICES ASSUME Typed, TaskInv, LogInv, [Next]_vars PROVE Typed' /\ TaskInv'
  OBVIOUS
<1>1. ASSUME UNCHANGED <<todo, pc, writes, arg, entry, nextId, raced>>
      PROVE  Typed' /\ TaskInv'
  <2>1. Typed'
    BY <1>1 DEF Typed
  <2>2. ASSUME NEW t \in Tasks PROVE Task(t)'
    BY <1>1 DEF TaskInv, Task, Call, Header, LogsOnce
  <2>3. Unmade("loop")' = Unmade("loop") /\ Unmade("ble")' = Unmade("ble") /\ InWindow' = InWindow
    BY <1>1 DEF Unmade, Pending, Call, InWindow
  <2> QED BY <1>1, <2>1, <2>2, <2>3 DEF TaskInv
<1>2. CASE UNCHANGED vars
  BY <1>1, <1>2 DEF vars, taskVars, ghostVars
<1>3. CASE Tick
  BY <1>1, <1>3 DEF Tick, taskVars, ghostVars
<1>4. head \in Slots /\ count \in 0..LOG_MAX_ENTRIES /\ raced \in BOOLEAN
  BY DEF LogInv
<1>5. CASE Boot
  BY <1>5, BootTask
<1> QED BY <1>2, <1>3, <1>4, <1>5, Cases, StartTask, StampTask, FillTask, AdvanceTask,
           CallSaveTask, SyncTask, ClearTask, ReadArgTask, WriteTask, Zenon

----------------------------------------------------------------------------
\* The times of the entries.

\* While a task moves the other has begun no entry.
LEMMA Alone ==
  ASSUME Typed, TaskInv, NEW t \in Tasks, Moves(t), NEW u \in Tasks \ {t}
  PROVE  /\ pc[u] # "stamped" /\ pc'[u] = pc[u] /\ writes'[u] = writes[u]
         /\ todo'[u] = todo[u] /\ Call(u)' = Call(u) /\ arg'[u] = arg[u] /\ entry'[u] = entry[u]
         /\ t = "loop" => todo[u] = <<>> /\ pc[u] = "call" /\ writes[u] = <<>>
         /\ t = "ble" /\ ~raced => pc[u] \in {"call", "write"} /\ writes[u] # Wipe
BY DEF Moves, Other, Tasks, TaskInv, Task, Call, InWindow, Wipe

LEMMA DatedInit == Init => DatedInv
<1> SUFFICES ASSUME Init PROVE DatedInv
  OBVIOUS
<1>1. \A s \in Slots : ring[s] = Blank /\ nvs.log[s] = Blank
  BY DEF Init, EmptyNvs
<1>2. ~sync.timeSynced /\ boot = 1 /\ \A t \in Tasks : pc[t] = "call"
  BY DEF Init, Unsynced
<1> QED BY <1>1, <1>2 DEF DatedInv, Dated, ThisBoot, Blank

\* The time of an entry is the same whoever looks at it.
StampedRight(t) ==
  pc[t] = "stamped" =>
    LET e == ring[entry[t]] IN e.ts = IF arg[t] = 1 THEN Epoch + e.at ELSE e.at - bootAt

LEMMA StampDated ==
  ASSUME Typed, TaskInv, LogInv, DatedInv, NEW t \in Tasks, StampEntry(t)
  PROVE  DatedInv'
<1>1. UNCHANGED <<sync, nvs, now, bootAt, boot>> /\ pc' = [pc EXCEPT ![t] = "stamped"]
      /\ arg' = [arg EXCEPT ![t] = Stamp.timeMode] /\ entry' = [entry EXCEPT ![t] = head]
  BY DEF StampEntry, timeVars
<1>2. head \in Slots /\ Moves(t)
  BY StampTask DEF LogInv
<1>3. ASSUME NEW s \in Slots PROVE Dated(ring[s])' /\ ThisBoot(ring[s])'
  <2>1. CASE s = head
    BY <1>1, <2>1, Stamped, Constants DEF Dated, ThisBoot, LogInv
  <2>2. CASE s # head
    BY <1>1, <2>2, Stamped DEF DatedInv, Dated, ThisBoot
  <2> QED BY <2>1, <2>2
<1>4. pc'[t] = "stamped" /\ arg'[t] = Stamp.timeMode /\ entry'[t] = head
  BY <1>1 DEF Typed
<1>5. Stamp.ts = IF Stamp.timeMode = 1 THEN Epoch + now ELSE now - bootAt
  BY Constants DEF Stamp, uptime, DatedInv, LogInv
<1>6. StampedRight(t)'
  BY <1>1, <1>4, <1>5, Stamped DEF StampedRight
<1>7. \A u \in Tasks \ {t} : pc'[u] # "stamped"
  BY <1>2, Alone
<1>8. \A s \in Slots : Dated(nvs.log[s])'
  BY <1>1 DEF DatedInv, Dated
<1> QED BY <1>1, <1>3, <1>6, <1>7, <1>8 DEF DatedInv, StampedRight

LEMMA FillDated ==
  ASSUME Typed, TaskInv, LogInv, DatedInv, NEW t \in Tasks, Fill(t)
  PROVE  DatedInv'
<1> DEFINE known == IF pc[t] = "stamped" THEN boot ELSE 0
           x == entry[t]
<1>1. UNCHANGED <<sync, nvs, now, bootAt, boot>> /\ pc' = [pc EXCEPT ![t] = "filled"]
  BY DEF Fill, timeVars
<1>2. Moves(t) /\ x \in Slots
  BY FillTask DEF Typed
<1>3. /\ \A s \in Slots \ {x} : ring'[s] = ring[s]
      /\ ring'[x].ts = ring[x].ts /\ ring'[x].at = ring[x].at /\ ring'[x].timeMode = arg[t]
      /\ ring'[x].boot = known /\ ring'[x].by = (IF arg[t] = 1 THEN known ELSE 0)
      /\ arg[t] \in {0, 1}
  BY Filled
<1>4. pc[t] = "stamped" => ring[x].ts = IF arg[t] = 1 THEN Epoch + ring[x].at ELSE ring[x].at - bootAt
  BY DEF DatedInv
<1>5. known \in {0, boot} /\ boot \in Nat \ {0} /\ (known = boot => pc[t] = "stamped")
  BY Constants DEF LogInv
<1> HIDE DEF known, x
<1>6. ASSUME NEW s \in Slots PROVE Dated(ring[s])' /\ ThisBoot(ring[s])'
  <2>1. CASE s = x
    BY <1>1, <1>3, <1>4, <1>5, <2>1 DEF Dated, ThisBoot
  <2>2. CASE s # x
    BY <1>1, <1>3, <2>2 DEF DatedInv, Dated, ThisBoot
  <2> QED BY <2>1, <2>2
<1>7. \A u \in Tasks : pc'[u] # "stamped"
  <2>1. pc'[t] = "filled"
    BY <1>1 DEF Typed
  <2> QED BY <1>2, <2>1, Alone
<1>8. \A s \in Slots : Dated(nvs.log[s])'
  BY <1>1 DEF DatedInv, Dated
<1> QED BY <1>1, <1>6, <1>7, <1>8 DEF DatedInv

LEMMA SyncDated ==
  ASSUME Typed, TaskInv, LogInv, DatedInv, NEW t \in Tasks, SetSystemTime(t)
  PROVE  DatedInv'
<1>1. UNCHANGED <<nvs, now, bootAt, boot>> /\ Moves(t)
  BY Synced, SyncTask
<1>2. \A u \in Tasks : pc'[u] # "stamped"
  <2>1. pc'[t] # "stamped"
    <3>1. LogsOnce(todo[t]) /\ todo[t] # <<>>
      BY <1>1 DEF TaskInv, Task, Moves
    <3> QED BY <3>1, Synced, Returned DEF SetSystemTime, Typed, Runs
  <2> QED BY <1>1, <2>1, Alone
<1>3. \A s \in Slots : Dated(nvs.log[s])'
  BY <1>1 DEF DatedInv, Dated
<1>4. CASE UNCHANGED <<ring, sync>>
  BY <1>1, <1>2, <1>3, <1>4 DEF DatedInv, Dated, ThisBoot
<1>5. CASE /\ sync' = [timeSynced |-> TRUE, unix |-> Epoch + now, uptime |-> uptime]
           /\ ring' = Backfilled(Epoch + now)
  <2>1. /\ {Epoch, now, bootAt} \subseteq Nat /\ uptime = now - bootAt
        /\ boot \in Nat \ {0} /\ Epoch + now \in Nat
    BY Constants DEF LogInv, uptime
  <2>2. sync'.unix = Epoch + bootAt + sync'.uptime
    BY <1>5, <2>1
  <2>3. ASSUME NEW s \in Slots PROVE Dated(ring[s])' /\ ThisBoot(ring[s])'
    <3>1. ring'[s] = ring[s] \/ Redated(ring'[s], ring[s], Epoch + now)
      BY <1>5, <2>1, BackfilledTyped
    <3>2. Dated(ring[s]) /\ ThisBoot(ring[s]) /\ ring[s] \in Entry
      BY DEF DatedInv, LogInv
    <3>3. CASE ring'[s] = ring[s]
      BY <1>1, <3>2, <3>3 DEF Dated, ThisBoot
    <3>4. CASE Redated(ring'[s], ring[s], Epoch + now)
      <4>1. ring[s].ts \in Int /\ ring[s].at \in Int
        BY <3>2, Constants DEF Entry
      <4>2. /\ ring'[s].at = ring[s].at /\ ring'[s].boot = ring[s].boot
            /\ ring'[s].timeMode = 1 /\ ring'[s].by = boot /\ ring[s].timeMode = 0
            /\ ring'[s].ts = Epoch + now + (ring[s].ts - (now - bootAt))
        BY <2>1, <3>4 DEF Redated
      <4>3. ring[s].boot = boot => ring'[s].ts = Epoch + ring[s].at
        BY <2>1, <3>2, <4>1, <4>2 DEF ThisBoot
      <4> QED BY <1>1, <2>1, <3>2, <4>2, <4>3 DEF Dated, ThisBoot
    <3> QED BY <3>1, <3>3, <3>4
  <2> QED BY <1>1, <1>2, <1>3, <2>2, <2>3 DEF DatedInv
<1> QED BY <1>4, <1>5, Synced

LEMMA WriteDated ==
  ASSUME Typed, TaskInv, LogInv, DatedInv, NEW t \in Tasks, Write(t)
  PROVE  DatedInv'
<1>1. UNCHANGED <<ring, sync, now, bootAt, boot>>
  BY Zenon DEF Write, logVars, timeVars
<1>2. Moves(t) /\ pc'[t] # "stamped"
  BY WriteTask
<1>3. \A u \in Tasks : pc'[u] # "stamped"
  BY <1>2, Alone
<1>4. ASSUME NEW s \in Slots PROVE Dated(nvs.log[s])'
  <2>1. nvs'.log[s] \in {ring[s], Blank, nvs.log[s]}
    BY Wrote
  <2>2. Dated(Blank) /\ Dated(ring[s]) /\ Dated(nvs.log[s])
    BY Constants DEF Dated, Blank, DatedInv, LogInv
  <2> QED BY <1>1, <2>1, <2>2 DEF Dated
<1> QED BY <1>1, <1>3, <1>4 DEF DatedInv, Dated, ThisBoot

LEMMA DatedStep == Typed /\ TaskInv /\ LogInv /\ DatedInv /\ [Next]_vars => DatedInv'
<1> SUFFICES ASSUME Typed, TaskInv, LogInv, DatedInv, [Next]_vars PROVE DatedInv'
  OBVIOUS
<1> USE DEF logVars, timeVars, ghostVars, taskVars
<1>1. ASSUME UNCHANGED <<ring, sync, nvs, bootAt, boot>>,
             \A u \in Tasks : pc'[u] = "stamped" =>
                pc[u] = "stamped" /\ arg'[u] = arg[u] /\ entry'[u] = entry[u]
      PROVE  DatedInv'
  BY <1>1 DEF DatedInv, Dated, ThisBoot
<1>2. CASE UNCHANGED vars
  BY <1>1, <1>2 DEF vars
<1>3. CASE Tick
  BY <1>1, <1>3 DEF Tick
<1>4. CASE Boot
  <2>1. /\ ring' = nvs.log /\ sync' = Unsynced /\ boot' = boot + 1 /\ UNCHANGED nvs
        /\ pc' = [t \in Tasks |-> "call"] /\ boot \in Nat \ {0}
    BY <1>4, Constants DEF Boot, LogInv
  <2>2. ASSUME NEW s \in Slots
        PROVE  Dated(ring[s])' /\ ThisBoot(ring[s])' /\ Dated(nvs.log[s])'
    <3>1. Dated(nvs.log[s]) /\ nvs.log[s].boot \in Nat
      BY Constants DEF DatedInv, LogInv, Entry
    <3> QED BY <2>1, <3>1 DEF Dated, ThisBoot
  <2> QED BY <2>1, <2>2 DEF DatedInv, Unsynced
<1>5. ASSUME NEW t \in Tasks, NEW p \in LoopPrograms \cup BlePrograms, Start(t, p)
      PROVE  DatedInv'
  <2>1. pc' = pc \/ pc' = [pc EXCEPT !["loop"] = "overtaken"]
    BY <1>5, StartTask DEF LogInv
  <2>2. \A u \in Tasks : pc'[u] = "stamped" => pc[u] = "stamped"
    BY <2>1 DEF Typed, Tasks
  <2>3. UNCHANGED <<ring, sync, nvs, bootAt, boot, arg, entry>>
    BY <1>5 DEF Start
  <2> QED BY <1>1, <2>2, <2>3
<1>6. ASSUME NEW t \in Tasks, Advance(t) \/ CallSave(t) \/ ReadArg(t)
      PROVE  DatedInv'
  <2>1. Moves(t)
    BY <1>6, AdvanceTask, CallSaveTask, ReadArgTask DEF LogInv
  <2>2. pc'[t] # "stamped" /\ UNCHANGED <<ring, sync, nvs, bootAt, boot>>
    BY <1>6 DEF Advance, CallSave, ReadArg, Typed
  <2> QED BY <1>1, <2>1, <2>2, Alone
<1>7. ASSUME NEW t \in Tasks, Clear(t) PROVE DatedInv'
  <2>1. Moves(t)
    BY <1>7, ClearTask
  <2>2. pc'[t] # "stamped" /\ UNCHANGED <<sync, nvs, bootAt, boot>>
        /\ ring' = [s \in Slots |-> Blank]
    BY <1>7 DEF Clear, Typed
  <2>3. \A u \in Tasks : pc'[u] # "stamped"
    BY <2>1, <2>2, Alone
  <2>4. Dated(Blank)' /\ ThisBoot(Blank)'
    BY <2>2, Constants DEF Dated, ThisBoot, Blank, LogInv
  <2>5. \A s \in Slots : Dated(ring[s])' /\ ThisBoot(ring[s])'
    BY <2>2, <2>4 DEF Dated, ThisBoot
  <2> QED BY <2>2, <2>3, <2>5 DEF DatedInv, Dated
<1> QED BY <1>2, <1>3, <1>4, <1>5, <1>6, <1>7, StampDated, FillDated, SyncDated, WriteDated,
           Cases, Zenon

----------------------------------------------------------------------------
\* What is saved, and what is left to save.

\* While a task moves, what the other owes stays what it is.
LEMMA OtherOwes ==
  ASSUME Typed, TaskInv, NEW t \in Tasks, Moves(t), ~raced, NEW u \in Tasks \ {t}
  PROVE  /\ Current(u)' /\ Call(u)' = Call(u)
         /\ \A k : Owes(u, k)' <=> Owes(u, k)
<1>1. pc[u] \in {"call", "write"} /\ pc'[u] = pc[u] /\ writes'[u] = writes[u]
      /\ writes[u] # Wipe /\ Call(u)' = Call(u)
  BY Alone DEF Tasks, Wipe
<1> QED BY <1>1 DEF Current, Owes

\* A call that has not begun owes nothing.
LEMMA OwesNothing ==
  ASSUME NEW t \in Tasks, pc[t] \in {"call", "overtaken"}, writes[t] = <<>>
  PROVE  \A k : ~Owes(t, k)
BY DEF Owes, Wipe

\* The part of SavedInv that a step of t has to see to.
Sees(t) ==
  /\ Current(t)'
  /\ \/ nvs'.head = head' \/ (Call(t)' # "sync" /\ Owes(t, <<"head">>)')
     \/ nvs.head # head /\ ~(Call(t) # "sync" /\ Owes(t, <<"head">>))
  /\ \/ nvs'.count = count' \/ (Call(t)' # "sync" /\ Owes(t, <<"count">>)')
     \/ nvs.count # count /\ ~(Call(t) # "sync" /\ Owes(t, <<"count">>))
  /\ \A s \in Slots :
       \/ nvs'.log[s] = ring'[s] \/ Owes(t, <<"log", s>>)'
       \/ nvs.log[s] # ring[s] /\ ~Owes(t, <<"log", s>>)
  /\ \A s \in Slots :
       \/ nvs'.log[s].id = ring'[s].id \/ (Call(t)' # "sync" /\ Owes(t, <<"log", s>>)')
       \/ nvs.log[s].id # ring[s].id /\ ~(Call(t) # "sync" /\ Owes(t, <<"log", s>>))

LEMMA SavedBy ==
  ASSUME Typed, TaskInv, SavedInv, NEW t \in Tasks, Moves(t), ~raced => Sees(t)
  PROVE  SavedInv'
<1> USE DEF Sees
<1> SUFFICES ASSUME ~raced' PROVE SavedInv'
  BY DEF SavedInv
<1>1. ~raced
  BY DEF Moves
<1>2. \A u \in Tasks \ {t} : Current(u)' /\ (Call(u)' = Call(u)) /\ \A k : Owes(u, k)' <=> Owes(u, k)
  BY <1>1, OtherOwes
<1>3. \A u \in Tasks : Current(u)'
  BY <1>1, <1>2
<1>4. \A k : OwedAnew(k) /\ ~(Call(t) # "sync" /\ Owes(t, k)) => OwedAnew(k)'
  BY <1>2 DEF OwedAnew
<1>5. \A k : Owed(k) /\ ~Owes(t, k) => Owed(k)'
  BY <1>2 DEF Owed
<1>6. \A k : (Call(t)' # "sync" /\ Owes(t, k)' => OwedAnew(k)') /\ (Owes(t, k)' => Owed(k)')
  BY DEF OwedAnew, Owed
<1>7. /\ nvs.head = head \/ OwedAnew(<<"head">>)
      /\ nvs.count = count \/ OwedAnew(<<"count">>)
      /\ \A s \in Slots : nvs.log[s] = ring[s] \/ Owed(<<"log", s>>)
      /\ \A s \in Slots : nvs.log[s].id = ring[s].id \/ OwedAnew(<<"log", s>>)
  BY <1>1 DEF SavedInv
<1>8. nvs'.head = head' \/ OwedAnew(<<"head">>)'
  BY <1>1, <1>4, <1>6, <1>7
<1>9. nvs'.count = count' \/ OwedAnew(<<"count">>)'
  BY <1>1, <1>4, <1>6, <1>7
<1>10. \A s \in Slots : nvs'.log[s] = ring'[s] \/ Owed(<<"log", s>>)'
  BY <1>1, <1>5, <1>6, <1>7
<1>11. \A s \in Slots : nvs'.log[s].id = ring'[s].id \/ OwedAnew(<<"log", s>>)'
  BY <1>1, <1>4, <1>6, <1>7
<1> QED BY <1>3, <1>8, <1>9, <1>10, <1>11 DEF SavedInv

\* A task in a call that logs.
LEMMA Logging ==
  ASSUME Typed, TaskInv, NEW t \in Tasks, NEW at, Runs(t, {"log", "boot"}, at), todo' = todo
  PROVE  /\ pc[t] = at /\ Call(t) \in {"log", "boot"} /\ Call(t)' = Call(t)
         /\ Call(t) # "sync" /\ Call(t)' # "sync"
         /\ at \notin {"write", "held"} => writes[t] = <<>>
<1>1. {"log", "boot"} \in SUBSET Calls
  BY DEF Calls
<1>2. pc[t] = at /\ Call(t) \in {"log", "boot"}
  BY <1>1, Running
<1>3. Call(t)' = Call(t)
  BY DEF Call
<1> QED BY <1>2, <1>3 DEF TaskInv, Task

LEMMA StampSaved ==
  ASSUME Typed, TaskInv, LogInv, SavedInv, NEW t \in Tasks, StampEntry(t)
  PROVE  SavedInv'
<1>1. Moves(t) /\ head \in Slots
  BY StampTask DEF LogInv
<1>2. /\ UNCHANGED <<head, count, nvs, todo, writes>> /\ pc' = [pc EXCEPT ![t] = "stamped"]
      /\ entry' = [entry EXCEPT ![t] = head] /\ Runs(t, {"log", "boot"}, "call")
  BY DEF StampEntry
<1>3. pc[t] = "call" /\ writes[t] = <<>>
  BY <1>2, Logging
<1>4. pc'[t] = "stamped" /\ entry'[t] = head /\ writes'[t] = <<>>
  BY <1>2, <1>3 DEF Typed
<1>5. Current(t)' /\ Owes(t, <<"log", head>>)'
  BY <1>2, <1>4 DEF Current, Owes, Wipe
<1>6. \A k : ~Owes(t, k)
  BY <1>3, OwesNothing
<1>7. /\ \A s \in Slots : ring'[s].id = ring[s].id
      /\ \A s \in Slots \ {head} : ring'[s] = ring[s]
  BY Stamped
<1>8. \A s \in Slots : nvs'.log[s] = ring'[s] \/ Owes(t, <<"log", s>>)'
                         \/ nvs.log[s] # ring[s]
  BY <1>2, <1>5, <1>7
<1> QED BY <1>1, <1>2, <1>5, <1>6, <1>7, <1>8, SavedBy DEF Sees

LEMMA FillSaved ==
  ASSUME Typed, TaskInv, LogInv, SavedInv, NEW t \in Tasks, Fill(t)
  PROVE  SavedInv'
<1>1. Moves(t)
  BY FillTask
<1>2. UNCHANGED <<head, count, nvs, todo, writes>> /\ pc' = [pc EXCEPT ![t] = "filled"]
  BY DEF Fill
<1>3. SUFFICES ASSUME ~raced PROVE Sees(t)
  BY <1>1, SavedBy
<1>4. Current(t)
  BY <1>3 DEF SavedInv
<1>5. /\ pc[t] = "stamped" /\ writes[t] = <<>> /\ Call(t)' # "sync" /\ Call(t) # "sync"
      /\ entry[t] = head
  BY <1>2, <1>4, Logging DEF Fill, Current
<1>6. writes'[t] = <<>> /\ pc'[t] = "filled"
  BY <1>2, <1>5 DEF Typed
<1>7. Current(t)' /\ Owes(t, <<"log", head>>)'
  BY <1>2, <1>6 DEF Current, Owes, Wipe
<1>8. \A k : Owes(t, k) => k = <<"log", head>>
  BY <1>5 DEF Owes, Wipe
<1>9. \A s \in Slots \ {head} : ring'[s] = ring[s] /\ ~Owes(t, <<"log", s>>)
  BY <1>5, <1>8, Filled, KeysDiffer DEF LogInv
<1>10. ~Owes(t, <<"head">>) /\ ~Owes(t, <<"count">>)
  BY <1>8, KeysDiffer DEF LogInv
<1>11. ASSUME NEW s \in Slots
       PROVE  Owes(t, <<"log", s>>)' \/ (ring'[s] = ring[s] /\ ~Owes(t, <<"log", s>>))
  <2>1. CASE s = head
    BY <1>2, <1>7, <2>1
  <2>2. CASE s # head
    BY <1>9, <2>2
  <2> QED BY <2>1, <2>2
<1>12. \/ nvs'.head = head' \/ nvs.head # head
  BY <1>2
<1>13. \/ nvs'.count = count' \/ nvs.count # count
  BY <1>2
<1>14. \A s \in Slots :
        \/ nvs'.log[s] = ring'[s] \/ Owes(t, <<"log", s>>)'
        \/ nvs.log[s] # ring[s] /\ ~Owes(t, <<"log", s>>)
  BY <1>2, <1>11
<1>15. \A s \in Slots :
        \/ nvs'.log[s].id = ring'[s].id \/ (Call(t)' # "sync" /\ Owes(t, <<"log", s>>)')
        \/ nvs.log[s].id # ring[s].id /\ ~(Call(t) # "sync" /\ Owes(t, <<"log", s>>))
  BY <1>2, <1>5, <1>11
<1> QED BY <1>7, <1>10, <1>12, <1>13, <1>14, <1>15 DEF Sees

\* The head moves on, in a circle, and the slot it leaves is the one before it.
LEMMA Onward ==
  ASSUME head \in Slots, head' = (head + 1) % LOG_MAX_ENTRIES
  PROVE  /\ head' = IF head = LOG_MAX_ENTRIES - 1 THEN 0 ELSE head + 1
         /\ Before' = head
<1>1. head \in 0..LOG_MAX_ENTRIES - 1 /\ LOG_MAX_ENTRIES \in Nat \ {0}
  BY Constants DEF Slots
<1>2. head + 1 \in 0..2 * LOG_MAX_ENTRIES - 1
  BY <1>1
<1>3. head' = IF head = LOG_MAX_ENTRIES - 1 THEN 0 ELSE head + 1
  <2> DEFINE a == head + 1
  <2>1. a % LOG_MAX_ENTRIES = IF a < LOG_MAX_ENTRIES THEN a ELSE a - LOG_MAX_ENTRIES
    BY <1>2, Wrap
  <2> QED BY <1>1, <2>1
<1>4. head' + LOG_MAX_ENTRIES - 1 \in 0..2 * LOG_MAX_ENTRIES - 1
  BY <1>1, <1>3
<1>5. (head' + LOG_MAX_ENTRIES - 1) % LOG_MAX_ENTRIES = head
  <2> DEFINE a == head' + LOG_MAX_ENTRIES - 1
  <2>1. a = IF head = LOG_MAX_ENTRIES - 1 THEN LOG_MAX_ENTRIES - 1 ELSE head + LOG_MAX_ENTRIES
    BY <1>1, <1>3
  <2>2. a % LOG_MAX_ENTRIES = IF a < LOG_MAX_ENTRIES THEN a ELSE a - LOG_MAX_ENTRIES
    BY <1>4, Wrap
  <2> QED BY <1>1, <2>1, <2>2
<1> QED BY <1>3, <1>5 DEF Before

LEMMA AdvanceSaved ==
  ASSUME Typed, TaskInv, LogInv, SavedInv, NEW t \in Tasks, Advance(t)
  PROVE  SavedInv'
<1>1. Moves(t)
  BY AdvanceTask
<1>2. /\ UNCHANGED <<nvs, ring, todo, writes>> /\ pc' = [pc EXCEPT ![t] = "counted"]
      /\ head' = (head + 1) % LOG_MAX_ENTRIES /\ Runs(t, {"log", "boot"}, "filled")
  BY DEF Advance
<1>3. pc[t] = "filled" /\ Call(t) # "sync" /\ Call(t)' # "sync" /\ writes[t] = <<>>
  BY <1>2, Logging
<1>4. writes'[t] = <<>> /\ pc'[t] = "counted"
  BY <1>2, <1>3 DEF Typed
<1>5. Before' = head /\ head \in Slots
  BY <1>2, Onward DEF LogInv
<1>6. Current(t)'
  BY <1>4 DEF Current, Wipe
<1> PICK h \in Slots : h = head
  BY <1>5
<1>7. Owes(t, <<"log", h>>)' /\ Owes(t, <<"head">>)' /\ Owes(t, <<"count">>)'
  BY <1>4, <1>5 DEF Owes, Header
<1>8. \A k : Owes(t, k) => k = <<"log", head>>
  BY <1>3 DEF Owes, Wipe
<1>9. ASSUME NEW s \in Slots PROVE Owes(t, <<"log", s>>)' \/ ~Owes(t, <<"log", s>>)
  <2>1. CASE s = h
    BY <1>7, <2>1
  <2>2. CASE s # h
    BY <1>5, <1>8, <2>2, KeysDiffer
  <2> QED BY <2>1, <2>2
<1>10. \A s \in Slots :
        \/ nvs'.log[s] = ring'[s] \/ Owes(t, <<"log", s>>)'
        \/ nvs.log[s] # ring[s] /\ ~Owes(t, <<"log", s>>)
  BY <1>2, <1>9
<1>11. \A s \in Slots :
        \/ nvs'.log[s].id = ring'[s].id \/ (Call(t)' # "sync" /\ Owes(t, <<"log", s>>)')
        \/ nvs.log[s].id # ring[s].id /\ ~(Call(t) # "sync" /\ Owes(t, <<"log", s>>))
  BY <1>2, <1>3, <1>9
<1>12. Sees(t)
  BY <1>3, <1>6, <1>7, <1>10, <1>11 DEF Sees
<1> QED BY <1>1, <1>12, SavedBy

\* A step of t that changes nothing that is saved, and owes what it owed.
LEMMA SavedStill ==
  ASSUME Typed, TaskInv, SavedInv, NEW t \in Tasks, Moves(t),
         UNCHANGED <<nvs, head, count, ring, todo>>, ~raced => Current(t)',
         \A k : Owes(t, k) => Owes(t, k)'
  PROVE  SavedInv'
<1>1. Call(t)' = Call(t)
  BY DEF Call
<1>2. SUFFICES ASSUME ~raced PROVE Sees(t)
  BY SavedBy
<1>3. \A s \in Slots :
        \/ nvs'.log[s] = ring'[s] \/ Owes(t, <<"log", s>>)'
        \/ nvs.log[s] # ring[s] /\ ~Owes(t, <<"log", s>>)
  OBVIOUS
<1>4. \A s \in Slots :
        \/ nvs'.log[s].id = ring'[s].id \/ (Call(t)' # "sync" /\ Owes(t, <<"log", s>>)')
        \/ nvs.log[s].id # ring[s].id /\ ~(Call(t) # "sync" /\ Owes(t, <<"log", s>>))
  BY <1>1
<1>5. \/ nvs'.head = head' \/ (Call(t)' # "sync" /\ Owes(t, <<"head">>)')
      \/ nvs.head # head /\ ~(Call(t) # "sync" /\ Owes(t, <<"head">>))
  BY <1>1
<1>6. \/ nvs'.count = count' \/ (Call(t)' # "sync" /\ Owes(t, <<"count">>)')
      \/ nvs.count # count /\ ~(Call(t) # "sync" /\ Owes(t, <<"count">>))
  BY <1>1
<1> QED BY <1>2, <1>3, <1>4, <1>5, <1>6 DEF Sees

LEMMA CallSaveSaved ==
  ASSUME Typed, TaskInv, LogInv, SavedInv, NEW t \in Tasks, CallSave(t)
  PROVE  SavedInv'
<1>1. Moves(t)
  BY CallSaveTask DEF LogInv
<1>2. /\ UNCHANGED <<nvs, ring, head, count, todo>> /\ pc' = [pc EXCEPT ![t] = "write"]
      /\ writes' = [writes EXCEPT ![t] = SaveEntry] /\ Runs(t, {"log", "boot"}, "counted")
  BY DEF CallSave, logVars
<1>3. pc[t] = "counted" /\ writes[t] = <<>>
  BY <1>2, Logging
<1>4. writes'[t] = SaveEntry /\ pc'[t] = "write"
  BY <1>2 DEF Typed
<1>5. \A k : Owes(t, k) => Owes(t, k)'
  <2>1. \A k : Owes(t, k) => Header(k) \/ k = <<"log", Before>>
    BY <1>3 DEF Owes, Wipe
  <2>2. \A k : Owes(t, k) => \E i \in DOMAIN SaveEntry : SaveEntry[i] = k
    BY <2>1, SaveEntryKeys DEF LogInv
  <2> QED BY <1>4, <2>2 DEF Owes
<1>6. SaveEntry # Wipe
  <2>1. 1 \in DOMAIN Wipe /\ Wipe[1] = <<"clear">>
    BY DEF Wipe
  <2> QED BY <2>1, SaveEntryKeys DEF LogInv
<1>7. Current(t)'
  BY <1>4, <1>6 DEF Current
<1> QED BY <1>1, <1>2, <1>5, <1>7, SavedStill

LEMMA ReadArgSaved ==
  ASSUME Typed, TaskInv, LogInv, SavedInv, NEW t \in Tasks, ReadArg(t)
  PROVE  SavedInv'
<1>1. Moves(t) /\ Header(Head(writes[t]))
  BY ReadArgTask DEF LogInv
<1>2. /\ UNCHANGED <<nvs, ring, head, count, todo, writes>> /\ pc' = [pc EXCEPT ![t] = "held"]
      /\ arg' = [arg EXCEPT ![t] = IF Head(writes[t]) = <<"head">> THEN head ELSE count]
      /\ pc[t] = "write"
  BY DEF ReadArg, logVars, Runs
<1>3. /\ pc'[t] = "held" /\ writes'[t] = writes[t]
      /\ arg'[t] = IF Head(writes[t]) = <<"head">> THEN head ELSE count
  BY <1>2 DEF Typed
<1>4. writes[t] # Wipe
  BY <1>1, KeysDiffer DEF Header, Wipe
<1>5. Current(t)'
  BY <1>2, <1>3, <1>4 DEF Current
<1>6. \A k : Owes(t, k)' <=> Owes(t, k)
  BY <1>2, <1>3 DEF Owes
<1> QED BY <1>1, <1>2, <1>5, <1>6, SavedStill

LEMMA SyncSaved ==
  ASSUME Typed, TaskInv, LogInv, SavedInv, NEW t \in Tasks, SetSystemTime(t)
  PROVE  SavedInv'
<1>1. Moves(t)
  BY SyncTask
<1>2. UNCHANGED <<head, count, nvs>>
  BY Synced
<1>3. pc[t] = "call" /\ writes[t] = <<>> /\ LogsOnce(todo[t]) /\ todo[t] # <<>>
  <2>1. pc[t] = "call"
    BY Zenon DEF SetSystemTime, Runs
  <2> QED BY <1>1, <2>1 DEF TaskInv, Task, Moves
<1>4. \A k : ~Owes(t, k)
  BY <1>3, OwesNothing
<1>5. \/ ring' = ring /\ Return(t) /\ UNCHANGED writes
      \/ /\ ring' = Backfilled(Epoch + now)
         /\ writes' = [writes EXCEPT ![t] = SaveAllEntries]
         /\ pc' = [pc EXCEPT ![t] = "write"]
  <2>1. Epoch + now \in Nat
    BY Constants DEF LogInv
  <2> QED BY <2>1, Synced, BackfilledTyped
<1>6. /\ \A s \in Slots : ring'[s].id = ring[s].id
      /\ \A s \in Slots : ring'[s] = ring[s] \/ Owes(t, <<"log", s>>)'
  <2>1. CASE ring' = ring
    BY <2>1
  <2>2. CASE /\ ring' = Backfilled(Epoch + now)
             /\ writes' = [writes EXCEPT ![t] = SaveAllEntries]
    <3>1. writes'[t] = SaveAllEntries
      BY <2>2 DEF Typed
    <3>2. \A s \in Slots : Owes(t, <<"log", s>>)'
      BY <3>1, SaveAllKeys DEF Owes
    <3>3. Epoch + now \in Nat
      BY Constants DEF LogInv
    <3> QED BY <2>2, <3>2, <3>3, BackfilledTyped DEF Redated
  <2> QED BY <1>5, <2>1, <2>2
<1>7. Current(t)'
  <2>1. CASE Return(t) /\ UNCHANGED writes
    <3>1. pc'[t] = "call" /\ writes'[t] = <<>>
      BY <1>3, <2>1, Returned
    <3> QED BY <3>1 DEF Current, Wipe
  <2>2. CASE /\ writes' = [writes EXCEPT ![t] = SaveAllEntries]
             /\ pc' = [pc EXCEPT ![t] = "write"]
    <3>1. pc'[t] = "write" /\ writes'[t] = SaveAllEntries
      BY <2>2 DEF Typed
    <3>2. 1 \in DOMAIN Wipe /\ Wipe[1] = <<"clear">>
      BY DEF Wipe
    <3>3. writes'[t] # Wipe
      BY <3>1, <3>2, SaveAllKeys
    <3> QED BY <3>1, <3>3 DEF Current
  <2> QED BY <1>5, <2>1, <2>2
<1>8. \A s \in Slots :
        \/ nvs'.log[s] = ring'[s] \/ Owes(t, <<"log", s>>)'
        \/ nvs.log[s] # ring[s] /\ ~Owes(t, <<"log", s>>)
  BY <1>2, <1>4, <1>6
<1>9. \A s \in Slots :
        \/ nvs'.log[s].id = ring'[s].id \/ (Call(t)' # "sync" /\ Owes(t, <<"log", s>>)')
        \/ nvs.log[s].id # ring[s].id /\ ~(Call(t) # "sync" /\ Owes(t, <<"log", s>>))
  BY <1>2, <1>4, <1>6
<1>10. Sees(t)
  BY <1>2, <1>4, <1>7, <1>8, <1>9 DEF Sees
<1> QED BY <1>1, <1>10, SavedBy

LEMMA ClearSaved ==
  ASSUME Typed, TaskInv, LogInv, SavedInv, NEW t \in Tasks, Clear(t)
  PROVE  SavedInv'
<1>1. Moves(t)
  BY ClearTask
<1>2. /\ head' = 0 /\ count' = 0 /\ ring' = [s \in Slots |-> Blank] /\ told' = <<>>
      /\ writes' = [writes EXCEPT ![t] = Wipe] /\ pc' = [pc EXCEPT ![t] = "write"]
      /\ UNCHANGED todo
  BY DEF Clear, Wipe
<1>3. pc'[t] = "write" /\ writes'[t] = Wipe
  BY <1>2 DEF Typed
<1>4. Call(t)' # "sync"
  <2>1. Call(t) \in {"clear"}
    BY Zenon DEF Clear, Runs
  <2> QED BY <1>2, <2>1 DEF Call
<1>5. \A k : Owes(t, k)'
  BY <1>3 DEF Owes
<1>6. Current(t)'
  BY <1>2, <1>3 DEF Current
<1>7. Sees(t)
  BY <1>4, <1>5, <1>6 DEF Sees
<1> QED BY <1>1, <1>7, SavedBy

\* A key that is written is no longer owed; the others are, while the call lasts.
LEMMA OwesOn ==
  ASSUME Typed, TaskInv, NEW t \in Tasks, Write(t)
  PROVE  /\ Head(writes[t]) = <<"clear">> => writes[t] = Wipe
         /\ writes'[t] # Wipe
         /\ Head(writes[t]) # <<"clear">> =>
              \A k : Owes(t, k) /\ k # Head(writes[t]) => Owes(t, k)' /\ Call(t)' = Call(t)
<1>1. /\ writes[t] \in Seq(Keys) /\ writes[t] # <<>> /\ pc[t] \in {"write", "held"}
      /\ writes'[t] = Tail(writes[t])
      /\ Tail(writes[t]) # <<>> => Call(t)' = Call(t)
  BY WriteTask
<1>2. \/ writes[t] = Wipe
      \/ \A i \in DOMAIN writes[t] : writes[t][i] # <<"clear">>
  BY DEF TaskInv, Task
<1>3. Head(writes[t]) = writes[t][1] /\ 1 \in DOMAIN writes[t]
  BY <1>1, KeysLeft
<1>4. Wipe[1] = <<"clear">> /\ 1 \in DOMAIN Wipe /\ Tail(Wipe) = <<>> /\ Wipe # <<>>
  BY DEF Wipe
<1>5. Tail(writes[t]) # Wipe
  <2>1. CASE writes[t] = Wipe
    BY <1>4, <2>1
  <2>2. CASE \A i \in DOMAIN writes[t] : writes[t][i] # <<"clear">>
    <3> SUFFICES ASSUME Tail(writes[t]) = Wipe PROVE FALSE
      OBVIOUS
    <3>1. 1 + 1 \in DOMAIN writes[t] /\ Tail(writes[t])[1] = writes[t][1 + 1]
      BY <1>1, <1>4, KeysLeft
    <3> QED BY <1>4, <2>2, <3>1
  <2> QED BY <1>2, <2>1, <2>2
<1>6. ASSUME Head(writes[t]) # <<"clear">>, NEW k, Owes(t, k), k # Head(writes[t])
      PROVE  Owes(t, k)' /\ Call(t)' = Call(t)
  <2>1. writes[t] # Wipe
    BY <1>3, <1>4, <1>6
  <2>2. PICK i \in DOMAIN writes[t] : writes[t][i] = k
    BY <1>1, <1>6, <2>1 DEF Owes
  <2>3. i - 1 \in DOMAIN Tail(writes[t]) /\ Tail(writes[t])[i - 1] = k
    BY <1>1, <1>3, <1>6, <2>2, KeysLeft
  <2>4. Tail(writes[t]) # <<>>
    BY <2>3
  <2> QED BY <1>1, <2>3, <2>4 DEF Owes
<1> QED BY <1>1, <1>2, <1>3, <1>5, <1>6

LEMMA WriteSaved ==
  ASSUME Typed, TaskInv, LogInv, SavedInv, NEW t \in Tasks, Write(t)
  PROVE  SavedInv'
<1>1. Moves(t) /\ pc[t] \in {"write", "held"} /\ pc'[t] \in {"write", "call"}
  BY WriteTask
<1>2. UNCHANGED <<head, count, ring>>
  BY Zenon DEF Write, logVars
<1>3. SUFFICES ASSUME ~raced PROVE Sees(t)
  BY <1>1, SavedBy
<1>4. Current(t)
  BY <1>3 DEF SavedInv
<1>5. Current(t)'
  BY <1>1, OwesOn DEF Current
<1>6. CASE Head(writes[t]) = <<"clear">>
  <2>1. writes[t] = Wipe
    BY <1>6, OwesOn
  <2>2. head = 0 /\ count = 0 /\ ring = [s \in Slots |-> Blank]
    BY <1>4, <2>1 DEF Current
  <2>3. nvs'.head = head' /\ nvs'.count = count' /\ \A s \in Slots : nvs'.log[s] = ring'[s]
    BY <1>2, <1>6, <2>2, Wrote, KeysDiffer
  <2> QED BY <1>5, <2>3 DEF Sees
<1>7. CASE Head(writes[t]) # <<"clear">>
  <2>1. \A k : Owes(t, k) /\ k # Head(writes[t]) => Owes(t, k)' /\ Call(t)' = Call(t)
    BY <1>7, OwesOn
  <2>2. \/ nvs'.head = head' \/ (Call(t)' # "sync" /\ Owes(t, <<"head">>)')
        \/ nvs.head # head /\ ~(Call(t) # "sync" /\ Owes(t, <<"head">>))
    <3>1. CASE Head(writes[t]) = <<"head">>
      <4>1. nvs'.head = arg[t] /\ pc[t] = "held"
        BY <3>1, Wrote DEF Header
      <4> QED BY <1>2, <1>4, <3>1, <4>1 DEF Current
    <3>2. CASE Head(writes[t]) # <<"head">>
      <4>1. nvs'.head = nvs.head
        BY <1>7, <3>2, Wrote
      <4> QED BY <1>2, <2>1, <3>2, <4>1
    <3> QED BY <3>1, <3>2
  <2>3. \/ nvs'.count = count' \/ (Call(t)' # "sync" /\ Owes(t, <<"count">>)')
        \/ nvs.count # count /\ ~(Call(t) # "sync" /\ Owes(t, <<"count">>))
    <3>1. CASE Head(writes[t]) = <<"count">>
      <4>1. nvs'.count = arg[t] /\ pc[t] = "held"
        BY <3>1, Wrote DEF Header
      <4> QED BY <1>2, <1>4, <3>1, <4>1, KeysDiffer DEF Current
    <3>2. CASE Head(writes[t]) # <<"count">>
      <4>1. nvs'.count = nvs.count
        BY <1>7, <3>2, Wrote
      <4> QED BY <1>2, <2>1, <3>2, <4>1
    <3> QED BY <3>1, <3>2
  <2>4. ASSUME NEW s \in Slots
        PROVE  \/ nvs'.log[s] = ring'[s]
               \/ /\ nvs'.log[s] = nvs.log[s] /\ ring'[s] = ring[s]
                  /\ Owes(t, <<"log", s>>) => Owes(t, <<"log", s>>)' /\ Call(t)' = Call(t)
    <3>1. CASE Head(writes[t]) = <<"log", s>>
      BY <1>2, <3>1, Wrote
    <3>2. CASE Head(writes[t]) # <<"log", s>>
      <4>1. nvs'.log[s] = nvs.log[s]
        BY <1>7, <3>2, Wrote
      <4> QED BY <1>2, <2>1, <3>2, <4>1
    <3> QED BY <3>1, <3>2
  <2>5. \A s \in Slots :
          \/ nvs'.log[s] = ring'[s] \/ Owes(t, <<"log", s>>)'
          \/ nvs.log[s] # ring[s] /\ ~Owes(t, <<"log", s>>)
    BY <2>4
  <2>6. \A s \in Slots :
          \/ nvs'.log[s].id = ring'[s].id \/ (Call(t)' # "sync" /\ Owes(t, <<"log", s>>)')
          \/ nvs.log[s].id # ring[s].id /\ ~(Call(t) # "sync" /\ Owes(t, <<"log", s>>))
    BY <2>4
  <2> QED BY <1>5, <2>2, <2>3, <2>5, <2>6 DEF Sees
<1> QED BY <1>6, <1>7

LEMMA SavedStep == Typed /\ TaskInv /\ LogInv /\ SavedInv /\ [Next]_vars => SavedInv'
<1> SUFFICES ASSUME Typed, TaskInv, LogInv, SavedInv, [Next]_vars PROVE SavedInv'
  OBVIOUS
<1>1. ASSUME UNCHANGED <<logVars, nvs, taskVars, ghostVars>> PROVE SavedInv'
  <2>1. UNCHANGED <<head, count, ring, nvs, todo, pc, writes, arg, entry, told, raced>>
    BY <1>1 DEF logVars, taskVars, ghostVars
  <2>2. \A t \in Tasks : /\ Current(t)' = Current(t) /\ Call(t)' = Call(t)
                        /\ \A k : Owes(t, k)' <=> Owes(t, k)
    BY <2>1 DEF Current, Owes, Call, Before
  <2>3. \A k : (Owed(k)' <=> Owed(k)) /\ (OwedAnew(k)' <=> OwedAnew(k))
    BY <2>2 DEF Owed, OwedAnew
  <2> QED BY <2>1, <2>2, <2>3 DEF SavedInv
<1>2. CASE UNCHANGED vars
  BY <1>1, <1>2 DEF vars
<1>3. CASE Tick
  BY <1>1, <1>3 DEF Tick
<1>4. CASE Boot
  <2>1. /\ head' = nvs.head /\ count' = nvs.count /\ ring' = nvs.log /\ UNCHANGED nvs
        /\ pc' = [t \in Tasks |-> "call"] /\ writes' = [t \in Tasks |-> <<>>]
    BY <1>4 DEF Boot
  <2>2. \A t \in Tasks : Current(t)'
    BY <2>1 DEF Current, Wipe
  <2> QED BY <2>1, <2>2 DEF SavedInv
<1>5. ASSUME NEW t \in Tasks, NEW p \in LoopPrograms \cup BlePrograms, Start(t, p)
      PROVE  SavedInv'
  <2> SUFFICES ASSUME ~raced' PROVE SavedInv'
    BY DEF SavedInv
  <2>1. raced \in BOOLEAN
    BY DEF LogInv
  <2>2. /\ UNCHANGED <<head, count, ring, nvs, writes, arg, entry, told>>
        /\ todo' = [todo EXCEPT ![t] = p]
    BY <1>5 DEF Start, logVars
  <2>3. todo[t] = <<>> /\ pc[t] = "call" /\ ~raced
    BY <1>5, <2>1, StartTask
  <2>4. pc' = pc
    <3>1. pc' = pc \/ (t = "ble" /\ pc["loop"] = "stamped")
      BY <1>5, <2>1, StartTask
    <3>2. t = "ble" => ~InWindow
      BY <1>5, <2>1, StartTask
    <3> QED BY <3>1, <3>2 DEF InWindow
  <2>5. writes[t] = <<>>
    BY <2>3 DEF TaskInv, Task
  <2>6. \A k : ~Owes(t, k)
    BY <2>3, <2>5, OwesNothing
  <2>7. \A u \in Tasks : Current(u)' = Current(u) /\ \A k : Owes(u, k)' <=> Owes(u, k)
    BY <2>2, <2>4 DEF Current, Owes, Before
  <2>8. \A u \in Tasks \ {t} : Call(u)' = Call(u)
    BY <2>2 DEF Call, Typed
  <2>9. \A k : (Owed(k) => Owed(k)') /\ (OwedAnew(k) => OwedAnew(k)')
    BY <2>6, <2>7, <2>8 DEF Owed, OwedAnew
  <2>10. \A u \in Tasks : Current(u)'
    BY <2>3, <2>7 DEF SavedInv
  <2> QED BY <2>2, <2>3, <2>9, <2>10 DEF SavedInv
<1> QED BY <1>2, <1>3, <1>4, <1>5, StampSaved, FillSaved, AdvanceSaved, CallSaveSaved,
           SyncSaved, ClearSaved, ReadArgSaved, WriteSaved, Cases, Zenon

LEMMA SavedInit == Init => SavedInv
<1> SUFFICES ASSUME Init PROVE SavedInv
  OBVIOUS
<1>1. /\ head = 0 /\ count = 0 /\ ring = [s \in Slots |-> Blank] /\ nvs = EmptyNvs
      /\ pc = [t \in Tasks |-> "call"] /\ writes = [t \in Tasks |-> <<>>]
  BY DEF Init
<1>2. \A t \in Tasks : Current(t)
  BY <1>1 DEF Current, Wipe
<1> QED BY <1>1, <1>2 DEF SavedInv, EmptyNvs

----------------------------------------------------------------------------
\* The order of the entries, in RAM.

\* The places of a ring whose head has moved on.
LEMMA PlaceOn ==
  ASSUME NEW h \in Slots, NEW g, g = IF h = LOG_MAX_ENTRIES - 1 THEN 0 ELSE h + 1
  PROVE  /\ g \in Slots
         /\ \A n \in 0..LOG_MAX_ENTRIES - 1 :
              /\ \A i \in 0..n - 1 : Place(g, n + 1, i) = Place(h, n, i) /\ Place(h, n, i) # h
              /\ Place(g, n + 1, n) = h
         /\ \A i \in 0..LOG_MAX_ENTRIES - 2 :
              /\ Place(g, LOG_MAX_ENTRIES, i) = Place(h, LOG_MAX_ENTRIES, i + 1)
              /\ Place(h, LOG_MAX_ENTRIES, i + 1) # h
         /\ Place(g, LOG_MAX_ENTRIES, LOG_MAX_ENTRIES - 1) = h
<1> DEFINE L == LOG_MAX_ENTRIES
           At(k, n, i) == IF k - n + i < 0 THEN k - n + i + L ELSE k - n + i
<1>1. h \in 0..L - 1 /\ g \in 0..L - 1 /\ L \in Nat \ {0} /\ g \in Slots
  BY Constants DEF Slots
<1>2. \A n \in 0..L : \A i \in 0..n - 1 : Place(g, n, i) = At(g, n, i) /\ Place(h, n, i) = At(h, n, i)
  BY <1>1, PlaceOf
<1>3. ASSUME NEW n \in 0..L - 1
      PROVE  /\ \A i \in 0..n - 1 : Place(g, n + 1, i) = Place(h, n, i) /\ Place(h, n, i) # h
             /\ Place(g, n + 1, n) = h
  <2>1. n + 1 \in 0..L /\ n \in 0..L /\ n \in 0..(n + 1) - 1 /\ 0..n - 1 \subseteq 0..(n + 1) - 1
    BY <1>1
  <2>2. Place(g, n + 1, n) = At(g, n + 1, n)
    BY <1>2, <2>1
  <2>3. \A i \in 0..n - 1 : Place(g, n + 1, i) = At(g, n + 1, i) /\ Place(h, n, i) = At(h, n, i)
    BY <1>2, <2>1
  <2>4. \A i \in 0..n - 1 : At(g, n + 1, i) = At(h, n, i) /\ At(h, n, i) # h
    BY <1>1
  <2>5. At(g, n + 1, n) = h
    BY <1>1
  <2> QED BY <2>2, <2>3, <2>4, <2>5
<1>4. ASSUME NEW i \in 0..L - 2
      PROVE  Place(g, L, i) = Place(h, L, i + 1) /\ Place(h, L, i + 1) # h
  <2>1. L \in 0..L /\ i \in 0..L - 1 /\ i + 1 \in 0..L - 1
    BY <1>1
  <2>2. Place(g, L, i) = At(g, L, i) /\ Place(h, L, i + 1) = At(h, L, i + 1)
    BY <1>2, <2>1
  <2>3. At(g, L, i) = At(h, L, i + 1) /\ At(h, L, i + 1) # h
    BY <1>1
  <2> QED BY <2>2, <2>3
<1>5. Place(g, L, L - 1) = h
  <2>1. L \in 0..L /\ L - 1 \in 0..L - 1
    BY <1>1
  <2>2. Place(g, L, L - 1) = At(g, L, L - 1)
    BY <1>2, <2>1
  <2>3. At(g, L, L - 1) = h
    BY <1>1
  <2> QED BY <2>2, <2>3
<1> QED BY <1>1, <1>3, <1>4, <1>5

\* The newest entries, with one more.
LEMMA NewestOf ==
  ASSUME NEW s \in Seq(0..MaxEvents), Len(s) <= LOG_MAX_ENTRIES, NEW x \in 0..MaxEvents
  PROVE  LET n == Newest(Append(s, x)) IN
         /\ n \in Seq(0..MaxEvents)
         /\ IF Len(s) = LOG_MAX_ENTRIES
            THEN /\ Len(n) = LOG_MAX_ENTRIES /\ n[LOG_MAX_ENTRIES] = x
                 /\ \A i \in 1..LOG_MAX_ENTRIES - 1 : n[i] = s[i + 1]
            ELSE /\ Len(n) = Len(s) + 1 /\ n[Len(s) + 1] = x
                 /\ \A i \in 1..Len(s) : n[i] = s[i]
<1> DEFINE L == LOG_MAX_ENTRIES
           a == Append(s, x)
<1>1. /\ a \in Seq(0..MaxEvents) /\ Len(a) = Len(s) + 1 /\ a[Len(s) + 1] = x
      /\ \A i \in 1..Len(s) : a[i] = s[i]
  BY AppendProperties
<1>2. L \in Nat \ {0} /\ Len(s) \in 0..L
  BY Constants
<1> HIDE DEF a
<1>3. CASE Len(s) = L
  <2>1. Newest(a) = SubSeq(a, 2, L + 1)
    BY <1>1, <1>2, <1>3 DEF Newest
  <2>2. 2 \in Int /\ L + 1 \in Int /\ \A i \in 2..L + 1 : a[i] \in 0..MaxEvents
    <3>1. 2 \in Int /\ L + 1 \in Int /\ Len(a) = L + 1
      BY <1>1, <1>2, <1>3
    <3>2. \A i \in 1..Len(a) : a[i] \in 0..MaxEvents
      BY <1>1, ElementOfSeq
    <3>3. \A i \in 2..L + 1 : i \in 1..L + 1
      BY <1>2
    <3> QED BY <3>1, <3>2, <3>3
  <2>3. /\ SubSeq(a, 2, L + 1) \in Seq(0..MaxEvents)
        /\ Len(SubSeq(a, 2, L + 1)) = L
        /\ \A i \in 1..L : SubSeq(a, 2, L + 1)[i] = a[i + 1]
    <3> DEFINE n == L + 1
    <3> HIDE DEF n
    <3>1. 2 \in Int /\ n \in Int /\ \A i \in 2..n : a[i] \in 0..MaxEvents
      BY <2>2 DEF n
    <3>2. /\ SubSeq(a, 2, n) \in Seq(0..MaxEvents)
          /\ Len(SubSeq(a, 2, n)) = IF 2 <= n THEN n - 2 + 1 ELSE 0
          /\ \A i \in 1..n - 2 + 1 : SubSeq(a, 2, n)[i] = a[2 + i - 1]
      BY <3>1, SubSeqProperties
    <3>3. n - 2 + 1 = L /\ 2 <= n /\ \A i \in 1..L : 2 + i - 1 = i + 1
      BY <1>2 DEF n
    <3> QED BY <3>2, <3>3 DEF n
  <2>4. \A i \in 1..L - 1 : a[i + 1] = s[i + 1]
    BY <1>1, <1>2, <1>3
  <2> QED BY <1>1, <1>2, <1>3, <2>1, <2>3, <2>4 DEF a
<1>4. CASE Len(s) # L
  <2>1. Newest(a) = a
    BY <1>1, <1>2, <1>4 DEF Newest
  <2> QED BY <1>1, <1>4, <2>1 DEF a
<1> QED BY <1>3, <1>4

\* A step that moves no entry.
LEMMA OrderStill ==
  ASSUME OrderInv, UNCHANGED <<head, count, told>>, \A s \in Slots : ring'[s].id = ring[s].id,
         ~raced' => ~raced, ~torn' => ~torn,
         \A u \in Tasks : pc[u] = "filled" => pc'[u] = "filled",
         head \in Slots, count \in 0..LOG_MAX_ENTRIES
  PROVE  OrderInv'
<1>1. told' \in Seq(0..MaxEvents) /\ Len(told') <= LOG_MAX_ENTRIES
  BY DEF OrderInv
<1>2. SUFFICES ASSUME ~raced', ~torn'
               PROVE  /\ Len(told') = count'
                      /\ \A i \in 1..count :
                           \/ ring'[Place(head, count, i - 1)].id = told[i]
                           \/ /\ Place(head, count, i - 1) = head
                              /\ \E t \in Tasks : pc'[t] = "filled"
  BY <1>1 DEF OrderInv, Place
<1>3. ~raced /\ ~torn
  BY <1>2
<1>4. \A i \in 1..count : Place(head, count, i - 1) \in Slots
  <2>1. \A i \in 1..count : i - 1 \in 0..count - 1
    OBVIOUS
  <2> QED BY <2>1, PlaceOf
<1> QED BY <1>3, <1>4 DEF OrderInv

LEMMA FillOrder ==
  ASSUME Typed, TaskInv, LogInv, SavedInv, OrderInv, NEW t \in Tasks, Fill(t)
  PROVE  OrderInv'
<1>1. /\ UNCHANGED <<head, count, told, raced, torn>> /\ pc' = [pc EXCEPT ![t] = "filled"]
      /\ pc[t] \in {"stamped", "overtaken"}
  BY DEF Fill, ghostVars, Runs
<1>2. pc'[t] = "filled"
  BY <1>1 DEF Typed
<1>3. told' \in Seq(0..MaxEvents) /\ Len(told') <= LOG_MAX_ENTRIES
  BY <1>1 DEF OrderInv
<1>4. SUFFICES ASSUME ~raced, ~torn
               PROVE  /\ Len(told') = count'
                      /\ \A i \in 1..count :
                           \/ ring'[Place(head, count, i - 1)].id = told[i]
                           \/ Place(head, count, i - 1) = head
  BY <1>1, <1>2, <1>3 DEF OrderInv, Place
<1>5. entry[t] = head
  BY <1>1, <1>4 DEF SavedInv, Current
<1>6. ASSUME NEW i \in 1..count, Place(head, count, i - 1) # head
      PROVE  ring'[Place(head, count, i - 1)].id = told[i]
  <2>1. i - 1 \in 0..count - 1
    BY DEF LogInv
  <2>2. Place(head, count, i - 1) \in Slots
    BY <2>1, PlaceOf DEF LogInv
  <2>3. ring'[Place(head, count, i - 1)] = ring[Place(head, count, i - 1)]
    BY <1>5, <1>6, <2>2, Filled
  <2> QED BY <1>4, <1>6, <2>3 DEF OrderInv
<1> QED BY <1>1, <1>4, <1>6 DEF OrderInv

LEMMA AdvanceOrder ==
  ASSUME Typed, TaskInv, LogInv, OrderInv, NEW t \in Tasks, Advance(t)
  PROVE  OrderInv'
<1> DEFINE L == LOG_MAX_ENTRIES
           x == ring[head].id
<1>1. /\ head' = (head + 1) % L /\ count' = NextCount /\ told' = Newest(Append(told, x))
      /\ UNCHANGED <<ring, raced, torn>>
  BY DEF Advance
<1>2. /\ head \in Slots /\ count \in 0..L /\ x \in 0..MaxEvents /\ L \in Nat \ {0}
      /\ told \in Seq(0..MaxEvents) /\ Len(told) <= L
  BY Constants DEF LogInv, Entry, OrderInv
<1>3. head' = IF head = L - 1 THEN 0 ELSE head + 1
  BY <1>1, <1>2, Onward
<1>4. told' \in Seq(0..MaxEvents) /\ Len(told') <= L
  BY <1>1, <1>2, NewestOf
<1>5. SUFFICES ASSUME ~raced, ~torn
               PROVE  /\ Len(told') = count'
                      /\ \A i \in 1..count' : ring[Place(head', count', i - 1)].id = told'[i]
  BY <1>1, <1>4 DEF OrderInv, Place
<1>6. Len(told) = count
  BY <1>5 DEF OrderInv
<1>7. \A i \in 1..count : Place(head, count, i - 1) # head
        => ring[Place(head, count, i - 1)].id = told[i]
  BY <1>5 DEF OrderInv
<1> HIDE DEF x
<1>8. CASE count = L
  <2>1. count' = L /\ Len(told') = L /\ told'[L] = x
        /\ \A i \in 1..L - 1 : told'[i] = told[i + 1]
    <3>1. count' = L
      BY <1>1, <1>2, <1>8 DEF NextCount
    <3>2. Len(told) = L
      BY <1>6, <1>8
    <3>3. LET n == Newest(Append(told, x)) IN
          Len(n) = L /\ n[L] = x /\ \A i \in 1..L - 1 : n[i] = told[i + 1]
      BY <1>2, <3>2, NewestOf
    <3> QED BY <1>1, <3>1, <3>3
  <2>2. ASSUME NEW i \in 1..L - 1 PROVE ring[Place(head', L, i - 1)].id = told'[i]
    <3>1. i - 1 \in 0..L - 2 /\ (i - 1) + 1 = i /\ i + 1 \in 1..L /\ (i + 1) - 1 = i
      BY <1>2
    <3>2. Place(head', L, i - 1) = Place(head, L, i) /\ Place(head, L, i) # head
      BY <1>2, <1>3, <3>1, PlaceOn
    <3>3. ring[Place(head, L, i)].id = told[i + 1]
      BY <1>7, <1>8, <3>1, <3>2
    <3> QED BY <2>1, <3>2, <3>3
  <2>3. ring[Place(head', L, L - 1)].id = told'[L]
    BY <1>2, <1>3, <2>1, PlaceOn DEF x
  <2> QED BY <1>2, <2>1, <2>2, <2>3
<1>9. CASE count # L
  <2>1. count' = count + 1 /\ Len(told') = count + 1 /\ told'[count + 1] = x
        /\ \A i \in 1..count : told'[i] = told[i]
    BY <1>1, <1>2, <1>6, <1>9, NewestOf DEF NextCount
  <2>2. count \in 0..L - 1
    BY <1>2, <1>9
  <2>3. ASSUME NEW i \in 1..count PROVE ring[Place(head', count + 1, i - 1)].id = told'[i]
    <3>1. i - 1 \in 0..count - 1
      BY <2>2
    <3>2. Place(head', count + 1, i - 1) = Place(head, count, i - 1)
          /\ Place(head, count, i - 1) # head
      BY <1>2, <1>3, <2>2, <3>1, PlaceOn
    <3> QED BY <1>7, <2>1, <3>2
  <2>4. ring[Place(head', count + 1, count)].id = told'[count + 1]
    BY <1>2, <1>3, <2>1, <2>2, PlaceOn DEF x
  <2>5. \A i \in 1..count + 1 : i \in 1..count \/ (i = count + 1 /\ i - 1 = count)
    BY <2>2
  <2> QED BY <2>1, <2>3, <2>4, <2>5
<1> QED BY <1>8, <1>9

\* The last key of a call is written, or another one.
LEMMA WriteEnds ==
  ASSUME NEW t \in Tasks, Write(t)
  PROVE  /\ UNCHANGED <<head, count, ring, told, raced>>
         /\ \/ Len(writes[t]) > 1 /\ UNCHANGED <<kept, torn>>
            \/ /\ ~(Len(writes[t]) > 1) /\ kept' = told
               /\ torn' = (torn /\ ~(Call(t) = "clear" /\ ~raced))
<1>1. UNCHANGED <<head, count, ring, told, raced>>
  BY Zenon DEF Write, logVars
<1>2. \/ Len(writes[t]) > 1 /\ UNCHANGED <<kept, torn>>
      \/ /\ ~(Len(writes[t]) > 1) /\ kept' = told
         /\ torn' = (torn /\ ~(Call(t) = "clear" /\ ~raced))
  BY Zenon DEF Write
<1> QED BY <1>1, <1>2

\* A clear is not under way but with the log emptied.
LEMMA Clearing ==
  ASSUME TaskInv, SavedInv, ~raced, NEW t \in Tasks, Call(t) = "clear", writes[t] # <<>>
  PROVE  head = 0 /\ count = 0 /\ told = <<>>
<1>1. writes[t] = Wipe
  BY DEF TaskInv, Task
<1> QED BY <1>1 DEF SavedInv, Current

LEMMA WriteOrder ==
  ASSUME Typed, TaskInv, LogInv, SavedInv, OrderInv, NEW t \in Tasks, Write(t)
  PROVE  OrderInv'
<1>1. Moves(t) /\ pc[t] \in {"write", "held"} /\ writes[t] # <<>>
  BY WriteTask
<1>2. UNCHANGED <<head, count, ring, told, raced>>
  BY WriteEnds
<1>3. \A u \in Tasks : pc[u] = "filled" => pc'[u] = "filled"
  BY <1>1, Alone
<1>4. head \in Slots /\ count \in 0..LOG_MAX_ENTRIES
  BY DEF LogInv
<1>5. CASE ~torn' => ~torn
  BY <1>2, <1>3, <1>4, <1>5, OrderStill
<1>6. CASE Call(t) = "clear" /\ ~raced
  <2>1. count = 0 /\ told = <<>>
    BY <1>1, <1>6, Clearing
  <2> QED BY <1>2, <2>1, Constants DEF OrderInv
<1>7. (~torn' => ~torn) \/ (Call(t) = "clear" /\ ~raced)
  <2>1. UNCHANGED torn \/ torn' = (torn /\ ~(Call(t) = "clear" /\ ~raced))
    BY WriteEnds
  <2> QED BY <2>1, Zenon
<1> QED BY <1>5, <1>6, <1>7, Zenon

LEMMA OrderStep ==
  Typed /\ TaskInv /\ LogInv /\ SavedInv /\ OrderInv /\ KeptInv /\ [Next]_vars => OrderInv'
<1> SUFFICES ASSUME Typed, TaskInv, LogInv, SavedInv, OrderInv, KeptInv, [Next]_vars
             PROVE  OrderInv'
  OBVIOUS
<1> USE DEF logVars, ghostVars, taskVars
<1>1. head \in Slots /\ count \in 0..LOG_MAX_ENTRIES /\ raced \in BOOLEAN
  BY DEF LogInv
<1>2. CASE UNCHANGED vars \/ Tick
  <2>1. UNCHANGED <<head, count, ring, told, raced, torn, pc>>
    BY <1>2 DEF vars, Tick
  <2> QED BY <1>1, <2>1, OrderStill
<1>3. CASE Boot
  <2>1. /\ head' = nvs.head /\ count' = nvs.count /\ ring' = nvs.log /\ told' = kept
        /\ torn' = (torn \/ Saving)
    BY <1>3 DEF Boot
  <2>2. ~torn' => ~torn /\ ~Saving
    BY <2>1, Zenon
  <2> QED BY <2>1, <2>2 DEF KeptInv, OrderInv, Place
<1>4. ASSUME NEW t \in Tasks, NEW p \in LoopPrograms \cup BlePrograms, Start(t, p)
      PROVE  OrderInv'
  <2>1. UNCHANGED <<head, count, ring, told, torn>>
    BY <1>4 DEF Start
  <2>2. ~raced' => ~raced
    BY <1>1, <1>4, StartTask
  <2>3. pc' = pc \/ (pc["loop"] = "stamped" /\ pc' = [pc EXCEPT !["loop"] = "overtaken"])
    BY <1>1, <1>4, StartTask
  <2>4. \A u \in Tasks : pc[u] = "filled" => pc'[u] = "filled"
    BY <2>3 DEF Typed
  <2> QED BY <1>1, <2>1, <2>2, <2>4, OrderStill
<1>5. ASSUME NEW t \in Tasks, Moves(t), UNCHANGED <<head, count, told, torn>>,
             \A s \in Slots : ring'[s].id = ring[s].id, pc[t] # "filled"
      PROVE  OrderInv'
  <2>1. \A u \in Tasks : pc[u] = "filled" => pc'[u] = "filled"
    BY <1>5, Alone
  <2>2. raced' = raced
    BY <1>5 DEF Moves
  <2> QED BY <1>1, <1>5, <2>1, <2>2, OrderStill
<1>6. ASSUME NEW t \in Tasks, StampEntry(t) PROVE OrderInv'
  <2>1. UNCHANGED <<head, count, told, torn>> /\ pc[t] # "filled"
    BY <1>6 DEF StampEntry, Runs
  <2> QED BY <1>1, <1>5, <1>6, <2>1, StampTask, Stamped
<1>7. ASSUME NEW t \in Tasks, CallSave(t) PROVE OrderInv'
  <2>1. UNCHANGED <<head, count, ring, told, torn>> /\ pc[t] # "filled"
    BY <1>7 DEF CallSave, Runs
  <2> QED BY <1>1, <1>5, <1>7, <2>1, CallSaveTask
<1>8. ASSUME NEW t \in Tasks, ReadArg(t) PROVE OrderInv'
  <2>1. UNCHANGED <<head, count, ring, told, torn>> /\ pc[t] # "filled"
    BY <1>8 DEF ReadArg, Runs
  <2> QED BY <1>1, <1>5, <1>8, <2>1, ReadArgTask
<1>9. ASSUME NEW t \in Tasks, SetSystemTime(t) PROVE OrderInv'
  <2>1. UNCHANGED <<head, count, told, torn>>
    BY <1>9, Synced
  <2>2. pc[t] = "call"
    BY <1>9, Zenon DEF SetSystemTime, Runs
  <2>3. \A s \in Slots : ring'[s].id = ring[s].id
    <3>1. Epoch + now \in Nat
      BY Constants DEF LogInv
    <3>2. ring' = ring \/ ring' = Backfilled(Epoch + now)
      BY <1>9, Synced
    <3> QED BY <3>1, <3>2, BackfilledTyped DEF Redated
  <2> QED BY <1>5, <1>9, <2>1, <2>2, <2>3, SyncTask
<1>10. ASSUME NEW t \in Tasks, Clear(t) PROVE OrderInv'
  <2>1. count' = 0 /\ told' = <<>>
    BY <1>10 DEF Clear
  <2> QED BY <2>1, Constants DEF OrderInv
<1> QED BY <1>2, <1>3, <1>4, <1>6, <1>7, <1>8, <1>9, <1>10, FillOrder, AdvanceOrder,
           WriteOrder, Cases, Zenon

----------------------------------------------------------------------------
\* The order of the entries in NVS.

SavingOf(t) == Call(t) \in {"log", "boot"} /\ (writes[t] # <<>> \/ pc[t] = "counted")

LEMMA KeptStill ==
  ASSUME KeptInv, UNCHANGED <<kept, torn, nvs>>, ~Saving' => ~Saving
  PROVE  KeptInv'
BY DEF KeptInv, Place

LEMMA SavingStill ==
  ASSUME Typed, TaskInv, NEW t \in Tasks, Moves(t), SavingOf(t) => SavingOf(t)'
  PROVE  ~Saving' => ~Saving
<1>1. \A u \in Tasks \ {t} : SavingOf(u)' <=> SavingOf(u)
  BY Alone DEF SavingOf
<1>2. (Saving <=> raced \/ \E u \in Tasks : SavingOf(u)) /\ (Saving' <=> raced' \/ \E u \in Tasks : SavingOf(u)')
  BY DEF Saving, SavingOf
<1> QED BY <1>1, <1>2 DEF Moves

\* While a task moves, the other owes nothing new unless it is saving.
LEMMA Quiet ==
  ASSUME Typed, TaskInv, NEW t \in Tasks, Moves(t), ~raced,
         NEW u \in Tasks \ {t}, ~SavingOf(u), Call(u) # "sync"
  PROVE  \A k : ~Owes(u, k)
<1>1. pc[u] \in {"call", "write"} /\ writes[u] # Wipe
  BY Alone DEF Tasks, Wipe
<1>2. Task(u)
  BY DEF TaskInv
<1>3. CASE Call(u) \in {"log", "boot", "clear"}
  <2>1. writes[u] = <<>>
    BY <1>1, <1>2, <1>3 DEF Task, SavingOf
  <2> QED BY <1>1, <2>1 DEF Owes, Wipe
<1>4. CASE Call(u) \notin {"log", "boot", "clear"}
  <2>1. pc[u] = "call" /\ writes[u] = <<>>
    BY <1>1, <1>2, <1>4 DEF Task
  <2> QED BY <2>1, OwesNothing
<1> QED BY <1>3, <1>4

\* A sync writes what is there already.
LEMMA SyncWrites ==
  ASSUME Typed, TaskInv, LogInv, SavedInv, NEW t \in Tasks, Write(t), Call(t) = "sync", ~Saving
  PROVE  /\ nvs'.head = nvs.head /\ nvs'.count = nvs.count
         /\ \A s \in Slots : nvs'.log[s].id = nvs.log[s].id
<1>1. ~raced /\ \A u \in Tasks : ~SavingOf(u)
  BY DEF Saving, SavingOf
<1>2. \A k : ~OwedAnew(k)
  BY <1>1, Quiet, WriteTask DEF OwedAnew
<1>3. /\ nvs.head = head /\ nvs.count = count /\ Current(t)
      /\ \A s \in Slots : nvs.log[s].id = ring[s].id
  BY <1>1, <1>2 DEF SavedInv
<1>4. Head(writes[t]) # <<"clear">>
  <2>1. writes[t] # Wipe
    BY KeysDiffer, WriteTask DEF TaskInv, Task, Wipe
  <2> QED BY <2>1, OwesOn
<1>5. nvs'.head = nvs.head
  <2>1. Head(writes[t]) = <<"head">> => arg[t] = head
    BY <1>3, Wrote DEF Current, Header
  <2> QED BY <1>3, <1>4, <2>1, Wrote
<1>6. nvs'.count = nvs.count
  <2>1. Head(writes[t]) = <<"count">> => arg[t] = count
    BY <1>3, Wrote, KeysDiffer DEF Current, Header
  <2> QED BY <1>3, <1>4, <2>1, Wrote
<1>7. ASSUME NEW s \in Slots PROVE nvs'.log[s].id = nvs.log[s].id
  <2>1. nvs'.log[s] = ring[s] \/ nvs'.log[s] = nvs.log[s]
    BY <1>4, Wrote
  <2> QED BY <1>3, <2>1
<1> QED BY <1>5, <1>6, <1>7

LEMMA WriteKept ==
  ASSUME Typed, TaskInv, LogInv, SavedInv, OrderInv, KeptInv, NEW t \in Tasks, Write(t)
  PROVE  KeptInv'
<1>1. /\ Moves(t) /\ writes[t] \in Seq(Keys) /\ writes[t] # <<>>
      /\ writes'[t] = Tail(writes[t]) /\ pc'[t] \in {"write", "call"}
      /\ Tail(writes[t]) # <<>> => Call(t)' = Call(t)
      /\ Call(t) \in {"log", "boot", "sync", "clear"}
  BY WriteTask
<1>2. Len(writes[t]) > 1 <=> Tail(writes[t]) # <<>>
  BY <1>1, KeysLeft
<1>3. UNCHANGED <<head, count, ring, told, raced>>
  BY WriteEnds
<1>4. kept' \in Seq(0..MaxEvents) /\ Len(kept') <= LOG_MAX_ENTRIES
  BY WriteEnds DEF KeptInv, OrderInv
<1>5. SUFFICES ASSUME ~torn', ~Saving'
               PROVE  /\ Len(kept') = nvs'.count
                      /\ \A i \in 1..nvs'.count :
                           nvs'.log[Place(nvs'.head, nvs'.count, i - 1)].id = kept'[i]
  BY <1>4 DEF KeptInv, Place
<1>6. ~raced /\ \A u \in Tasks : ~SavingOf(u)'
  BY <1>3, <1>5 DEF Saving, SavingOf
<1>7. \A u \in Tasks \ {t} : ~SavingOf(u)
  BY <1>1, <1>6, Alone DEF SavingOf
<1>8. head \in Slots /\ count \in 0..LOG_MAX_ENTRIES /\ nvs.head \in Slots /\ nvs.count \in 0..LOG_MAX_ENTRIES
  BY DEF LogInv
<1>9. CASE Len(writes[t]) > 1
  <2>1. Call(t) = "sync"
    <3>1. writes'[t] # <<>> /\ Call(t)' = Call(t)
      BY <1>1, <1>2, <1>9
    <3>2. Call(t) \notin {"log", "boot"}
      BY <1>6, <3>1 DEF SavingOf
    <3>3. Call(t) = "clear" => Tail(writes[t]) = <<>>
      <4>1. Tail(Wipe) = <<>>
        BY DEF Wipe
      <4> QED BY <1>1, <4>1 DEF TaskInv, Task
    <3> QED BY <1>1, <1>2, <1>9, <3>2, <3>3
  <2>2. ~Saving
    BY <1>6, <1>7, <2>1 DEF Saving, SavingOf
  <2>3. UNCHANGED <<kept, torn>>
    BY <1>9, WriteEnds
  <2>4. /\ nvs'.head = nvs.head /\ nvs'.count = nvs.count
        /\ \A s \in Slots : nvs'.log[s].id = nvs.log[s].id
    BY <2>1, <2>2, SyncWrites
  <2>5. \A i \in 1..nvs.count : Place(nvs.head, nvs.count, i - 1) \in Slots
    <3>1. \A i \in 1..nvs.count : i - 1 \in 0..nvs.count - 1
      BY <1>8
    <3> QED BY <1>8, <3>1, PlaceOf
  <2>6. /\ Len(kept) = nvs.count
        /\ \A i \in 1..nvs.count : nvs.log[Place(nvs.head, nvs.count, i - 1)].id = kept[i]
    BY <1>5, <2>2, <2>3 DEF KeptInv
  <2> QED BY <2>3, <2>4, <2>5, <2>6
<1>10. CASE ~(Len(writes[t]) > 1)
  <2>1. kept' = told' /\ writes'[t] = <<>>
    BY <1>1, <1>2, <1>3, <1>10, WriteEnds
  <2>2. pc'[t] = "call"
    <3>1. Task(t)'
      BY WriteTask DEF TaskInv
    <3> QED BY <1>1, <2>1, <3>1 DEF Task
  <2>3. \A k : ~Owes(t, k)'
    BY <2>1, <2>2 DEF Owes, Wipe
  <2>4. ASSUME NEW u \in Tasks \ {t}
        PROVE  pc'[u] # "filled" /\ \A k : ~(Call(u)' # "sync" /\ Owes(u, k)')
    <3>1. Call(u)' = Call(u) /\ \A k : Owes(u, k)' <=> Owes(u, k)
      BY <1>1, <1>6, OtherOwes
    <3>2. Call(u) # "sync" => \A k : ~Owes(u, k)
      BY <1>1, <1>6, <1>7, Quiet
    <3>3. pc'[u] # "filled"
      BY <1>1, <1>6, Alone DEF Tasks
    <3> QED BY <3>1, <3>2, <3>3
  <2>5. \A k : ~OwedAnew(k)'
    BY <2>3, <2>4 DEF OwedAnew
  <2>6. nvs'.head = head' /\ nvs'.count = count' /\ \A s \in Slots : nvs'.log[s].id = ring'[s].id
    <3>1. SavedInv'
      BY WriteSaved
    <3> QED BY <1>3, <1>6, <2>5, <3>1 DEF SavedInv
  <2>7. OrderInv'
    BY WriteOrder
  <2>8. \A u \in Tasks : pc'[u] # "filled"
    BY <2>2, <2>4
  <2>9. /\ Len(told') = count
        /\ \A i \in 1..count : ring[Place(head, count, i - 1)].id = told'[i]
    BY <1>3, <1>5, <1>6, <2>7, <2>8 DEF OrderInv, Place
  <2>10. \A i \in 1..count : Place(head, count, i - 1) \in Slots
    <3>1. \A i \in 1..count : i - 1 \in 0..count - 1
      BY <1>8
    <3> QED BY <1>8, <3>1, PlaceOf
  <2> QED BY <1>3, <2>1, <2>6, <2>9, <2>10
<1> QED BY <1>9, <1>10

LEMMA KeptStep ==
  Typed /\ TaskInv /\ LogInv /\ SavedInv /\ OrderInv /\ KeptInv /\ [Next]_vars => KeptInv'
<1> SUFFICES ASSUME Typed, TaskInv, LogInv, SavedInv, OrderInv, KeptInv, [Next]_vars
             PROVE  KeptInv'
  OBVIOUS
<1> USE DEF logVars, ghostVars, taskVars
<1>1. head \in Slots /\ count \in 0..LOG_MAX_ENTRIES /\ raced \in BOOLEAN
  BY DEF LogInv
<1>2. CASE UNCHANGED vars \/ Tick
  <2>1. UNCHANGED <<kept, torn, nvs, raced, todo, pc, writes>>
    BY <1>2 DEF vars, Tick
  <2>2. Saving' = Saving
    BY <2>1 DEF Saving, Call
  <2> QED BY <2>1, <2>2, KeptStill
<1>3. CASE Boot
  <2>1. UNCHANGED <<nvs, kept>> /\ torn' = (torn \/ Saving)
    BY <1>3 DEF Boot
  <2>2. ~torn' => ~torn /\ ~Saving
    BY <2>1, Zenon
  <2> QED BY <2>1, <2>2 DEF KeptInv, Place
<1>4. ASSUME NEW t \in Tasks, NEW p \in LoopPrograms \cup BlePrograms, Start(t, p)
      PROVE  KeptInv'
  <2>1. UNCHANGED <<kept, torn, nvs, writes>> /\ todo' = [todo EXCEPT ![t] = p]
    BY <1>4 DEF Start
  <2>2. todo[t] = <<>> /\ (~raced' => ~raced)
        /\ (pc' = pc \/ (pc["loop"] = "stamped" /\ pc' = [pc EXCEPT !["loop"] = "overtaken"]))
    BY <1>1, <1>4, StartTask
  <2>3. \A u \in Tasks : pc[u] = "counted" => pc'[u] = "counted"
    BY <2>2 DEF Typed
  <2>4. ASSUME NEW u \in Tasks, SavingOf(u) PROVE SavingOf(u)'
    <3>1. Call(t) = "none"
      BY <2>2 DEF Call
    <3>2. u # t
      BY <2>4, <3>1 DEF SavingOf
    <3>3. Call(u)' = Call(u)
      BY <2>1, <3>2 DEF Call, Typed
    <3> QED BY <2>1, <2>3, <2>4, <3>3 DEF SavingOf
  <2>5. ~Saving' => ~Saving
    BY <2>2, <2>4 DEF Saving, SavingOf
  <2> QED BY <2>1, <2>5, KeptStill
<1>5. ASSUME NEW t \in Tasks, Moves(t), UNCHANGED <<kept, torn, nvs>>,
             SavingOf(t) => SavingOf(t)'
      PROVE  KeptInv'
  BY <1>5, SavingStill, KeptStill
<1>6. \A t \in Tasks : pc[t] \notin {"write", "held", "counted"} => ~SavingOf(t)
  BY DEF SavingOf, TaskInv, Task
<1>7. ASSUME NEW t \in Tasks, StampEntry(t) \/ Fill(t) \/ Advance(t) \/ Clear(t)
      PROVE  KeptInv'
  <2>1. UNCHANGED <<kept, torn, nvs>> /\ pc[t] \notin {"write", "held", "counted"}
    BY <1>7 DEF StampEntry, Fill, Advance, Clear, Runs
  <2> QED BY <1>1, <1>5, <1>6, <1>7, <2>1, StampTask, FillTask, AdvanceTask, ClearTask
<1>8. ASSUME NEW t \in Tasks, SetSystemTime(t) PROVE KeptInv'
  <2>1. pc[t] = "call"
    BY <1>8, Zenon DEF SetSystemTime, Runs
  <2> QED BY <1>5, <1>6, <1>8, <2>1, SyncTask, Synced
<1>9. ASSUME NEW t \in Tasks, CallSave(t) PROVE KeptInv'
  <2>1. UNCHANGED <<kept, torn, nvs, todo>> /\ writes' = [writes EXCEPT ![t] = SaveEntry]
        /\ Runs(t, {"log", "boot"}, "counted")
    BY <1>9 DEF CallSave
  <2>2. writes'[t] # <<>> /\ Call(t)' = Call(t) /\ Call(t) \in {"log", "boot"}
    BY <1>1, <2>1, SaveEntryKeys, Logging DEF Typed
  <2>3. SavingOf(t)'
    BY <2>2 DEF SavingOf
  <2> QED BY <1>1, <1>5, <1>9, <2>1, <2>3, CallSaveTask
<1>10. ASSUME NEW t \in Tasks, ReadArg(t) PROVE KeptInv'
  <2>1. UNCHANGED <<kept, torn, nvs, todo, writes>> /\ pc[t] = "write"
    BY <1>10 DEF ReadArg, Runs
  <2>2. SavingOf(t) => SavingOf(t)'
    BY <2>1 DEF SavingOf, Call
  <2> QED BY <1>1, <1>5, <1>10, <2>1, <2>2, ReadArgTask
<1> QED BY <1>2, <1>3, <1>4, <1>7, <1>8, <1>9, <1>10, WriteKept, Cases, Zenon

----------------------------------------------------------------------------
LEMMA Initially == Init => IInv
<1> SUFFICES ASSUME Init PROVE IInv
  OBVIOUS
<1>1. LogInv
  <2>1. /\ head = 0 /\ count = 0 /\ ring = [s \in Slots |-> Blank] /\ nvs = EmptyNvs
        /\ now = 0 /\ bootAt = 0 /\ boot = 1
    BY DEF Init
  <2>2. sync \in [timeSynced : BOOLEAN, unix : Nat, uptime : Nat]
    BY DEF Init, Unsynced
  <2>3. raced \in BOOLEAN /\ torn \in BOOLEAN
    BY Zenon DEF Init
  <2> QED BY <2>1, <2>2, <2>3, BlankTyped, Constants DEF LogInv, Nvs
<1>2. OrderInv /\ KeptInv
  BY Constants DEF Init, OrderInv, KeptInv, EmptyNvs
<1> QED BY <1>1, <1>2, TaskInit, SavedInit, DatedInit DEF IInv

LEMMA NextStep == IInv /\ [Next]_vars => IInv'
BY TaskStep, LogStep, SavedStep, OrderStep, KeptStep, DatedStep DEF IInv

LEMMA Invariance == Spec => []IInv
BY Initially, NextStep, PTL DEF Spec

\* The state of the log, in RAM and in NVS, and of the calls under way keeps
\* its type, whatever the tasks and the resets do.
THEOREM TypeCorrect == Spec => []TypeOK
<1>1. IInv => TypeOK
  <2> SUFFICES ASSUME IInv PROVE TypeOK
    OBVIOUS
  <2>1. {raced, torn} \subseteq BOOLEAN
    BY DEF IInv, LogInv
  <2>2. \A t \in Tasks : pc[t] \in Places /\ entry[t] \in Slots
    BY DEF IInv, Typed
  <2> QED BY <2>1, <2>2 DEF IInv, LogInv, TaskInv, OrderInv, KeptInv, TypeOK, Places
<1> QED BY <1>1, Invariance, PTL

\* getLogsJson lists the newest entries, oldest first, none missing and none
\* twice, whatever calls of the two tasks and resets came before, but for the
\* two windows that raced and torn name.
THEOREM InOrder == Spec => []NewestInOrder
<1>1. IInv => NewestInOrder
  <2> SUFFICES ASSUME IInv, ~raced, ~torn, \A t \in Tasks : pc[t] \notin {"stamped", "filled"}
               PROVE  [i \in 1..count |-> Visible[i].id] = told
    BY DEF NewestInOrder, Intact
  <2>1. /\ told \in Seq(0..MaxEvents) /\ Len(told) = count
        /\ \A i \in 1..count : ring[Place(head, count, i - 1)].id = told[i]
    BY DEF IInv, OrderInv
  <2>2. \A i \in 1..count : Visible[i].id = ring[Place(head, count, i - 1)].id
    BY DEF Visible, SlotAt, Place
  <2>3. told = [i \in 1..count |-> told[i]]
    BY <2>1
  <2> QED BY <2>1, <2>2, <2>3
<1> QED BY <1>1, Invariance, PTL

\* With no call under way NVS holds what RAM does, key by key: no order of the
\* two tasks' saves leaves it behind, but for the loop's windows.
THEOREM Saved == Spec => []Durable
<1>1. IInv => Durable
  <2> SUFFICES ASSUME IInv, \A t \in Tasks : todo[t] = <<>>, ~raced
               PROVE  nvs = [head |-> head, count |-> count, log |-> ring]
    BY DEF Durable
  <2>1. ASSUME NEW t \in Tasks PROVE \A k : ~Owes(t, k)
    <3>1. pc[t] = "call" /\ writes[t] = <<>>
      BY DEF IInv, TaskInv, Task
    <3> QED BY <3>1, OwesNothing
  <2>2. nvs.head = head /\ nvs.count = count /\ \A s \in Slots : nvs.log[s] = ring[s]
    BY <2>1 DEF IInv, SavedInv, Owed, OwedAnew
  <2>3. nvs \in Nvs /\ ring \in [Slots -> Entry]
    BY DEF IInv, LogInv, Nvs
  <2>4. nvs.log = ring
    BY <2>2, <2>3 DEF Nvs
  <2>5. nvs = [head |-> nvs.head, count |-> nvs.count, log |-> nvs.log]
    BY <2>3 DEF Nvs
  <2> QED BY <2>2, <2>4, <2>5
<1> QED BY <1>1, Invariance, PTL

\* An entry of this boot is shown with the time it was made at from the moment
\* a phone has told it, and one dated in the boot that made it stays right.
THEOREM Times == Spec => []TimesTrue
<1>1. IInv => TimesTrue
  <2> SUFFICES ASSUME IInv, NEW i \in 1..count, NEW e, e = Visible[i]
               PROVE  /\ e.boot = boot /\ sync.timeSynced => resolveTime(e) = Epoch + e.at
                      /\ e.timeMode = 1 /\ e.by = e.boot /\ e.boot # 0 => e.ts = Epoch + e.at
    BY DEF TimesTrue
  <2>1. head \in Slots /\ count \in 0..LOG_MAX_ENTRIES /\ ring \in [Slots -> Entry]
    BY DEF IInv, LogInv
  <2>2. Place(head, count, i - 1) \in Slots
    <3>1. i - 1 \in 0..count - 1
      BY <2>1
    <3> QED BY <2>1, <3>1, PlaceOf
  <2>3. e = ring[Place(head, count, i - 1)]
    BY DEF Visible, SlotAt, Place
  <2>4. Dated(e) /\ ThisBoot(e) /\ e \in Entry
    BY <2>1, <2>2, <2>3 DEF IInv, DatedInv
  <2>5. /\ e.at \in Nat /\ e.ts \in Int /\ e.timeMode \in {0, 1}
        /\ boot \in Nat \ {0} /\ bootAt \in Nat /\ Epoch \in Nat
        /\ sync.unix \in Nat /\ sync.uptime \in Nat
    BY <2>4, Constants DEF Entry, IInv, LogInv
  <2>6. sync.timeSynced => sync.unix = Epoch + bootAt + sync.uptime
    BY DEF IInv, DatedInv
  <2>7. ASSUME e.boot = boot, sync.timeSynced PROVE resolveTime(e) = Epoch + e.at
    <3>1. CASE e.timeMode = 0
      <4>1. resolveTime(e) = sync.unix + (e.ts - sync.uptime)
        BY <2>7, <3>1 DEF resolveTime
      <4> QED BY <2>4, <2>5, <2>6, <2>7, <3>1, <4>1 DEF ThisBoot
    <3>2. CASE e.timeMode = 1
      <4>1. resolveTime(e) = e.ts
        BY <3>2 DEF resolveTime
      <4> QED BY <2>4, <2>5, <2>7, <3>2, <4>1 DEF ThisBoot, Dated
    <3> QED BY <2>5, <3>1, <3>2
  <2> QED BY <2>4, <2>7 DEF Dated
<1> QED BY <1>1, Invariance, PTL
=============================================================================
