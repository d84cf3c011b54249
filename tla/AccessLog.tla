----------------------------- MODULE AccessLog -----------------------------
(***************************************************************************)
(* The access log of lib/logging/access_log.hpp: a ring of entries in RAM, *)
(* mirrored in NVS key by key (head, count, then the entry), dated by the  *)
(* device's uptime until a phone tells it the time, and by the wall clock  *)
(* from then on.                                                           *)
(*                                                                         *)
(* The loop task and the BLE task both write it, with no lock.  A BLE      *)
(* callback pre-empts the loop and runs to its end before the loop moves   *)
(* on; a reset may come anywhere.  A step is a key written or a group of   *)
(* assignments between two points where a callback makes a difference; the *)
(* assignments of setSystemTime are one such group.                        *)
(*                                                                         *)
(* Identifiers, messages and levels are abstracted to a number per entry   *)
(* (every level the firmware uses passes shouldLog: begin() switches them  *)
(* on at every boot).  The phones' clocks are right.                       *)
(***************************************************************************)
EXTENDS Integers, Sequences

CONSTANTS
  LOG_MAX_ENTRIES,    \* the size of the ring
  Epoch,              \* the wall clock at time 0
  MaxEvents,          \* bound: entries ever logged
  MaxTime,            \* bound: the true time
  MaxBoots            \* bound: boots

ASSUME LogConstants ==
  /\ LOG_MAX_ENTRIES \in Nat \ {0}
  /\ Epoch \in Nat \ {0}
  /\ {MaxEvents, MaxBoots} \subseteq Nat \ {0} /\ MaxTime \in Nat

VARIABLES
  head, count, ring,          \* _head, _count and _entries
  sync,                       \* _timeSynced, _syncUnix and _syncUptime
  nvs,                        \* the namespace access_log
  now, bootAt, boot,          \* the true time, that of the boot, its number
  todo,                       \* per task: the calls its handler has left
  pc,                         \* per task: where in the first of them it is
  writes,                     \* per task: the keys that call has left to write
  arg,                        \* per task: a value read and not yet written
  entry,                      \* per task: the slot its entry was begun in
  nextId,                     \* the number of the next entry
  told,                       \* ghost: the newest entries logged, oldest first
  kept,                       \* ghost: the same, of the calls that returned
  raced,                      \* ghost: BLE ran in a window of the loop's call
  torn                        \* ghost: a reset cut an entry's save short

logVars   == <<head, count, ring, sync>>
timeVars  == <<now, bootAt, boot>>
taskVars  == <<todo, pc, writes, arg, entry>>
ghostVars == <<told, kept, raced, torn>>
vars == <<logVars, nvs, timeVars, taskVars, nextId, ghostVars>>

Tasks == {"loop", "ble"}
Slots == 0..LOG_MAX_ENTRIES - 1

\* LogEntry; at and boot are the truth about it, by the boot that dated it.
Entry == [id : 0..MaxEvents, ts : Int, timeMode : {0, 1},
          at : 0..MaxTime, boot : 0..MaxBoots, by : 0..MaxBoots]
Blank == [id |-> 0, ts |-> 0, timeMode |-> 0, at |-> 0, boot |-> 0, by |-> 0]

Unsynced == [timeSynced |-> FALSE, unix |-> 0, uptime |-> 0]
EmptyNvs == [head |-> 0, count |-> 0, log |-> [s \in Slots |-> Blank]]

\* What each handler does to the log, by outcome.  An access, a refusal or a
\* saved macro table is <<"log">>.  A pairing empties the log before it knows
\* whether the phone table has room; one without a time only logs.
GetLogs       == {<<"sync">>}
LogsClear     == {<<"log">>, <<"clear", "log">>}    \* wrong token; cleared
RebootRequest == {<<"log">>, <<"log", "reboot">>}   \* wrong token; restarted
Pairing       == {<<"sync", "clear">>, <<"sync", "clear", "log">>, <<"log">>}
Command       == {<<"log">>, <<"sync", "log">>}
FactoryReset  == {<<"log", "reboot">>}

BleCommand    == {<<"log">>, <<"sync", "log">>}
BleLogClear   == {<<"clear", "log">>}
BleReboot     == {<<"log", "reboot">>}
BleTimeSync   == {<<"sync">>}

LogBootReason == <<"boot">>

LoopPrograms == UNION {GetLogs, LogsClear, RebootRequest, Pairing, Command,
                       FactoryReset}
BlePrograms  == UNION {BleCommand, BleLogClear, BleReboot, BleTimeSync}

TypeOK ==
  /\ head \in Slots /\ count \in 0..LOG_MAX_ENTRIES
  /\ ring \in [Slots -> Entry]
  /\ sync \in [timeSynced : BOOLEAN, unix : Nat, uptime : Nat]
  /\ nvs.head \in Slots /\ nvs.count \in 0..LOG_MAX_ENTRIES
  /\ nvs.log \in [Slots -> Entry]
  /\ now \in 0..MaxTime /\ bootAt \in 0..now /\ boot \in 1..MaxBoots
  /\ \A t \in Tasks : pc[t] \in {"call", "stamped", "overtaken", "filled",
                                 "counted", "write", "held"}
  /\ nextId \in 1..MaxEvents + 1
  /\ Len(told) <= LOG_MAX_ENTRIES /\ Len(kept) <= LOG_MAX_ENTRIES
  /\ \A t \in Tasks : entry[t] \in Slots
  /\ {raced, torn} \subseteq BOOLEAN

----------------------------------------------------------------------------
uptime == now - bootAt

\* getEntryAtIndex: the slot of a logical index, 0 the oldest.
SlotAt(i) == (head + LOG_MAX_ENTRIES - count + i) % LOG_MAX_ENTRIES

\* getLogsJson: the entries in the order they are sent.
Visible == [i \in 1..count |-> ring[SlotAt(i - 1)]]

resolveTime(e) ==
  IF e.timeMode = 0 /\ sync.timeSynced
  THEN sync.unix + (e.ts - sync.uptime) ELSE e.ts

Newest(s) ==
  IF Len(s) > LOG_MAX_ENTRIES THEN SubSeq(s, 2, Len(s)) ELSE s

Call(t) == IF todo[t] = <<>> THEN "none" ELSE todo[t][1]
Booting == Call("loop") = "boot"

\* A task moves; the loop only when no BLE callback is running.
Runs(t, call, at) ==
  /\ Call(t) \in call /\ pc[t] = at
  /\ t = "loop" => todo["ble"] = <<>>

\* The call returns.
Return(t) ==
  /\ todo' = [todo EXCEPT ![t] = Tail(@)]
  /\ pc' = [pc EXCEPT ![t] = "call"]

\* The entries a program has still to make: every handler logs at most once.
Pending(program) ==
  IF \E i \in DOMAIN program : program[i] \in {"log", "boot"} THEN 1 ELSE 0

\* The loop is where a BLE callback changes what it has read or will write:
\* its entry begun but its slot not yet passed to saveEntry, a header value
\* read but not written, or the ring emptied and NVS not yet.
InWindow ==
  pc["loop"] \notin {"call", "write"} \/ writes["loop"] = <<<<"clear">>>>

\* A handler starts: in the loop one at a time, over BLE at any moment.
Start(t, program) ==
  /\ todo[t] = <<>> /\ todo["ble"] = <<>>
  /\ ~Booting
  /\ nextId + Pending(todo["loop"]) + Pending(program) <= MaxEvents + 1
  /\ todo' = [todo EXCEPT ![t] = program]
  /\ raced' = (raced \/ (t = "ble" /\ InWindow))
  /\ pc' = IF pc["loop"] = "stamped" THEN [pc EXCEPT !["loop"] = "overtaken"]
                                      ELSE pc
  /\ UNCHANGED <<logVars, nvs, timeVars, writes, arg, entry, nextId, told, kept,
                 torn>>

\* Variant of Stamp: the uptime of the sync is forgotten.
MutStamp == [ts |-> IF sync.timeSynced THEN sync.unix + uptime ELSE uptime,
             timeMode |-> IF sync.timeSynced THEN 1 ELSE 0]

\* log: the time of an entry, by the wall clock if that is known.
Stamp ==
  [ts |-> IF sync.timeSynced THEN sync.unix + (uptime - sync.uptime)
                             ELSE uptime,
   timeMode |-> IF sync.timeSynced THEN 1 ELSE 0]

\* log: the entry at _head is begun with its time ...
StampEntry(t) ==
  /\ Runs(t, {"log", "boot"}, "call")
  /\ entry' = [entry EXCEPT ![t] = head]
  /\ ring' = [ring EXCEPT ![head] =
       [@ EXCEPT !.ts = Stamp.ts, !.at = now, !.boot = 0, !.by = 0]]
  /\ arg' = [arg EXCEPT ![t] = Stamp.timeMode]
  /\ pc' = [pc EXCEPT ![t] = "stamped"]
  /\ UNCHANGED <<head, count, sync, nvs, timeVars, todo, writes, nextId, ghostVars>>

\* ... and filled, in the slot it was begun in.  The truth is not known of an
\* entry that BLE may have written to in between.
Fill(t) ==
  /\ Runs(t, {"log", "boot"}, "stamped") \/ Runs(t, {"log", "boot"}, "overtaken")
  /\ LET known == IF pc[t] = "stamped" THEN boot ELSE 0 IN
     ring' = [ring EXCEPT ![entry[t]] =
       [@ EXCEPT !.id = nextId, !.timeMode = arg[t], !.boot = known,
                 !.by = IF arg[t] = 1 THEN known ELSE 0]]
  /\ nextId' = nextId + 1
  /\ arg' = [arg EXCEPT ![t] = 0] /\ entry' = [entry EXCEPT ![t] = 0]
  /\ pc' = [pc EXCEPT ![t] = "filled"]
  /\ UNCHANGED <<head, count, sync, nvs, timeVars, todo, writes, ghostVars>>

\* Variant of NextCount: it grows past the size of the ring.
MutNextCount == IF count <= LOG_MAX_ENTRIES THEN count + 1 ELSE count

NextCount == IF count < LOG_MAX_ENTRIES THEN count + 1 ELSE count

\* log: head and count move on.
Advance(t) ==
  /\ Runs(t, {"log", "boot"}, "filled")
  /\ head' = (head + 1) % LOG_MAX_ENTRIES
  /\ count' = NextCount
  /\ told' = Newest(Append(told, ring[head].id))
  /\ pc' = [pc EXCEPT ![t] = "counted"]
  /\ UNCHANGED <<ring, sync, nvs, timeVars, todo, writes, arg, entry, nextId, kept,
                 raced, torn>>

\* Variant of SaveEntry: the index is that of the advanced head.
MutSaveEntry == <<<<"head">>, <<"count">>, <<"log", head>>>>

\* saveEntry's keys in their order, for the slot before the head.
SaveEntry ==
  <<<<"head">>, <<"count">>,
    <<"log", (head + LOG_MAX_ENTRIES - 1) % LOG_MAX_ENTRIES>>>>

\* log: saveEntry is called.
CallSave(t) ==
  /\ Runs(t, {"log", "boot"}, "counted")
  /\ writes' = [writes EXCEPT ![t] = SaveEntry]
  /\ pc' = [pc EXCEPT ![t] = "write"]
  /\ UNCHANGED <<logVars, nvs, timeVars, todo, arg, entry, nextId, ghostVars>>

SaveAllEntries ==
  <<<<"head">>, <<"count">>>> \o [i \in 1..LOG_MAX_ENTRIES |-> <<"log", i - 1>>]

\* _backfillLogs: every visible entry that has only its uptime is dated,
\* an earlier boot's too.
Backfilled(unix) ==
  LET visible == {SlotAt(i) : i \in 0..count - 1} IN
  [s \in Slots |->
     IF s \in visible /\ ring[s].timeMode = 0
     THEN [ring[s] EXCEPT !.ts = unix + (@ - uptime), !.timeMode = 1, !.by = boot]
     ELSE ring[s]]

\* setSystemTime: the first time of a boot is kept, with the uptime it came at.
SetSystemTime(t) ==
  /\ Runs(t, {"sync"}, "call")
  /\ IF sync.timeSynced
     THEN Return(t) /\ UNCHANGED <<ring, sync, writes>>
     ELSE /\ sync' = [timeSynced |-> TRUE, unix |-> Epoch + now, uptime |-> uptime]
          /\ ring' = Backfilled(Epoch + now)
          /\ IF count = 0
             THEN Return(t) /\ UNCHANGED writes
             ELSE /\ writes' = [writes EXCEPT ![t] = SaveAllEntries]
                  /\ pc' = [pc EXCEPT ![t] = "write"]
                  /\ UNCHANGED todo
  /\ UNCHANGED <<head, count, nvs, timeVars, arg, entry, nextId, ghostVars>>

\* clear: the ring in RAM, and then the namespace.
Clear(t) ==
  /\ Runs(t, {"clear"}, "call")
  /\ head' = 0 /\ count' = 0 /\ ring' = [s \in Slots |-> Blank]
  /\ told' = <<>>
  /\ writes' = [writes EXCEPT ![t] = <<<<"clear">>>>]
  /\ pc' = [pc EXCEPT ![t] = "write"]
  /\ UNCHANGED <<sync, nvs, timeVars, todo, arg, entry, nextId, kept, raced, torn>>

\* putUChar reads its argument, the current head or count, and then writes it.
ReadArg(t) ==
  /\ Runs(t, {"log", "boot", "sync"}, "write")
  /\ Head(writes[t]) \in {<<"head">>, <<"count">>}
  /\ arg' = [arg EXCEPT ![t] = IF Head(writes[t]) = <<"head">> THEN head ELSE count]
  /\ pc' = [pc EXCEPT ![t] = "held"]
  /\ UNCHANGED <<logVars, nvs, timeVars, todo, writes, entry, nextId, ghostVars>>

\* Variant of Wiped: only the head and the count are removed.
MutWiped == [nvs EXCEPT !.head = 0, !.count = 0]

Wiped == EmptyNvs

Written(t) ==
  LET k == Head(writes[t]) IN
  CASE k = <<"head">>  -> [nvs EXCEPT !.head = arg[t]]
    [] k = <<"count">> -> [nvs EXCEPT !.count = arg[t]]
    [] k = <<"clear">> -> Wiped
    [] OTHER           -> [nvs EXCEPT !.log[k[2]] = ring[k[2]]]

\* One key is written; the call returns after its last one.
Write(t) ==
  /\ \/ Runs(t, {"log", "boot", "sync"}, "held")
     \/ Runs(t, {"log", "boot", "sync", "clear"}, "write")
        /\ Head(writes[t]) \notin {<<"head">>, <<"count">>}
  /\ nvs' = Written(t)
  /\ writes' = [writes EXCEPT ![t] = Tail(@)]
  /\ arg' = [arg EXCEPT ![t] = 0]
  /\ IF Len(writes[t]) > 1
     THEN pc' = [pc EXCEPT ![t] = "write"] /\ UNCHANGED <<todo, kept, torn>>
     ELSE /\ Return(t)
          /\ kept' = told
          /\ torn' = (torn /\ ~(Call(t) = "clear" /\ ~raced))
  /\ UNCHANGED <<logVars, timeVars, entry, nextId, told, raced>>

\* An entry counted in RAM is not yet in NVS, or a half-made write is.
Saving ==
  raced \/ \E t \in Tasks :
             Call(t) \in {"log", "boot"} /\ (writes[t] # <<>> \/ pc[t] = "counted")

\* A reset, asked for or not, at any moment: what is in NVS is loaded
\* (begin, loadEntries) and the reason for the boot logged (logBootReason).
Boot ==
  /\ boot < MaxBoots /\ nextId <= MaxEvents
  /\ boot' = boot + 1 /\ bootAt' = now
  /\ head' = nvs.head /\ count' = nvs.count /\ ring' = nvs.log
  /\ sync' = Unsynced
  /\ todo' = [t \in Tasks |-> IF t = "loop" THEN LogBootReason ELSE <<>>]
  /\ pc' = [t \in Tasks |-> "call"]
  /\ writes' = [t \in Tasks |-> <<>>]
  /\ arg' = [t \in Tasks |-> 0] /\ entry' = [t \in Tasks |-> 0]
  /\ told' = kept /\ kept' = kept
  /\ torn' = (torn \/ Saving) /\ raced' = FALSE
  /\ UNCHANGED <<nvs, now, nextId>>

\* The program ends in ESP.restart().
Reboot(t) == Runs(t, {"reboot"}, "call") /\ Boot

\* A crash, or the power cut.
Crash == (\A t \in Tasks : Call(t) # "reboot") /\ Boot

Tick ==
  /\ now < MaxTime
  /\ now' = now + 1
  /\ UNCHANGED <<logVars, nvs, bootAt, boot, taskVars, nextId, ghostVars>>

Init ==
  /\ head = 0 /\ count = 0 /\ ring = [s \in Slots |-> Blank]
  /\ sync = Unsynced /\ nvs = EmptyNvs
  /\ now = 0 /\ bootAt = 0 /\ boot = 1
  /\ todo = [t \in Tasks |-> IF t = "loop" THEN LogBootReason ELSE <<>>]
  /\ pc = [t \in Tasks |-> "call"]
  /\ writes = [t \in Tasks |-> <<>>]
  /\ arg = [t \in Tasks |-> 0] /\ entry = [t \in Tasks |-> 0]
  /\ nextId = 1
  /\ told = <<>> /\ kept = <<>> /\ raced = FALSE /\ torn = FALSE

Next ==
  \/ \E p \in LoopPrograms : Start("loop", p)
  \/ \E p \in BlePrograms : Start("ble", p)
  \/ \E t \in Tasks :
       \/ StampEntry(t) \/ Fill(t) \/ Advance(t) \/ CallSave(t)
       \/ SetSystemTime(t) \/ Clear(t)
       \/ ReadArg(t) \/ Write(t) \/ Reboot(t)
  \/ Crash
  \/ Tick

Spec == Init /\ [][Next]_vars

----------------------------------------------------------------------------
\* No call is filling an entry (in a full ring the oldest is then already
\* overwritten), no reset cut an entry's save short (access_log.hpp:442: the
\* header is written before the entry), and BLE never ran in one of the loop's
\* windows.
Intact == ~raced /\ ~torn /\ \A t \in Tasks : pc[t] \notin {"stamped", "filled"}

\* The log shows the newest entries, none missing, none twice and none out of
\* order, across resets and clears and with BLE logging in between, while it
\* is Intact.  The order is that of the code, oldest first: the comments on it
\* (access_log.hpp:295, :360) say the reverse.
NewestInOrder == Intact => [i \in 1..count |-> Visible[i].id] = told

\* What a reset would bring back is what the log shows, whenever no call is
\* under way: no order of the two tasks' key by key saves leaves NVS behind,
\* except BLE running in one of the loop's windows.
Durable ==
  (\A t \in Tasks : todo[t] = <<>>) /\ ~raced
    => nvs = [head |-> head, count |-> count, log |-> ring]

\* Once a phone has told the time every entry of this boot is shown with the
\* time it was made at, whether it was made before or after, and an entry
\* dated in the boot that made it keeps its right date for ever.  (An entry
\* half filled has no boot yet, nor has one BLE interrupted half filled.)
TimesTrue ==
  \A i \in 1..count : LET e == Visible[i] IN
    /\ e.boot = boot /\ sync.timeSynced => resolveTime(e) = Epoch + e.at
    /\ e.timeMode = 1 /\ e.by = e.boot /\ e.boot # 0 => e.ts = Epoch + e.at
=============================================================================
