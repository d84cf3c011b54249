-------------------------- MODULE PhoneStoreProofs --------------------------
(***************************************************************************)
(* Proofs about PhoneStore, for every set of phones and every capacity.    *)
(*                                                                         *)
(* Bounds is about each task's locals alone, so it survives any callback   *)
(* and any reset: it is what keeps every write inside the table.  Clean    *)
(* says what the table holds at each point of the one operation in course  *)
(* as long as nothing has torn or raced it: every entry in use is a phone  *)
(* with its own token, but for the hole a removal moves to the end.        *)
(***************************************************************************)
EXTENDS PhoneStore, TLAPS

Bounds ==
  \A t \in Tasks :
    /\ pc[t] # "rest" => phone[t] \in Phones
    /\ pc[t] \in {"find", "check"} => i[t] <= n[t]
    /\ pc[t] \in {"shift", "token"} => i[t] < n[t]
    /\ pc[t] = "token" => i[t] + 1 < n[t]
    /\ pc[t] \in {"drop", "shrink"} => n[t] >= 1
    /\ pc[t] \in {"putid", "puttoken", "grow"} => n[t] < MAX_PAIRED_PHONES

OneTask == ~raced => \E t \in Tasks : pc[t] = "rest"

\* The entries of used are the phones of paired, each once, with its token.
Holds(used, paired) ==
  /\ \A s \in used : ids[s] \in paired /\ tokens[s] = ids[s]
  /\ \A s, r \in used : ids[s] = ids[r] => s = r
  /\ \A p \in paired : \E s \in used : ids[s] = p

Whole == (\A t \in Tasks : pc[t] \notin Removing) => Holds(Used, told)

Hole(t, h) == Holds(Used \ {h}, told \ {phone[t]})

Stage(t) ==
  /\ pc[t] \in Removing \cup {"find"} \cup (Adding \ {"add"}) => n[t] = count
  /\ pc[t] \in {"find", "check"} => \A s \in 0..i[t] - 1 : ids[s] # phone[t]
  /\ pc[t] \in {"shift", "token"} => Hole(t, i[t])
  /\ pc[t] = "token" => ids[i[t]] = ids[i[t] + 1]
  /\ pc[t] \in {"drop", "shrink"} => Hole(t, count - 1)
  /\ pc[t] \in Adding => phone[t] \notin told
  /\ pc[t] \in {"puttoken", "grow"} => ids[count] = phone[t]
  /\ pc[t] = "grow" => tokens[count] = phone[t]

Clean == ~torn /\ ~raced => Whole /\ \A t \in Tasks : Stage(t)

IInv == TypeOK /\ Bounds /\ OneTask /\ Clean

----------------------------------------------------------------------------
LEMMA EmptyTable == [s \in Index |-> None] \in [Index -> Phones \cup {None}]
OBVIOUS

LEMMA Zero == 0 \in 0..MAX_PAIRED_PHONES
BY PhoneConstants

LEMMA Initially == Init => IInv
<1> SUFFICES ASSUME Init PROVE IInv
  OBVIOUS
<1>1. TypeOK
  BY EmptyTable, Zero DEF Init, TypeOK, AtRest, Tasks
<1>2. Bounds
  BY DEF Init, Bounds, AtRest
<1>3. OneTask
  BY DEF Init, OneTask, AtRest, Tasks
<1>4. Clean
  BY DEF Init, Clean, Whole, Stage, Holds, Used, AtRest, Removing, Adding
<1> QED BY <1>1, <1>2, <1>3, <1>4 DEF IInv

\* Every step keeps the type.
LEMMA TypeStep == IInv /\ [Next]_vars => TypeOK'
<1> SUFFICES ASSUME IInv, [Next]_vars PROVE TypeOK'
  OBVIOUS
<1> USE PhoneConstants DEF IInv, TypeOK, Bounds, Index, Tasks, Removing, Adding, nvs, locals, ghosts
<1>1. ASSUME NEW t \in Tasks, ReadCount(t) PROVE TypeOK'
  BY <1>1 DEF ReadCount, Step
<1>2. ASSUME NEW t \in Tasks, LookAt(t) PROVE TypeOK'
  BY <1>2 DEF LookAt, Step, Advance
<1>3. ASSUME NEW t \in Tasks, Found(t) PROVE TypeOK'
  BY <1>3 DEF Found, Step
<1>4. ASSUME NEW t \in Tasks, NotFound(t) PROVE TypeOK'
  <2>1. CASE pairing[t]
    BY <1>4, <2>1 DEF NotFound, Step
  <2>2. CASE ~pairing[t]
    <3>0. Return(t)
      BY <1>4, <2>2 DEF NotFound
    <3>1. phone' \in [Tasks -> Phones \cup {None}] /\ pairing' \in [Tasks -> BOOLEAN]
      BY <3>0 DEF Return
    <3>2. n' \in [Tasks -> 0..MAX_PAIRED_PHONES] /\ i' \in [Tasks -> 0..MAX_PAIRED_PHONES]
      BY <3>0 DEF Return
    <3>3. told' \in SUBSET Phones
      BY <1>4 DEF NotFound
    <3>4. count' \in 0..MAX_PAIRED_PHONES
      BY <1>4 DEF NotFound
    <3>5. pc' \in [Tasks -> {"rest", "remove", "find"} \cup Removing \cup Adding]
      BY <1>4, <2>2 DEF NotFound, Step
    <3>6. UNCHANGED <<ids, tokens, torn, raced>>
      BY <1>4 DEF NotFound
    <3> QED BY <3>1, <3>2, <3>3, <3>4, <3>5, <3>6
  <2> QED BY <2>1, <2>2
<1>5. ASSUME NEW t \in Tasks, ShiftId(t) PROVE TypeOK'
  BY <1>5 DEF ShiftId, Step
<1>6. ASSUME NEW t \in Tasks, ShiftToken(t) PROVE TypeOK'
  BY <1>6 DEF ShiftToken, Step, Advance
<1>7. ASSUME NEW t \in Tasks, DropId(t) PROVE TypeOK'
  BY <1>7 DEF DropId, Step
<1>8. ASSUME NEW t \in Tasks, DropToken(t) PROVE TypeOK'
  BY <1>8 DEF DropToken, Step
<1>9. ASSUME NEW t \in Tasks, Shrink(t) PROVE TypeOK'
  <2>1. CASE pairing[t]
    BY <1>9, <2>1 DEF Shrink, Step
  <2>2. CASE ~pairing[t]
    <3>0. Return(t)
      BY <1>9, <2>2 DEF Shrink
    <3>1. phone' \in [Tasks -> Phones \cup {None}] /\ pairing' \in [Tasks -> BOOLEAN]
      BY <3>0 DEF Return
    <3>2. n' \in [Tasks -> 0..MAX_PAIRED_PHONES] /\ i' \in [Tasks -> 0..MAX_PAIRED_PHONES]
      BY <3>0 DEF Return
    <3>3. told' \in SUBSET Phones
      BY <1>9 DEF Shrink
    <3>4. count' \in 0..MAX_PAIRED_PHONES
      <4>1. n[t] >= 1 /\ n[t] \in 0..MAX_PAIRED_PHONES
        BY <1>9 DEF Shrink, Step
      <4> QED BY <1>9, <4>1 DEF Shrink
    <3>5. pc' \in [Tasks -> {"rest", "remove", "find"} \cup Removing \cup Adding]
      BY <1>9, <2>2 DEF Shrink, Step
    <3>6. UNCHANGED <<ids, tokens, torn, raced>>
      BY <1>9 DEF Shrink
    <3> QED BY <3>1, <3>2, <3>3, <3>4, <3>5, <3>6
  <2> QED BY <2>1, <2>2
<1>10. ASSUME NEW t \in Tasks, Refused(t) PROVE TypeOK'
  BY <1>10 DEF Refused, Step, Return, Full
<1>11. ASSUME NEW t \in Tasks, Admitted(t) PROVE TypeOK'
  BY <1>11 DEF Admitted, Step, Full
<1>12. ASSUME NEW t \in Tasks, PutId(t) PROVE TypeOK'
  BY <1>12 DEF PutId, Step
<1>13. ASSUME NEW t \in Tasks, PutToken(t) PROVE TypeOK'
  BY <1>13 DEF PutToken, Step
<1>14. ASSUME NEW t \in Tasks, Grow(t) PROVE TypeOK'
  BY <1>14 DEF Grow, Step, Return
<1>15. ASSUME NEW t \in Tasks, NEW p \in Phones, Pair(t, p) PROVE TypeOK'
  BY <1>15 DEF Pair, Step
<1>16. ASSUME NEW p \in Phones, Unpair(p) PROVE TypeOK'
  BY <1>16 DEF Unpair, Step
<1>17. CASE ClearAll
  <2> HIDE DEF Index
  <2> QED BY <1>17, EmptyTable, Zero DEF ClearAll
<1>18. CASE Crash
  BY <1>18 DEF Crash, AtRest
<1>19. CASE UNCHANGED vars
  BY <1>19 DEF vars, nvs, locals, ghosts
<1> QED
  BY <1>1, <1>2, <1>3, <1>4, <1>5, <1>6, <1>7, <1>8, <1>9, <1>10, <1>11,
     <1>12, <1>13, <1>14, <1>15, <1>16, <1>17, <1>18, <1>19 DEF Next, Remove,
     Add

\* No step takes a task's locals past what its next write allows.
LEMMA BoundsStep == IInv /\ [Next]_vars => Bounds'
<1> SUFFICES ASSUME IInv, [Next]_vars PROVE Bounds'
  OBVIOUS
<1> USE PhoneConstants DEF IInv, TypeOK, Bounds, Index, Tasks, Removing, Adding, nvs, locals, ghosts
<1>1. ASSUME NEW t \in Tasks, ReadCount(t) PROVE Bounds'
  BY <1>1 DEF ReadCount, Step
<1>2. ASSUME NEW t \in Tasks, LookAt(t) PROVE Bounds'
  BY <1>2 DEF LookAt, Step, Advance
<1>3. ASSUME NEW t \in Tasks, Found(t) PROVE Bounds'
  BY <1>3 DEF Found, Step
<1>4. ASSUME NEW t \in Tasks, NotFound(t) PROVE Bounds'
  BY <1>4 DEF NotFound, Step, Return
<1>5. ASSUME NEW t \in Tasks, ShiftId(t) PROVE Bounds'
  BY <1>5 DEF ShiftId, Step
<1>6. ASSUME NEW t \in Tasks, ShiftToken(t) PROVE Bounds'
  BY <1>6 DEF ShiftToken, Step, Advance
<1>7. ASSUME NEW t \in Tasks, DropId(t) PROVE Bounds'
  BY <1>7 DEF DropId, Step
<1>8. ASSUME NEW t \in Tasks, DropToken(t) PROVE Bounds'
  BY <1>8 DEF DropToken, Step
<1>9. ASSUME NEW t \in Tasks, Shrink(t) PROVE Bounds'
  BY <1>9 DEF Shrink, Step, Return
<1>10. ASSUME NEW t \in Tasks, Refused(t) PROVE Bounds'
  BY <1>10 DEF Refused, Step, Return, Full
<1>11. ASSUME NEW t \in Tasks, Admitted(t) PROVE Bounds'
  BY <1>11 DEF Admitted, Step, Full
<1>12. ASSUME NEW t \in Tasks, PutId(t) PROVE Bounds'
  BY <1>12 DEF PutId, Step
<1>13. ASSUME NEW t \in Tasks, PutToken(t) PROVE Bounds'
  BY <1>13 DEF PutToken, Step
<1>14. ASSUME NEW t \in Tasks, Grow(t) PROVE Bounds'
  BY <1>14 DEF Grow, Step, Return
<1>15. ASSUME NEW t \in Tasks, NEW p \in Phones, Pair(t, p) PROVE Bounds'
  BY <1>15 DEF Pair, Step
<1>16. ASSUME NEW p \in Phones, Unpair(p) PROVE Bounds'
  BY <1>16 DEF Unpair, Step
<1>17. CASE ClearAll
  BY <1>17 DEF ClearAll, AtRest
<1>18. CASE Crash
  BY <1>18 DEF Crash, AtRest
<1>19. CASE UNCHANGED vars
  BY <1>19 DEF vars, nvs, locals, ghosts
<1> QED
  BY <1>1, <1>2, <1>3, <1>4, <1>5, <1>6, <1>7, <1>8, <1>9, <1>10, <1>11,
     <1>12, <1>13, <1>14, <1>15, <1>16, <1>17, <1>18, <1>19 DEF Next, Remove,
     Add

\* Two tasks are only ever in an operation at once if one pre-empted the other.
LEMMA OneTaskStep == IInv /\ [Next]_vars => OneTask'
<1> SUFFICES ASSUME IInv, [Next]_vars PROVE OneTask'
  OBVIOUS
<1> USE DEF IInv, TypeOK, OneTask, Tasks, nvs, locals, ghosts
<1>1. ASSUME NEW t \in Tasks, ReadCount(t) PROVE OneTask'
  BY <1>1 DEF ReadCount, Step
<1>2. ASSUME NEW t \in Tasks, LookAt(t) PROVE OneTask'
  BY <1>2 DEF LookAt, Step, Advance
<1>3. ASSUME NEW t \in Tasks, Found(t) PROVE OneTask'
  BY <1>3 DEF Found, Step
<1>4. ASSUME NEW t \in Tasks, NotFound(t) PROVE OneTask'
  BY <1>4 DEF NotFound, Step, Return
<1>5. ASSUME NEW t \in Tasks, ShiftId(t) PROVE OneTask'
  BY <1>5 DEF ShiftId, Step
<1>6. ASSUME NEW t \in Tasks, ShiftToken(t) PROVE OneTask'
  BY <1>6 DEF ShiftToken, Step, Advance
<1>7. ASSUME NEW t \in Tasks, DropId(t) PROVE OneTask'
  BY <1>7 DEF DropId, Step
<1>8. ASSUME NEW t \in Tasks, DropToken(t) PROVE OneTask'
  BY <1>8 DEF DropToken, Step
<1>9. ASSUME NEW t \in Tasks, Shrink(t) PROVE OneTask'
  BY <1>9 DEF Shrink, Step, Return
<1>10. ASSUME NEW t \in Tasks, Refused(t) PROVE OneTask'
  BY <1>10 DEF Refused, Step, Return, Full
<1>11. ASSUME NEW t \in Tasks, Admitted(t) PROVE OneTask'
  BY <1>11 DEF Admitted, Step, Full
<1>12. ASSUME NEW t \in Tasks, PutId(t) PROVE OneTask'
  BY <1>12 DEF PutId, Step
<1>13. ASSUME NEW t \in Tasks, PutToken(t) PROVE OneTask'
  BY <1>13 DEF PutToken, Step
<1>14. ASSUME NEW t \in Tasks, Grow(t) PROVE OneTask'
  BY <1>14 DEF Grow, Step, Return
<1>15. ASSUME NEW t \in Tasks, NEW p \in Phones, Pair(t, p) PROVE OneTask'
  BY <1>15 DEF Pair, Step
<1>16. ASSUME NEW p \in Phones, Unpair(p) PROVE OneTask'
  BY <1>16 DEF Unpair, Step
<1>17. CASE ClearAll
  BY <1>17 DEF ClearAll, AtRest
<1>18. CASE Crash
  BY <1>18 DEF Crash, AtRest
<1>19. CASE UNCHANGED vars
  BY <1>19 DEF vars, nvs, locals, ghosts
<1> QED
  BY <1>1, <1>2, <1>3, <1>4, <1>5, <1>6, <1>7, <1>8, <1>9, <1>10, <1>11,
     <1>12, <1>13, <1>14, <1>15, <1>16, <1>17, <1>18, <1>19 DEF Next, Remove,
     Add

----------------------------------------------------------------------------
\* A step of one task, while nothing has raced, is the step of the only one.
LEMMA Alone ==
  ASSUME IInv, NEW t \in Tasks, NEW from, NEW to, Step(t, from, to),
         from # "rest", ~raced
  PROVE  /\ pc[t] = from /\ pc'[t] = to
         /\ \A u \in Tasks \ {t} : pc[u] = "rest" /\ pc'[u] = "rest"
BY DEF IInv, TypeOK, OneTask, Step, Tasks

\* What is left to show of Clean' after a step of the only task.
LEMMA Assemble ==
  ASSUME NEW t \in Tasks, \A u \in Tasks \ {t} : pc'[u] = "rest", Stage(t)',
         pc'[t] \notin Removing => Holds(Used, told)'
  PROVE  Clean'
<1>1. Whole'
  BY DEF Whole
<1>2. ASSUME NEW u \in Tasks \ {t} PROVE Stage(u)'
  BY <1>2 DEF Stage, Removing, Adding
<1> QED BY <1>1, <1>2 DEF Clean

\* The table a task outside a removal finds, and the one it finds in a removal.
LEMMA Found0 ==
  ASSUME IInv, ~torn, ~raced, NEW t \in Tasks,
         \A u \in Tasks \ {t} : pc[u] = "rest"
  PROVE  Stage(t) /\ (pc[t] \notin Removing => Holds(Used, told))
BY DEF IInv, Clean, Whole, Removing

LEMMA RemoveStep ==
  ASSUME IInv, NEW t \in Tasks, Remove(t), ~torn, ~raced
  PROVE  Clean'
<1> USE PhoneConstants DEF IInv, TypeOK, Bounds, Index, Used
<1>1. CASE ReadCount(t)
  <2>1. PICK from, to : Step(t, from, to) /\ <<from, to>> \in {<<"remove", "find">>, <<"add", "check">>}
    BY <1>1 DEF ReadCount
  <2>2. /\ pc[t] = from /\ pc'[t] = to
        /\ \A u \in Tasks \ {t} : pc[u] = "rest" /\ pc'[u] = "rest"
    BY <2>1, Alone
  <2>3. Stage(t) /\ Holds(Used, told)
    BY <2>1, <2>2, Found0 DEF Removing
  <2>4. Holds(Used, told)'
    BY <1>1, <2>3 DEF ReadCount, Holds, nvs, ghosts
  <2>5. Stage(t)'
    BY <1>1, <2>1, <2>2, <2>3 DEF ReadCount, Stage, nvs, ghosts, Removing, Adding
  <2> QED BY <2>2, <2>4, <2>5, Assemble
<1>2. CASE LookAt(t)
  <2>1. pc[t] \in {"find", "check"} /\ Step(t, pc[t], pc[t])
    BY <1>2 DEF LookAt
  <2>2. /\ pc'[t] = pc[t]
        /\ \A u \in Tasks \ {t} : pc[u] = "rest" /\ pc'[u] = "rest"
    BY <2>1, Alone
  <2>3. Stage(t) /\ Holds(Used, told)
    BY <2>1, <2>2, Found0 DEF Removing
  <2>4. Holds(Used, told)'
    BY <1>2, <2>3 DEF LookAt, Holds, nvs, ghosts
  <2>5. Stage(t)'
    BY <1>2, <2>1, <2>2, <2>3 DEF LookAt, Advance, Stage, nvs, ghosts, Removing, Adding
  <2> QED BY <2>2, <2>4, <2>5, Assemble
<1>3. CASE Found(t)
  <2>1. Step(t, "find", "shift")
    BY <1>3 DEF Found
  <2>2. /\ pc[t] = "find" /\ pc'[t] = "shift"
        /\ \A u \in Tasks \ {t} : pc[u] = "rest" /\ pc'[u] = "rest"
    BY <2>1, Alone
  <2>3. Stage(t) /\ Holds(Used, told)
    BY <2>2, Found0 DEF Removing
  <2>4. Hole(t, i[t])'
    BY <1>3, <2>2, <2>3 DEF Found, Stage, Hole, Holds, nvs, locals, ghosts
  <2>5. Stage(t)'
    BY <1>3, <2>2, <2>3, <2>4 DEF Found, Stage, nvs, locals, ghosts, Removing, Adding
  <2> QED BY <2>2, <2>5, Assemble DEF Removing
<1>4. CASE NotFound(t)
  <2>1. pc[t] = "find" /\ \A u \in Tasks \ {t} : pc[u] = "rest" /\ pc'[u] = "rest"
    BY <1>4, Alone DEF NotFound
  <2>2. Stage(t) /\ Holds(Used, told)
    BY <2>1, Found0 DEF Removing
  <2>3. phone[t] \notin told
    BY <1>4, <2>1, <2>2 DEF NotFound, Stage, Holds
  <2>4. told' = told
    BY <1>4, <2>3 DEF NotFound
  <2>5. pc'[t] \in {"add", "rest"} /\ phone'[t] \notin told'
    BY <1>4, <2>3, <2>4 DEF NotFound, Step, Return, locals, Tasks
  <2>6. Holds(Used, told)'
    BY <1>4, <2>2, <2>4 DEF NotFound, Holds, nvs
  <2>7. Stage(t)'
    BY <2>5 DEF Stage, Removing, Adding
  <2> QED BY <2>1, <2>6, <2>7, Assemble
<1>5. CASE ShiftId(t)
  <2>1. Step(t, "shift", "token")
    BY <1>5 DEF ShiftId
  <2>2. /\ pc[t] = "shift" /\ pc'[t] = "token"
        /\ \A u \in Tasks \ {t} : pc[u] = "rest" /\ pc'[u] = "rest"
    BY <2>1, Alone
  <2>3. Stage(t) /\ Hole(t, i[t]) /\ n[t] = count
    BY <2>2, Found0 DEF Stage, Removing
  <2>4. Hole(t, i[t])'
    BY <1>5, <2>2, <2>3 DEF ShiftId, Hole, Holds, locals, ghosts
  <2>5. ids'[i'[t]] = ids'[i'[t] + 1]
    BY <1>5 DEF ShiftId, locals
  <2>6. n'[t] = count'
    BY <1>5, <2>3 DEF ShiftId, locals
  <2>7. Stage(t)'
    BY <2>2, <2>4, <2>5, <2>6 DEF Stage, Adding
  <2> QED BY <2>2, <2>7, Assemble DEF Removing
<1>6. CASE ShiftToken(t)
  <2>1. Step(t, "token", "shift")
    BY <1>6 DEF ShiftToken
  <2>2. /\ pc[t] = "token" /\ pc'[t] = "shift"
        /\ \A u \in Tasks \ {t} : pc[u] = "rest" /\ pc'[u] = "rest"
    BY <2>1, Alone
  <2>3. Stage(t) /\ Hole(t, i[t]) /\ n[t] = count /\ ids[i[t]] = ids[i[t] + 1]
    BY <2>2, Found0 DEF Stage, Removing
  <2>4. i[t] + 1 < n[t] /\ i[t] \in Nat /\ i[t] + 1 \in Used \ {i[t]} /\ i[t] \in Used
    BY <2>2, <2>3
  <2>5. tokens[i[t] + 1] = ids[i[t] + 1] /\ ids[i[t] + 1] \in told
    BY <2>3, <2>4 DEF Hole, Holds
  <2>6. tokens' = [tokens EXCEPT ![i[t]] = ids[i[t]]]
    BY <1>6, <2>3, <2>5 DEF ShiftToken
  <2>7. i'[t] = i[t] + 1 /\ n'[t] = count'
    BY <1>6, <2>3 DEF ShiftToken, Advance
  <2>8. ids' = ids /\ count' = count /\ told' = told /\ phone' = phone
    BY <1>6 DEF ShiftToken, ghosts
  <2>9. Hole(t, i[t])'
    BY <1>6, <2>2, <2>3, <2>4, <2>5, <2>6, <2>7, <2>8 DEF Hole, Holds
  <2>10. Stage(t)'
    BY <2>2, <2>7, <2>9 DEF Stage, Adding
  <2> QED BY <2>2, <2>10, Assemble DEF Removing
<1>7. CASE DropId(t)
  <2>1. Step(t, "shift", "drop")
    BY <1>7 DEF DropId
  <2>2. /\ pc[t] = "shift" /\ pc'[t] = "drop"
        /\ \A u \in Tasks \ {t} : pc[u] = "rest" /\ pc'[u] = "rest"
    BY <2>1, Alone
  <2>3. Stage(t) /\ Hole(t, i[t]) /\ n[t] = count
    BY <2>2, Found0 DEF Stage, Removing
  <2>4. i[t] = count - 1
    BY <1>7, <2>2, <2>3 DEF DropId
  <2>5. Hole(t, count - 1)'
    BY <1>7, <2>3, <2>4 DEF DropId, Hole, Holds, locals, ghosts
  <2>6. Stage(t)'
    BY <1>7, <2>2, <2>3, <2>5 DEF DropId, Stage, Adding, locals
  <2> QED BY <2>2, <2>6, Assemble DEF Removing
<1>8. CASE DropToken(t)
  <2>1. Step(t, "drop", "shrink")
    BY <1>8 DEF DropToken
  <2>2. /\ pc[t] = "drop" /\ pc'[t] = "shrink"
        /\ \A u \in Tasks \ {t} : pc[u] = "rest" /\ pc'[u] = "rest"
    BY <2>1, Alone
  <2>3. Stage(t) /\ Hole(t, count - 1) /\ n[t] = count
    BY <2>2, Found0 DEF Stage, Removing
  <2>4. Hole(t, count - 1)'
    BY <1>8, <2>3 DEF DropToken, Hole, Holds, locals, ghosts
  <2>5. Stage(t)'
    BY <1>8, <2>2, <2>3, <2>4 DEF DropToken, Stage, Adding, locals
  <2> QED BY <2>2, <2>5, Assemble DEF Removing
<1>9. CASE Shrink(t)
  <2>1. pc[t] = "shrink" /\ \A u \in Tasks \ {t} : pc[u] = "rest" /\ pc'[u] = "rest"
    BY <1>9, Alone DEF Shrink
  <2>2. Hole(t, count - 1) /\ n[t] = count
    BY <2>1, Found0 DEF Stage, Removing
  <2>3. count' = count - 1 /\ ids' = ids /\ tokens' = tokens /\ told' = told \ {phone[t]}
    BY <1>9, <2>2 DEF Shrink
  <2>4. Holds(Used, told)'
    BY <2>2, <2>3 DEF Hole, Holds
  <2>5. pc'[t] \in {"add", "rest"} /\ phone'[t] \notin told'
    BY <1>9, <2>3 DEF Shrink, Step, Return, locals, Tasks
  <2>6. Stage(t)'
    BY <2>5 DEF Stage, Removing, Adding
  <2> QED BY <2>1, <2>4, <2>6, Assemble
<1> QED BY <1>1, <1>2, <1>3, <1>4, <1>5, <1>6, <1>7, <1>8, <1>9 DEF Remove

LEMMA AddStep ==
  ASSUME IInv, NEW t \in Tasks, Add(t), ~torn, ~raced
  PROVE  Clean'
<1> USE PhoneConstants DEF IInv, TypeOK, Bounds, Index, Used
<1>1. CASE Refused(t)
  <2>1. /\ pc[t] = "check" /\ pc'[t] = "rest"
        /\ \A u \in Tasks \ {t} : pc[u] = "rest" /\ pc'[u] = "rest"
    BY <1>1, Alone DEF Refused
  <2>2. Holds(Used, told)
    BY <2>1, Found0 DEF Removing
  <2>3. Holds(Used, told)'
    BY <1>1, <2>2 DEF Refused, Holds, nvs, ghosts
  <2>4. Stage(t)'
    BY <2>1 DEF Stage, Removing, Adding
  <2> QED BY <2>1, <2>3, <2>4, Assemble
<1>2. CASE Admitted(t)
  <2>1. /\ pc[t] = "check" /\ pc'[t] = "putid"
        /\ \A u \in Tasks \ {t} : pc[u] = "rest" /\ pc'[u] = "rest"
    BY <1>2, Alone DEF Admitted
  <2>2. Stage(t) /\ Holds(Used, told)
    BY <2>1, Found0 DEF Removing
  <2>3. Holds(Used, told)'
    BY <1>2, <2>2 DEF Admitted, Holds, nvs, ghosts
  <2>4. Stage(t)'
    BY <1>2, <2>1, <2>2 DEF Admitted, Stage, Removing, Adding, nvs, locals, ghosts
  <2> QED BY <2>1, <2>3, <2>4, Assemble
<1>3. CASE PutId(t)
  <2>1. /\ pc[t] = "putid" /\ pc'[t] = "puttoken"
        /\ \A u \in Tasks \ {t} : pc[u] = "rest" /\ pc'[u] = "rest"
    BY <1>3, Alone DEF PutId
  <2>2. Stage(t) /\ Holds(Used, told) /\ n[t] = count /\ phone[t] \notin told
    BY <2>1, Found0 DEF Stage, Removing, Adding
  <2>3. ids' = [ids EXCEPT ![count] = phone[t]] /\ count' = count /\ tokens' = tokens /\ told' = told
    BY <1>3, <2>2 DEF PutId, ghosts
  <2>4. count < MAX_PAIRED_PHONES /\ count \in Index
    BY <2>1, <2>2
  <2>5. Holds(Used, told)'
    BY <2>2, <2>3, <2>4 DEF Holds
  <2>6. ids'[count'] = phone'[t] /\ n'[t] = count' /\ phone'[t] \notin told'
    BY <1>3, <2>2, <2>3, <2>4 DEF PutId, locals
  <2>7. Stage(t)'
    BY <2>1, <2>6 DEF Stage, Removing
  <2> QED BY <2>1, <2>5, <2>7, Assemble
<1>4. CASE PutToken(t)
  <2>1. /\ pc[t] = "puttoken" /\ pc'[t] = "grow"
        /\ \A u \in Tasks \ {t} : pc[u] = "rest" /\ pc'[u] = "rest"
    BY <1>4, Alone DEF PutToken
  <2>2. /\ Stage(t) /\ Holds(Used, told) /\ n[t] = count
        /\ phone[t] \notin told /\ ids[count] = phone[t]
    BY <2>1, Found0 DEF Stage, Removing, Adding
  <2>3. tokens' = [tokens EXCEPT ![count] = phone[t]] /\ count' = count /\ ids' = ids /\ told' = told
    BY <1>4, <2>2 DEF PutToken, ghosts
  <2>4. count < MAX_PAIRED_PHONES /\ count \in Index
    BY <2>1, <2>2
  <2>5. Holds(Used, told)'
    BY <2>2, <2>3, <2>4 DEF Holds
  <2>6. /\ ids'[count'] = phone'[t] /\ tokens'[count'] = phone'[t]
        /\ n'[t] = count' /\ phone'[t] \notin told'
    BY <1>4, <2>2, <2>3, <2>4 DEF PutToken, locals
  <2>7. Stage(t)'
    BY <2>1, <2>6 DEF Stage, Removing
  <2> QED BY <2>1, <2>5, <2>7, Assemble
<1>5. CASE Grow(t)
  <2>1. /\ pc[t] = "grow" /\ pc'[t] = "rest"
        /\ \A u \in Tasks \ {t} : pc[u] = "rest" /\ pc'[u] = "rest"
    BY <1>5, Alone DEF Grow
  <2>2. /\ Holds(Used, told) /\ n[t] = count /\ phone[t] \notin told
        /\ ids[count] = phone[t] /\ tokens[count] = phone[t]
    BY <2>1, Found0 DEF Stage, Removing, Adding
  <2>3. count' = count + 1 /\ ids' = ids /\ tokens' = tokens /\ told' = told \cup {phone[t]}
    BY <1>5, <2>2 DEF Grow
  <2>4. Holds(Used, told)'
    <3>1. Used' = Used \cup {count} /\ count \notin Used
      BY <2>3
    <3>2. \A s \in Used : ids[s] # phone[t]
      BY <2>2 DEF Holds
    <3> HIDE DEF Used
    <3>3. \A s \in Used' : ids'[s] \in told' /\ tokens'[s] = ids'[s]
      BY <2>2, <2>3, <3>1 DEF Holds
    <3>4. \A s, r \in Used' : ids'[s] = ids'[r] => s = r
      BY <2>2, <2>3, <3>1, <3>2 DEF Holds
    <3>5. \A p \in told' : \E s \in Used' : ids'[s] = p
      BY <2>2, <2>3, <3>1 DEF Holds
    <3> QED BY <3>3, <3>4, <3>5 DEF Holds
  <2>5. Stage(t)'
    BY <2>1 DEF Stage, Removing, Adding
  <2> QED BY <2>1, <2>4, <2>5, Assemble
<1> QED BY <1>1, <1>2, <1>3, <1>4, <1>5 DEF Add

\* A pairing or an unpairing begins with every other phone as it was.
LEMMA StartStep ==
  ASSUME IInv, NEW t \in Tasks, Step(t, "rest", "remove"), ~torn', ~raced',
         UNCHANGED <<nvs, n, i, told, torn>>, pc["loop"] = "rest", pc["ble"] = "rest",
         ~raced
  PROVE  Clean'
<1>1. Holds(Used, told)
  BY DEF IInv, Clean, Whole, Removing, Tasks
<1>2. Holds(Used, told)'
  BY <1>1 DEF Holds, Used, nvs
<1>3. pc'[t] = "remove" /\ \A u \in Tasks \ {t} : pc'[u] = "rest"
  BY DEF IInv, TypeOK, Step, Tasks
<1>4. Stage(t)'
  BY <1>3 DEF Stage, Removing, Adding
<1> QED BY <1>2, <1>3, <1>4, Assemble

\* The one operation in course leaves every other phone its entry and its token.
LEMMA CleanStep == IInv /\ [Next]_vars => Clean'
<1> SUFFICES ASSUME IInv, [Next]_vars, ~torn', ~raced' PROVE Clean'
  BY DEF Clean
<1>1. ASSUME NEW t \in Tasks, Remove(t) PROVE Clean'
  <2>1. ~torn /\ ~raced
    BY <1>1 DEF Remove, ReadCount, LookAt, Found, NotFound, ShiftId, ShiftToken, DropId,
                DropToken, Shrink, ghosts
  <2> QED BY <1>1, <2>1, RemoveStep
<1>2. ASSUME NEW t \in Tasks, Add(t) PROVE Clean'
  <2>1. ~torn /\ ~raced
    BY <1>2 DEF Add, Refused, Admitted, PutId, PutToken, Grow, ghosts
  <2> QED BY <1>2, <2>1, AddStep
<1>3. ASSUME NEW t \in Tasks, NEW p \in Phones, Pair(t, p) PROVE Clean'
  <2>1. ~raced /\ pc["loop"] = "rest" /\ pc["ble"] = "rest"
    BY <1>3 DEF Pair, Step, Tasks
  <2> QED BY <1>3, <2>1, StartStep DEF Pair
<1>4. ASSUME NEW p \in Phones, Unpair(p) PROVE Clean'
  <2>1. ~raced /\ pc["loop"] = "rest" /\ pc["ble"] = "rest"
    BY <1>4 DEF Unpair, Step, ghosts
  <2> QED BY <1>4, <2>1, StartStep DEF Unpair, ghosts, Tasks
<1>5. CASE ClearAll
  <2>1. Holds(Used, told)'
    BY <1>5 DEF ClearAll, Holds, Used
  <2>2. \A t \in Tasks : pc'[t] = "rest"
    BY <1>5 DEF ClearAll, AtRest
  <2> QED BY <2>1, <2>2, Assemble DEF Stage, Tasks, Removing, Adding
<1>6. CASE Crash
  <2>1. ~torn /\ ~raced /\ \A t \in Tasks : pc[t] \notin Removing
    BY <1>6 DEF Crash
  <2>2. Holds(Used, told)
    BY <2>1 DEF IInv, Clean, Whole
  <2>3. Holds(Used, told)'
    BY <1>6, <2>2 DEF Crash, Holds, Used, nvs
  <2>4. \A t \in Tasks : pc'[t] = "rest"
    BY <1>6 DEF Crash, AtRest
  <2> QED BY <2>3, <2>4, Assemble DEF Stage, Tasks, Removing, Adding
<1>7. CASE UNCHANGED vars
  BY <1>7 DEF vars, nvs, locals, ghosts, IInv, Clean, Whole, Stage, Hole, Holds, Used
<1> QED BY <1>1, <1>2, <1>3, <1>4, <1>5, <1>6, <1>7 DEF Next

LEMMA Invariance == Spec => []IInv
<1>1. IInv /\ [Next]_vars => IInv'
  BY TypeStep, BoundsStep, OneTaskStep, CleanStep DEF IInv
<1> QED BY Initially, <1>1, PTL DEF Spec

----------------------------------------------------------------------------
\* Every variable keeps its type: whatever a callback or a reset interrupts, no
\* write falls outside the table and p_count never passes its capacity.
THEOREM TypeCorrect == Spec => []TypeOK
<1>1. IInv => TypeOK
  BY DEF IInv
<1> QED BY Invariance, <1>1, PTL

\* Between operations a phone's commands are accepted exactly if it was told so.
THEOREM Pairings == Spec => []PairedAsTold
<1>1. ASSUME IInv PROVE PairedAsTold
  <2> SUFFICES ASSUME pc = AtRest, ~torn, ~raced, NEW p \in Phones
               PROVE  Accepted(p) <=> p \in told
    BY DEF PairedAsTold
  <2>1. Holds(Used, told)
    BY <1>1 DEF IInv, Clean, Whole, AtRest, Removing
  <2>2. Accepted(p) => p \in told
    BY <2>1 DEF Accepted, Holds
  <2>3. ASSUME p \in told PROVE Accepted(p)
    <3>1. PICK s \in Used : ids[s] = p
      BY <2>1, <2>3 DEF Holds
    <3>2. tokens[s] = p /\ \A r \in Used : ids[r] = p => r = s
      BY <2>1, <3>1 DEF Holds
    <3>3. s \in Nat
      BY <1>1 DEF IInv, TypeOK, Used
    <3> QED BY <3>1, <3>2, <3>3 DEF Accepted
  <2> QED BY <2>2, <2>3
<1> QED BY Invariance, <1>1, PTL

\* At every write each phone but the operation's own has its entry and its token.
THEOREM Kept == Spec => []NothingLost
<1>1. ASSUME IInv PROVE NothingLost
  <2> SUFFICES ASSUME ~torn, ~raced, NEW p \in told, \A t \in Tasks : phone[t] # p
               PROVE  \E s \in Used : ids[s] = p /\ tokens[s] = p
    BY DEF NothingLost
  <2>1. CASE \A t \in Tasks : pc[t] \notin Removing
    BY <1>1, <2>1 DEF IInv, Clean, Whole, Holds
  <2>2. CASE \E t \in Tasks : pc[t] \in Removing
    <3>1. PICK t \in Tasks : pc[t] \in Removing
      BY <2>2
    <3>2. Stage(t)
      BY <1>1 DEF IInv, Clean
    <3>3. Hole(t, i[t]) \/ Hole(t, count - 1)
      BY <3>1, <3>2 DEF Stage, Removing
    <3> QED BY <3>1, <3>3 DEF Hole, Holds
  <2> QED BY <2>1, <2>2
<1> QED BY Invariance, <1>1, PTL
=============================================================================
