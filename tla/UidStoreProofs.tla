--------------------------- MODULE UidStoreProofs ---------------------------
(***************************************************************************)
(* Proofs about UidStore, for every set of cards and every capacity.       *)
(*                                                                         *)
(* Phase says what each point of an operation has written so far: it alone *)
(* carries the refinement of UidSet, crashes included, because a shift     *)
(* only ever overwrites the card being removed or an entry already copied  *)
(* to the slot below.  Clean adds what holds as long as no crash has torn  *)
(* the table: in a shift the only repeated entry is the one just copied.   *)
(***************************************************************************)
EXTENDS UidStore, TLAPS

Phase ==
  /\ pc \in {"put", "grow"} => uid \in Cards /\ count < MAX_USER_UIDS /\ uid \notin Visible
  /\ pc = "grow" => slots[count] = uid
  /\ pc \in {"shift", "shrink"} => uid \in Cards /\ count >= 1
  /\ pc = "shift" => /\ i < count
                     /\ \/ slots[i] \in {None, uid}
                        \/ i > 0 /\ slots[i - 1] = slots[i]
  /\ pc = "shrink" => slots[count - 1] = None

Distinct(n) ==
  \A s \in 0..n - 1 : /\ slots[s] # None
                      /\ \A t \in 0..n - 1 : slots[s] = slots[t] => s = t

Shifting ==
  \A s \in Used : /\ slots[s] # None
                  /\ slots[s] = uid => s = i
                  /\ \A t \in Used : s < t /\ slots[s] = slots[t] => t = i /\ s + 1 = i

Clean ==
  ~torn => /\ pc \in {"rest", "put", "grow"} => Distinct(count)
           /\ pc = "shift" => Shifting
           /\ pc = "shrink" => /\ Distinct(count - 1)
                               /\ \A s \in 0..count - 2 : slots[s] # uid

IInv == TypeOK /\ Phase /\ Clean

LEMMA EmptyTable == [s \in Index |-> None] \in [Index -> Cards \cup {None}]
OBVIOUS

LEMMA Zero == 0 \in 0..MAX_USER_UIDS
BY StoreConstants

LEMMA Initially == Init => IInv
<1> SUFFICES ASSUME Init PROVE IInv
  OBVIOUS
<1>1. TypeOK
  BY EmptyTable, Zero DEF Init, TypeOK
<1>2. Phase
  BY DEF Init, Phase
<1>3. Clean
  BY DEF Init, Clean, Distinct
<1> QED BY <1>1, <1>2, <1>3 DEF IInv

\* Every step keeps the type.
LEMMA TypeStep == IInv /\ [Next]_vars => TypeOK'
<1> SUFFICES ASSUME IInv, [Next]_vars PROVE TypeOK'
  OBVIOUS
<1> USE StoreConstants DEF IInv, TypeOK, Phase, Index
<1>1. ASSUME NEW c \in Cards, Add(c) PROVE TypeOK'
  BY <1>1 DEF Add
<1>2. ASSUME NEW c \in Cards, NEW s \in Index, Remove(c, s) PROVE TypeOK'
  BY <1>2 DEF Remove
<1>3. CASE PutSlot
  BY <1>3 DEF PutSlot
<1>4. CASE Grow
  BY <1>4 DEF Grow
<1>5. CASE Shift
  BY <1>5 DEF Shift
<1>6. CASE RemoveLast
  BY <1>6 DEF RemoveLast
<1>7. CASE Shrink
  BY <1>7 DEF Shrink
<1>8. CASE ClearUsers
  <2> HIDE DEF Index
  <2> QED BY <1>8, EmptyTable, Zero DEF ClearUsers
<1>9. CASE Crash
  BY <1>9 DEF Crash
<1>10. CASE UNCHANGED vars
  BY <1>10 DEF vars
<1> QED BY <1>1, <1>2, <1>3, <1>4, <1>5, <1>6, <1>7, <1>8, <1>9, <1>10 DEF Next

LEMMA PhaseStep == IInv /\ [Next]_vars => Phase'
<1> SUFFICES ASSUME IInv, [Next]_vars PROVE Phase'
  OBVIOUS
<1> USE StoreConstants DEF IInv, TypeOK, Phase, Index, Visible, Used
<1>1. ASSUME NEW c \in Cards, Add(c) PROVE Phase'
  BY <1>1 DEF Add
<1>2. ASSUME NEW c \in Cards, NEW s \in Index, Remove(c, s) PROVE Phase'
  BY <1>2 DEF Remove
<1>3. CASE PutSlot
  BY <1>3 DEF PutSlot
<1>4. CASE Grow
  BY <1>4 DEF Grow
<1>5. CASE Shift
  BY <1>5 DEF Shift
<1>6. CASE RemoveLast
  BY <1>6 DEF RemoveLast
<1>7. CASE Shrink
  BY <1>7 DEF Shrink
<1>8. CASE ClearUsers
  BY <1>8 DEF ClearUsers
<1>9. CASE Crash
  BY <1>9 DEF Crash
<1>10. CASE UNCHANGED vars
  BY <1>10 DEF vars
<1> QED BY <1>1, <1>2, <1>3, <1>4, <1>5, <1>6, <1>7, <1>8, <1>9, <1>10 DEF Next

LEMMA CleanStep == IInv /\ [Next]_vars => Clean'
<1> SUFFICES ASSUME IInv, [Next]_vars PROVE Clean'
  OBVIOUS
<1> USE StoreConstants DEF IInv, TypeOK, Phase, Clean, Distinct, Index, Used
<1>1. ASSUME NEW c \in Cards, Add(c) PROVE Clean'
  BY <1>1 DEF Add
<1>2. ASSUME NEW c \in Cards, NEW s \in Index, Remove(c, s) PROVE Clean'
  BY <1>2 DEF Remove, Shifting
<1>3. CASE PutSlot
  BY <1>3 DEF PutSlot
<1>4. CASE Grow
  BY <1>4 DEF Grow, Visible
<1>5. CASE Shift
  BY <1>5 DEF Shift, Shifting
<1>6. CASE RemoveLast
  BY <1>6 DEF RemoveLast, Shifting
<1>7. CASE Shrink
  BY <1>7 DEF Shrink
<1>8. CASE ClearUsers
  BY <1>8 DEF ClearUsers
<1>9. CASE Crash
  BY <1>9 DEF Crash
<1>10. CASE UNCHANGED vars
  BY <1>10 DEF vars, Shifting
<1> QED BY <1>1, <1>2, <1>3, <1>4, <1>5, <1>6, <1>7, <1>8, <1>9, <1>10 DEF Next

LEMMA Invariance == Spec => []IInv
<1>1. IInv /\ [Next]_vars => IInv'
  BY TypeStep, PhaseStep, CleanStep DEF IInv
<1> QED BY Initially, <1>1, PTL DEF Spec

\* Every variable keeps its type: the count never exceeds the capacity, and no
\* slot beyond it is written.
THEOREM TypeCorrect == Spec => []TypeOK
<1>1. IInv => TypeOK
  BY DEF IInv
<1> QED BY Invariance, <1>1, PTL

\* removeUID revokes its card unless a crash tore the table.
THEOREM Revoked == Spec => []RemovedIsGone
<1>1. IInv => RemovedIsGone
  BY StoreConstants DEF IInv, TypeOK, Phase, Clean, RemovedIsGone, Visible, Used, Index
<1> QED BY Invariance, <1>1, PTL

\* No card twice and no hole, unless a crash tore the table.
THEOREM NoWaste == Spec => []Dense
<1>1. IInv => Dense
  BY DEF IInv, Clean, Distinct, Dense, Used
<1> QED BY Invariance, <1>1, PTL

\* A write of the shift leaves the other cards as they are.
LEMMA OnlyItsCard ==
  ASSUME IInv, Shift \/ RemoveLast
  PROVE  Visible' \in {Visible, Visible \ {uid}}
<1> USE StoreConstants DEF IInv, TypeOK, Phase, Index, Used
<1>1. ASSUME Shift
      PROVE  Visible' \subseteq Visible /\ Visible \ {uid} \subseteq Visible'
  BY <1>1 DEF Shift, Visible
<1>2. ASSUME RemoveLast
      PROVE  Visible' \subseteq Visible /\ Visible \ {uid} \subseteq Visible'
  BY <1>2 DEF RemoveLast, Visible
<1> QED BY <1>1, <1>2

\* addUID, removeUID and clearUsers are atomic for checkUID, whatever crashes
\* come between their writes, and change no card but the one presented.
THEOREM Refinement == Spec => ImplementsUidSet
<1>1. Init => Table!Init
  BY StoreConstants DEF Init, Table!Init, Table!Idle, AbsOp, Visible, Used
<1>2. IInv /\ [Next]_vars => [Table!Next]_(Table!vars)
  <2> SUFFICES ASSUME IInv, Next PROVE Table!Next \/ UNCHANGED Table!vars
    BY DEF vars, Visible, Used, AbsOp, Table!vars
  <2> USE StoreConstants DEF IInv, TypeOK, Phase, Index, Used, AbsOp,
        Table!Idle, Table!Adding, Table!Removing
  <2>1. ASSUME NEW c \in Cards, Add(c) PROVE Table!BeginAdd(c)
    BY <2>1 DEF Add, Visible, Table!BeginAdd
  <2>2. ASSUME NEW c \in Cards, NEW s \in Index, Remove(c, s) PROVE Table!BeginRemove(c)
    BY <2>2 DEF Remove, Visible, Table!BeginRemove
  <2>3. ASSUME PutSlot PROVE UNCHANGED Table!vars
    BY <2>3 DEF PutSlot, Visible, Table!vars
  <2>4. ASSUME Grow PROVE uid \in Cards /\ Table!EndAdd(uid)
    BY <2>4 DEF Grow, Visible, Table!EndAdd
  <2>5. ASSUME Shift \/ RemoveLast
        PROVE  UNCHANGED Table!vars \/ (uid \in Cards /\ Table!Revoke(uid))
    <3>1. UNCHANGED <<AbsOp, torn>> /\ uid \in Cards
      BY <2>5 DEF Shift, RemoveLast
    <3>2. AbsOp = Table!Removing(uid)
      BY <2>5 DEF Shift, RemoveLast
    <3> QED BY <2>5, <3>1, <3>2, OnlyItsCard DEF Table!vars, Table!Revoke
  <2>6. ASSUME Shrink PROVE uid \in Cards /\ Table!EndRemove(uid)
    <3>1. uid \in Cards /\ (uid \notin Visible \/ torn)
      BY <2>6 DEF Shrink, Clean, Visible
    <3>2. UNCHANGED <<Visible, torn>>
      BY <2>6 DEF Shrink, Visible
    <3> QED BY <2>6, <3>1, <3>2 DEF Shrink, Table!EndRemove
  <2>7. ASSUME ClearUsers PROVE Table!Clear
    BY <2>7 DEF ClearUsers, Visible, Table!Clear
  <2>8. ASSUME Crash PROVE uid \in Cards /\ Table!Crash(uid)
    BY <2>8 DEF Crash, Visible, Table!Crash
  <2> QED
    BY <2>1, <2>2, <2>3, <2>4, <2>5, <2>6, <2>7, <2>8 DEF Next, Table!Next
<1> QED BY <1>1, <1>2, Invariance, PTL DEF Spec, ImplementsUidSet, Table!Spec
=============================================================================
