-------------------------- MODULE AtomicValProofs ---------------------------
(***************************************************************************)
(* Mutual exclusion and the safety of following pointers in AtomicVal, and *)
(* that it implements AtomicCell, for any workers, any values and any      *)
(* bound on the versions.                                                  *)
(***************************************************************************)
EXTENDS AtomicVal, TLAPS

\* The background thread is inside the lock of new.
BInside == bpc \in {"copy", "removed", "unset", "version", "unlock"}

CallType ==
  /\ call \in [Workers -> [op  : {"none", "read", "remove", "update"},
                           val : Vals \cup {Absent},
                           res : Cells \cup {Absent, "pending", "ok", "failed"}]]
  /\ \A w \in Workers : call[w].op = "update" => call[w].val \in Vals

\* A lock bit is set exactly while somebody is inside, who is alone there.
LockInv ==
  /\ \A r \in Rec : \A w \in Inside(r) : lock[r]
  /\ BInside => lock["new"]
  /\ MutualExclusion
  /\ LockOwned

\* old holds a value at all times, new from the middle of replace_pointer on.
\* Whoever came to old directly never meets new.
PointerInv ==
  /\ ~ptr["old"]
  /\ ptr["new"] <=> bpc \in {"wait", "lock", "copy", "removed", "unset"}
  /\ bpc \in {"wait", "lock", "copy"} => val["new"] = Addr
  /\ \A w \in Workers : entry[w] = "old" => at[w] = "old"

\* A reader that saw the pointer bit has the pointer, or the version has moved,
\* or the background thread is still inside the lock.
ReadInv ==
  \A w \in Workers :
    pc[w] \in {"value", "check"} =>
      /\ copy[w].ver <= ver[at[w]]
      /\ copy[w].ptr =>
           /\ at[w] = "new"
           /\ bpc \in {"unlock", "done"} => copy[w].ver < ver["new"]
           /\ pc[w] = "check" /\ bpc \in {"wait", "lock", "copy"} =>
                got[w] = Addr

IInv == TypeOK /\ CallType /\ LockInv /\ PointerInv /\ ReadInv

-----------------------------------------------------------------------------
\* The constructors set up the invariant (xindex_util.h:154-156).
LEMMA InitInv == Init => IInv
<1> SUFFICES ASSUME Init PROVE IInv
  OBVIOUS
<1> USE ValAssumption DEF Init, Rec, Cells, NoCopy
<1>1. TypeOK
  BY DEF TypeOK
<1>2. CallType
  BY DEF CallType, Cell!NoCall
<1>3. LockInv
  BY DEF LockInv, BInside, MutualExclusion, LockOwned, Inside
<1>4. PointerInv
  BY DEF PointerInv
<1>5. ReadInv
  BY DEF ReadInv
<1> QED
  BY <1>1, <1>2, <1>3, <1>4, <1>5 DEF IInv

\* The calls that a worker can make are well typed.
LEMMA CallsTyped ==
  ASSUME NEW c \in Cell!Calls
  PROVE  /\ c \in [op  : {"none", "read", "remove", "update"},
                   val : Vals \cup {Absent},
                   res : Cells \cup {Absent, "pending", "ok", "failed"}]
         /\ c.op = "update" => c.val \in Vals
BY DEF Cell!Calls, Cell!NoCall

\* Every step keeps the records and the locals well typed.
LEMMA NextTypeOK == IInv /\ [Next]_vars => TypeOK'
<1> SUFFICES ASSUME IInv, [Next]_vars PROVE TypeOK'
  OBVIOUS
<1>0. UNCHANGED buffered
  BY DEF Next, vars
<1> USE ValAssumption, <1>0 DEF IInv, TypeOK, CallType, Rec, Cells, NoCopy
<1>1. ASSUME NEW w \in Workers, Invoke(w) PROVE TypeOK'
  <2>1. PICK c \in Cell!Calls, r \in Rec :
          /\ call' = [call EXCEPT ![w] = c]
          /\ at' = [at EXCEPT ![w] = r] /\ entry' = [entry EXCEPT ![w] = r]
          /\ pc' = [pc EXCEPT ![w] = IF c.op = "read" THEN "status" ELSE "lock"]
          /\ UNCHANGED <<shared, copy, got, bpc>>
    BY <1>1 DEF Invoke
  <2> QED
    BY <2>1 DEF shared
<1>2. ASSUME NEW w \in Workers, Return(w) PROVE TypeOK'
  BY <1>2 DEF Return, Goto, shared, Cell!NoCall
<1>3. ASSUME NEW w \in Workers, ReadStatus(w) PROVE TypeOK'
  BY <1>3 DEF ReadStatus, Goto, shared
<1>4. ASSUME NEW w \in Workers, ReadValue(w) PROVE TypeOK'
  BY <1>4 DEF ReadValue, Goto, shared
<1>5. ASSUME NEW w \in Workers, ReadCheck(w) PROVE TypeOK'
  BY <1>5 DEF ReadCheck, Goto, shared, Cell!Result
<1>6. ASSUME NEW w \in Workers, Lock(w) PROVE TypeOK'
  BY <1>6 DEF Lock, Goto, shared
<1>7. ASSUME NEW w \in Workers, Follow(w) PROVE TypeOK'
  BY <1>7 DEF Follow, Goto, shared
<1>8. ASSUME NEW w \in Workers, Change(w) PROVE TypeOK'
  <2>1. call[w].op = "update" => call[w].val \in Vals
    OBVIOUS
  <2>2. \/ UNCHANGED val
        \/ val' = [val EXCEPT ![at[w]] = call[w].val] /\ call[w].op = "update"
    BY <1>8 DEF Change
  <2>3. UNCHANGED removed \/ removed' = [removed EXCEPT ![at[w]] = TRUE]
    BY <1>8 DEF Change
  <2>4. val' \in [Rec -> Cells]
    BY <2>1, <2>2
  <2>5. removed' \in [Rec -> BOOLEAN]
    <3>1. CASE UNCHANGED removed
      BY <3>1
    <3>2. CASE removed' = [removed EXCEPT ![at[w]] = TRUE]
      BY <3>2, Zenon
    <3> QED
      BY <2>3, <3>1, <3>2
  <2>6. /\ UNCHANGED <<lock, ptr, ver, at, entry, copy, got, bpc>>
        /\ pc' = [pc EXCEPT ![w] = "version"]
    BY <1>8 DEF Change, Goto
  <2> QED
    BY <2>4, <2>5, <2>6
<1>9. ASSUME NEW w \in Workers, IncrVersion(w) PROVE TypeOK'
  BY <1>9 DEF IncrVersion, Goto, shared
<1>10. ASSUME NEW w \in Workers, Unlock(w) PROVE TypeOK'
  BY <1>10 DEF Unlock, Goto, shared
<1>11. CASE Drained
  BY <1>11 DEF Drained, BGoto, shared, locals
<1>12. CASE BLock
  BY <1>12 DEF BLock, BGoto, shared, locals
<1>13. CASE BCopy
  BY <1>13 DEF BCopy, BGoto, shared, locals
<1>14. CASE BSetRemoved
  BY <1>14 DEF BSetRemoved, BGoto, shared, locals
<1>15. CASE BUnsetIsPtr
  BY <1>15 DEF BUnsetIsPtr, BGoto, shared, locals
<1>16. CASE BIncrVersion
  BY <1>16 DEF BIncrVersion, BGoto, shared, locals
<1>17. CASE BUnlock
  BY <1>17 DEF BUnlock, BGoto, shared, locals
<1>18. CASE UNCHANGED vars
  BY <1>18 DEF vars, shared, locals
<1> QED
  BY <1>1, <1>2, <1>3, <1>4, <1>5, <1>6, <1>7, <1>8, <1>9, <1>10, <1>11, <1>12, <1>13, <1>14, <1>15, <1>16, <1>17, <1>18
     DEF Next, Step, ReplacePointer

\* Every step keeps the calls well typed.
LEMMA NextCallType == IInv /\ [Next]_vars => CallType'
<1> SUFFICES ASSUME IInv, [Next]_vars PROVE CallType'
  OBVIOUS
<1> USE ValAssumption DEF IInv, TypeOK, CallType, Rec, Cells
<1>1. ASSUME NEW w \in Workers, Invoke(w) PROVE CallType'
  <2>1. PICK c \in Cell!Calls : call' = [call EXCEPT ![w] = c]
    BY <1>1 DEF Invoke
  <2> QED
    BY <2>1, CallsTyped
<1>2. ASSUME NEW w \in Workers, Return(w) PROVE CallType'
  BY <1>2 DEF Return, Goto, shared, Cell!NoCall
<1>3. ASSUME NEW w \in Workers, ReadStatus(w) PROVE CallType'
  BY <1>3 DEF ReadStatus, Goto, shared
<1>4. ASSUME NEW w \in Workers, ReadValue(w) PROVE CallType'
  BY <1>4 DEF ReadValue, Goto, shared
<1>5. ASSUME NEW w \in Workers, ReadCheck(w) PROVE CallType'
  <2>1. \/ UNCHANGED call
        \/ call' = [call EXCEPT ![w].res =
                      IF copy[w].removed THEN Absent ELSE got[w]]
    BY <1>5 DEF ReadCheck, Cell!Result
  <2>2. (IF copy[w].removed THEN Absent ELSE got[w])
          \in Cells \cup {Absent, "pending", "ok", "failed"}
    BY DEF Cells
  <2>3. UNCHANGED call
        \/ \E res \in Cells \cup {Absent, "pending", "ok", "failed"} :
             call' = [call EXCEPT ![w].res = res]
    BY <2>1, <2>2
  <2>4. CASE UNCHANGED call
    BY <2>4
  <2>5. ASSUME NEW res \in Cells \cup {Absent, "pending", "ok", "failed"},
               call' = [call EXCEPT ![w].res = res]
        PROVE  CallType'
    BY SMTT(30), <2>5
  <2> QED
    BY <2>3, <2>4, <2>5
<1>6. ASSUME NEW w \in Workers, Lock(w) PROVE CallType'
  BY <1>6 DEF Lock, Goto, shared
<1>7. ASSUME NEW w \in Workers, Follow(w) PROVE CallType'
  BY <1>7 DEF Follow, Goto, shared
<1>8. ASSUME NEW w \in Workers, Change(w) PROVE CallType'
  <2>1. PICK res \in {"ok", "failed"} : call' = [call EXCEPT ![w].res = res]
    BY <1>8 DEF Change, Cell!Result
  <2> QED
    BY <2>1
<1>9. ASSUME NEW w \in Workers, IncrVersion(w) PROVE CallType'
  BY <1>9 DEF IncrVersion, Goto, shared
<1>10. ASSUME NEW w \in Workers, Unlock(w) PROVE CallType'
  BY <1>10 DEF Unlock, Goto, shared
<1>11. CASE Drained
  BY <1>11 DEF Drained, BGoto, shared, locals
<1>12. CASE BLock
  BY <1>12 DEF BLock, BGoto, shared, locals
<1>13. CASE BCopy
  BY <1>13 DEF BCopy, BGoto, shared, locals
<1>14. CASE BSetRemoved
  BY <1>14 DEF BSetRemoved, BGoto, shared, locals
<1>15. CASE BUnsetIsPtr
  BY <1>15 DEF BUnsetIsPtr, BGoto, shared, locals
<1>16. CASE BIncrVersion
  BY <1>16 DEF BIncrVersion, BGoto, shared, locals
<1>17. CASE BUnlock
  BY <1>17 DEF BUnlock, BGoto, shared, locals
<1>18. CASE UNCHANGED vars
  BY <1>18 DEF vars, shared, locals
<1> QED
  BY <1>1, <1>2, <1>3, <1>4, <1>5, <1>6, <1>7, <1>8, <1>9, <1>10, <1>11, <1>12, <1>13, <1>14, <1>15, <1>16, <1>17, <1>18
     DEF Next, Step, ReplacePointer

\* lock() lets one thread in, unlock() is called by the one inside.
LEMMA NextLockInv == IInv /\ [Next]_vars => LockInv'
<1> SUFFICES ASSUME IInv, [Next]_vars PROVE LockInv'
  OBVIOUS
<1> USE ValAssumption DEF IInv, TypeOK, CallType, LockInv, PointerInv, MutualExclusion, LockOwned, Inside,
           BInside, Rec, IgnoringPtr
<1>1. ASSUME NEW w \in Workers, Invoke(w) PROVE LockInv'
  <2>1. PICK c \in Cell!Calls, r \in Rec :
          /\ call' = [call EXCEPT ![w] = c]
          /\ at' = [at EXCEPT ![w] = r] /\ entry' = [entry EXCEPT ![w] = r]
          /\ pc' = [pc EXCEPT ![w] = IF c.op = "read" THEN "status" ELSE "lock"]
          /\ UNCHANGED <<shared, copy, got, bpc>>
    BY <1>1 DEF Invoke
  <2> QED
    BY <1>1, <2>1 DEF shared, Invoke
<1>2. ASSUME NEW w \in Workers, Return(w) PROVE LockInv'
  BY <1>2 DEF Return, Goto, shared, Cell!NoCall
<1>3. ASSUME NEW w \in Workers, ReadStatus(w) PROVE LockInv'
  BY <1>3 DEF ReadStatus, Goto, shared
<1>4. ASSUME NEW w \in Workers, ReadValue(w) PROVE LockInv'
  BY <1>4 DEF ReadValue, Goto, shared
<1>5. ASSUME NEW w \in Workers, ReadCheck(w) PROVE LockInv'
  BY <1>5 DEF ReadCheck, Goto, shared, Cell!Result
<1>6. ASSUME NEW w \in Workers, Lock(w) PROVE LockInv'
  BY <1>6 DEF Lock, Goto, shared
<1>7. ASSUME NEW w \in Workers, Follow(w) PROVE LockInv'
  BY <1>7 DEF Follow, Goto, shared
<1>8. ASSUME NEW w \in Workers, Change(w) PROVE LockInv'
  BY <1>8 DEF Change, Goto, shared, Cell!Result
<1>9. ASSUME NEW w \in Workers, IncrVersion(w) PROVE LockInv'
  BY <1>9 DEF IncrVersion, Goto, shared
<1>10. ASSUME NEW w \in Workers, Unlock(w) PROVE LockInv'
  BY <1>10 DEF Unlock, Goto, shared
<1>11. CASE Drained
  BY <1>11 DEF Drained, BGoto, shared, locals
<1>12. CASE BLock
  BY <1>12 DEF BLock, BGoto, shared, locals
<1>13. CASE BCopy
  BY <1>13 DEF BCopy, BGoto, shared, locals
<1>14. CASE BSetRemoved
  BY <1>14 DEF BSetRemoved, BGoto, shared, locals
<1>15. CASE BUnsetIsPtr
  BY <1>15 DEF BUnsetIsPtr, BGoto, shared, locals
<1>16. CASE BIncrVersion
  BY <1>16 DEF BIncrVersion, BGoto, shared, locals
<1>17. CASE BUnlock
  BY <1>17 DEF BUnlock, BGoto, shared, locals
<1>18. CASE UNCHANGED vars
  BY <1>18 DEF vars, shared, locals
<1> QED
  BY <1>1, <1>2, <1>3, <1>4, <1>5, <1>6, <1>7, <1>8, <1>9, <1>10, <1>11, <1>12, <1>13, <1>14, <1>15, <1>16, <1>17, <1>18
     DEF Next, Step, ReplacePointer

\* Only replace_pointer turns the pointer into a value.
LEMMA NextPointerInv == IInv /\ [Next]_vars => PointerInv'
<1> SUFFICES ASSUME IInv, [Next]_vars PROVE PointerInv'
  OBVIOUS
<1> USE ValAssumption DEF IInv, TypeOK, CallType, PointerInv, Rec, IgnoringPtr
<1>1. ASSUME NEW w \in Workers, Invoke(w) PROVE PointerInv'
  BY <1>1, ZenonT(40) DEF Invoke, Goto, shared, Cell!Calls, Cell!NoCall
<1>2. ASSUME NEW w \in Workers, Return(w) PROVE PointerInv'
  BY <1>2 DEF Return, Goto, shared, Cell!NoCall
<1>3. ASSUME NEW w \in Workers, ReadStatus(w) PROVE PointerInv'
  BY <1>3 DEF ReadStatus, Goto, shared
<1>4. ASSUME NEW w \in Workers, ReadValue(w) PROVE PointerInv'
  BY <1>4 DEF ReadValue, Goto, shared
<1>5. ASSUME NEW w \in Workers, ReadCheck(w) PROVE PointerInv'
  BY <1>5 DEF ReadCheck, Goto, shared, Cell!Result
<1>6. ASSUME NEW w \in Workers, Lock(w) PROVE PointerInv'
  BY <1>6 DEF Lock, Goto, shared
<1>7. ASSUME NEW w \in Workers, Follow(w) PROVE PointerInv'
  BY <1>7 DEF Follow, Goto, shared
<1>8. ASSUME NEW w \in Workers, Change(w) PROVE PointerInv'
  BY <1>8 DEF Change, Goto, shared, Cell!Result
<1>9. ASSUME NEW w \in Workers, IncrVersion(w) PROVE PointerInv'
  BY <1>9 DEF IncrVersion, Goto, shared
<1>10. ASSUME NEW w \in Workers, Unlock(w) PROVE PointerInv'
  BY <1>10 DEF Unlock, Goto, shared
<1>11. CASE Drained
  BY <1>11 DEF Drained, BGoto, shared, locals
<1>12. CASE BLock
  BY <1>12 DEF BLock, BGoto, shared, locals
<1>13. CASE BCopy
  BY <1>13 DEF BCopy, BGoto, shared, locals
<1>14. CASE BSetRemoved
  BY <1>14 DEF BSetRemoved, BGoto, shared, locals
<1>15. CASE BUnsetIsPtr
  BY <1>15 DEF BUnsetIsPtr, BGoto, shared, locals
<1>16. CASE BIncrVersion
  BY <1>16 DEF BIncrVersion, BGoto, shared, locals
<1>17. CASE BUnlock
  BY <1>17 DEF BUnlock, BGoto, shared, locals
<1>18. CASE UNCHANGED vars
  BY <1>18 DEF vars, shared, locals
<1> QED
  BY <1>1, <1>2, <1>3, <1>4, <1>5, <1>6, <1>7, <1>8, <1>9, <1>10, <1>11, <1>12, <1>13, <1>14, <1>15, <1>16, <1>17, <1>18
     DEF Next, Step, ReplacePointer

\* Every change that a reader could confuse with the pointer moves the version.
LEMMA NextReadInv == IInv /\ [Next]_vars => ReadInv'
<1> SUFFICES ASSUME IInv, [Next]_vars PROVE ReadInv'
  OBVIOUS
<1> USE ValAssumption DEF IInv, TypeOK, PointerInv, ReadInv, Rec, IgnoringPtr
<1>1. ASSUME NEW w \in Workers, Invoke(w) PROVE ReadInv'
  <2>1. PICK c \in Cell!Calls, r \in Rec :
          /\ call' = [call EXCEPT ![w] = c]
          /\ at' = [at EXCEPT ![w] = r] /\ entry' = [entry EXCEPT ![w] = r]
          /\ pc' = [pc EXCEPT ![w] = IF c.op = "read" THEN "status" ELSE "lock"]
          /\ UNCHANGED <<shared, copy, got, bpc>>
    BY <1>1 DEF Invoke
  <2> QED
    BY <2>1 DEF shared
<1>2. ASSUME NEW w \in Workers, Return(w) PROVE ReadInv'
  BY <1>2 DEF Return, Goto, shared, Cell!NoCall
<1>3. ASSUME NEW w \in Workers, ReadStatus(w) PROVE ReadInv'
  BY <1>3 DEF ReadStatus, Goto, shared
<1>4. ASSUME NEW w \in Workers, ReadValue(w) PROVE ReadInv'
  BY <1>4 DEF ReadValue, Goto, shared
<1>5. ASSUME NEW w \in Workers, ReadCheck(w) PROVE ReadInv'
  BY <1>5 DEF ReadCheck, Goto, shared, Cell!Result
<1>6. ASSUME NEW w \in Workers, Lock(w) PROVE ReadInv'
  BY <1>6 DEF Lock, Goto, shared
<1>7. ASSUME NEW w \in Workers, Follow(w) PROVE ReadInv'
  BY <1>7 DEF Follow, Goto, shared
<1>8. ASSUME NEW w \in Workers, Change(w) PROVE ReadInv'
  BY <1>8 DEF Change, Goto, shared, Cell!Result
<1>9. ASSUME NEW w \in Workers, IncrVersion(w) PROVE ReadInv'
  BY <1>9 DEF IncrVersion, Goto, shared
<1>10. ASSUME NEW w \in Workers, Unlock(w) PROVE ReadInv'
  BY <1>10 DEF Unlock, Goto, shared
<1>11. CASE Drained
  BY <1>11 DEF Drained, BGoto, shared, locals
<1>12. CASE BLock
  BY <1>12 DEF BLock, BGoto, shared, locals
<1>13. CASE BCopy
  BY <1>13 DEF BCopy, BGoto, shared, locals
<1>14. CASE BSetRemoved
  BY <1>14 DEF BSetRemoved, BGoto, shared, locals
<1>15. CASE BUnsetIsPtr
  BY <1>15 DEF BUnsetIsPtr, BGoto, shared, locals
<1>16. CASE BIncrVersion
  BY <1>16 DEF BIncrVersion, BGoto, shared, locals
<1>17. CASE BUnlock
  BY <1>17 DEF BUnlock, BGoto, shared, locals
<1>18. CASE UNCHANGED vars
  BY <1>18 DEF vars, shared, locals
<1> QED
  BY <1>1, <1>2, <1>3, <1>4, <1>5, <1>6, <1>7, <1>8, <1>9, <1>10, <1>11, <1>12, <1>13, <1>14, <1>15, <1>16, <1>17, <1>18
     DEF Next, Step, ReplacePointer

-----------------------------------------------------------------------------
\* The inductive invariant holds in every reachable state.
THEOREM Safety == Spec => []IInv
<1>1. IInv /\ [Next]_vars => IInv'
  BY NextTypeOK, NextCallType, NextLockInv, NextPointerInv, NextReadInv
     DEF IInv
<1> QED
  BY InitInv, <1>1, PTL DEF Spec

\* Records and locals are well typed; in particular the union always holds a
\* value or the pointer (xindex_util.h:136-142).
THEOREM TypeCorrect == Spec => []TypeOK
<1>1. IInv => TypeOK
  BY DEF IInv
<1> QED
  BY Safety, <1>1, PTL

\* At most one thread is inside the lock of a record (xindex_util.h:166-177).
THEOREM LockExclusive == Spec => []MutualExclusion
<1>1. IInv => MutualExclusion
  BY DEF IInv, LockInv
<1> QED
  BY Safety, <1>1, PTL

\* No thread leaves a record locked behind it (xindex_util.h:222-274).
THEOREM LocksReleased == Spec => []LockOwned
<1>1. IInv => LockOwned
  BY DEF IInv, LockInv
<1> QED
  BY Safety, <1>1, PTL

\* No reader takes a value for a pointer (xindex_util.h:211-213).
THEOREM PointersFollowed == Spec => []FollowsPointer
<1>1. IInv => FollowsPointer
  <2> SUFFICES ASSUME IInv, NEW w \in Workers,
                      pc[w] = "check", Valid(w), Follows(w)
               PROVE  got[w] = Addr
    BY DEF FollowsPointer
  <2>1. at[w] = "new" /\ ~lock["new"] /\ ver["new"] = copy[w].ver
    BY DEF IInv, ReadInv, Valid, Follows
  <2>2. bpc \in {"wait", "lock", "copy"}
    BY <2>1 DEF IInv, LockInv, BInside, ReadInv, TypeOK, Follows
  <2> QED
    BY <2>2 DEF IInv, ReadInv, Follows
<1> QED
  BY Safety, <1>1, PTL

-----------------------------------------------------------------------------
(* Refinement: the records new and old together behave like one atomic       *)
(* cell, whichever of the two a worker came through and however its steps    *)
(* interleave with those of replace_pointer.                                 *)

Old == IF removed["old"] THEN Absent ELSE val["old"]

\* What the code at each place knows about the call it runs.
CallInv ==
  \A w \in Workers :
    /\ pc[w] = "idle" => call[w] = Cell!NoCall
    /\ pc[w] \in {"status", "value", "check"} => Cell!Reading(call[w])
    /\ pc[w] \in {"lock", "change"} =>
         call[w].op \in {"update", "remove"} /\ call[w].res = "pending"
    /\ pc[w] \in {"version", "unlock", "return"} => call[w].res # "pending"
    /\ call[w].op = "remove" => call[w].val = Absent

\* old holds a value, and so does new once replace_pointer has copied it.  From
\* then on until the pointer bit is cleared the two agree.
HolderInv ==
  /\ val["old"] \in Vals
  /\ bpc \notin {"wait", "lock", "copy"} => val["new"] \in Vals
  /\ bpc \in {"removed", "unset"} => val["new"] = val["old"]
  /\ bpc = "unset" => removed["new"] = removed["old"]

\* Who works on old without having passed new is gone before replace_pointer
\* starts; who changes old otherwise keeps replace_pointer out.
OldInv ==
  \A w \in Workers :
    /\ entry[w] = "old" /\ pc[w] # "idle" => bpc = "wait"
    /\ at[w] = "old" /\ pc[w] \in {"lock", "change"} => ptr["new"]

\* A reader has seen what the cell holds, and what old held when the pointer to
\* it was replaced.
SeenInv ==
  /\ seen \in [Workers -> SUBSET (Vals \cup {Absent})]
  /\ \A w \in Workers :
       /\ ~Cell!Reading(call[w]) => seen[w] = {}
       /\ Cell!Reading(call[w]) => Content \in seen[w]
       /\ Cell!Reading(call[w]) /\ at[w] = "old" => Old \in seen[w]

\* Whatever a reader has copied of a record that is no pointer, it has seen.
Snapshot(w) ==
  pc[w] \in {"value", "check"} /\ ~copy[w].ptr =>
    /\ at[w] = "new" => ~ptr["new"]
    /\ copy[w].removed => Absent \in seen[w]
    /\ ~copy[w].removed /\ pc[w] = "value" => val[at[w]] \in seen[w]
    /\ ~copy[w].removed /\ pc[w] = "check" => got[w] \in seen[w]
SnapshotInv == \A w \in Workers : Snapshot(w)

\* What a step does to old once new is no pointer any more.
OldFrozen ==
  /\ Old' = Old
  /\ \A w \in Workers :
       Cell!Reading(call'[w]) /\ at'[w] = "old" =>
         Cell!Reading(call[w]) /\ at[w] = "old"

RInv == IInv /\ CallInv /\ HolderInv /\ OldInv /\ SeenInv /\ SnapshotInv

-----------------------------------------------------------------------------
\* A worker begins with a pending call.
LEMMA CallsShape ==
  ASSUME NEW c \in Cell!Calls
  PROVE  /\ c.res = "pending" /\ c.op \in {"read", "update", "remove"}
         /\ c.op = "remove" => c.val = Absent
         /\ c.op = "update" => c.val \in Vals
BY DEF Cell!Calls, Cell!NoCall

\* A reader that finishes returns what it has seen.
LEMMA ReadOutcome ==
  ASSUME RInv, NEW w \in Workers, ReadCheck(w)
  PROVE  \/ UNCHANGED <<call>> /\ pc' = [pc EXCEPT ![w] = "status"]
         \/ \E r \in seen[w] : /\ r \in Vals \cup {Absent}
                               /\ call' = [call EXCEPT ![w].res = r]
                               /\ pc' = [pc EXCEPT ![w] = "return"]
<1>1. CASE /\ Valid(w) /\ ~Follows(w) /\ Goto(w, "return")
           /\ Cell!Result(w, IF copy[w].removed THEN Absent ELSE got[w])
  <2>1. ~copy[w].ptr /\ pc[w] = "check"
    BY <1>1
       DEF RInv, IInv, ReadInv, PointerInv, Follows, IgnoringPtr, ReadCheck
  <2>2. (IF copy[w].removed THEN Absent ELSE got[w]) \in seen[w]
    BY <2>1 DEF RInv, SnapshotInv, Snapshot
  <2>3. seen[w] \subseteq Vals \cup {Absent}
    BY DEF RInv, SeenInv
  <2> QED
    BY <1>1, <2>2, <2>3 DEF Cell!Result, Goto
<1>2. CASE Goto(w, "status") /\ UNCHANGED call
  BY <1>2 DEF Goto
<1> QED
  BY <1>1, <1>2 DEF ReadCheck

\* Each method leaves the place at which it has a result.
LEMMA NextCallInv == RInv /\ [Next]_vars => CallInv'
<1> SUFFICES ASSUME RInv, [Next]_vars PROVE CallInv'
  OBVIOUS
<1> USE ValAssumption
        DEF RInv, IInv, TypeOK, CallType, CallInv, Cell!Reading, Cell!NoCall,
            Rec
<1>1. ASSUME NEW w \in Workers, Invoke(w) PROVE CallInv'
  <2>1. PICK c \in Cell!Calls, r \in Rec :
          /\ r = "old" => bpc = "wait"
          /\ call' = [call EXCEPT ![w] = c]
          /\ at' = [at EXCEPT ![w] = r] /\ entry' = [entry EXCEPT ![w] = r]
          /\ pc' = [pc EXCEPT ![w] = IF c.op = "read" THEN "status" ELSE "lock"]
          /\ UNCHANGED <<shared, copy, got, bpc>>
    BY <1>1 DEF Invoke
  <2> QED
    BY <1>1, <2>1, CallsShape DEF shared, Invoke
<1>2. ASSUME NEW w \in Workers, Return(w) PROVE CallInv'
  BY <1>2 DEF Return, Goto, shared
<1>3. ASSUME NEW w \in Workers, ReadStatus(w) PROVE CallInv'
  BY <1>3 DEF ReadStatus, Goto, shared
<1>4. ASSUME NEW w \in Workers, ReadValue(w) PROVE CallInv'
  BY <1>4 DEF ReadValue, Goto, shared
<1>5. ASSUME NEW w \in Workers, ReadCheck(w) PROVE CallInv'
  <2>1. CASE UNCHANGED <<call>> /\ pc' = [pc EXCEPT ![w] = "status"]
    BY <1>5, <2>1 DEF ReadCheck
  <2>2. ASSUME NEW r \in Vals \cup {Absent}, call' = [call EXCEPT ![w].res = r],
               pc' = [pc EXCEPT ![w] = "return"]
        PROVE  CallInv'
    BY <1>5, <2>2
  <2> QED
    BY <1>5, <2>1, <2>2, ReadOutcome
<1>6. ASSUME NEW w \in Workers, Lock(w) PROVE CallInv'
  BY <1>6 DEF Lock, Goto, shared
<1>7. ASSUME NEW w \in Workers, Follow(w) PROVE CallInv'
  BY <1>7 DEF Follow, Goto, shared
<1>8. ASSUME NEW w \in Workers, Change(w) PROVE CallInv'
  BY <1>8 DEF Change, Goto, shared, Cell!Result
<1>9. ASSUME NEW w \in Workers, IncrVersion(w) PROVE CallInv'
  BY <1>9 DEF IncrVersion, Goto, shared
<1>10. ASSUME NEW w \in Workers, Unlock(w) PROVE CallInv'
  BY <1>10 DEF Unlock, Goto, shared
<1>11. CASE Drained
  BY <1>11 DEF Drained, BGoto, shared, locals
<1>12. CASE BLock
  BY <1>12 DEF BLock, BGoto, shared, locals
<1>13. CASE BCopy
  BY <1>13 DEF BCopy, BGoto, shared, locals
<1>14. CASE BSetRemoved
  BY <1>14 DEF BSetRemoved, BGoto, shared, locals
<1>15. CASE BUnsetIsPtr
  BY <1>15 DEF BUnsetIsPtr, BGoto, shared, locals
<1>16. CASE BIncrVersion
  BY <1>16 DEF BIncrVersion, BGoto, shared, locals
<1>17. CASE BUnlock
  BY <1>17 DEF BUnlock, BGoto, shared, locals
<1>18. CASE UNCHANGED vars
  BY <1>18 DEF vars, shared, locals
<1> QED
  BY <1>1, <1>2, <1>3, <1>4, <1>5, <1>6, <1>7, <1>8, <1>9, <1>10, <1>11,
     <1>12, <1>13, <1>14, <1>15, <1>16, <1>17, <1>18
     DEF Next, Step, ReplacePointer

\* Only update and remove change what the two records hold together: the steps of
\* replace_pointer do not (xindex_util.h:276-293).
LEMMA ContentKept ==
  ASSUME RInv, [Next]_vars, ~\E w \in Workers : Change(w)
  PROVE  UNCHANGED Content
<1> USE DEF Content, Holder
<1>1. CASE UNCHANGED <<val, removed, ptr>>
  BY <1>1
<1>2. CASE BCopy \/ BSetRemoved
  BY <1>2 DEF BCopy, BSetRemoved, RInv, IInv, TypeOK, PointerInv, Rec
<1>3. CASE BUnsetIsPtr
  BY <1>3 DEF BUnsetIsPtr, RInv, IInv, TypeOK, PointerInv, HolderInv, Rec
<1> QED
  BY <1>1, <1>2, <1>3
     DEF Next, Step, ReplacePointer, Invoke, Return, ReadStatus, ReadValue,
         ReadCheck, Lock, Follow, IncrVersion, Unlock, Drained, BLock,
         BIncrVersion, BUnlock, vars, shared

\* replace_pointer copies a value, and nobody changes old behind its back.
LEMMA NextHolderInv == RInv /\ [Next]_vars => HolderInv'
<1> SUFFICES ASSUME RInv, [Next]_vars PROVE HolderInv'
  OBVIOUS
<1> USE ValAssumption
        DEF RInv, IInv, TypeOK, CallType, HolderInv, OldInv, LockInv,
            MutualExclusion, Inside, PointerInv, CallInv, Rec
<1>1. ASSUME NEW w \in Workers, Invoke(w) PROVE HolderInv'
  BY <1>1 DEF Invoke, shared
<1>2. ASSUME NEW w \in Workers, Return(w) PROVE HolderInv'
  BY <1>2 DEF Return, Goto, shared
<1>3. ASSUME NEW w \in Workers, ReadStatus(w) PROVE HolderInv'
  BY <1>3 DEF ReadStatus, Goto, shared
<1>4. ASSUME NEW w \in Workers, ReadValue(w) PROVE HolderInv'
  BY <1>4 DEF ReadValue, Goto, shared
<1>5. ASSUME NEW w \in Workers, ReadCheck(w) PROVE HolderInv'
  BY <1>5 DEF ReadCheck, Goto, shared, Cell!Result
<1>6. ASSUME NEW w \in Workers, Lock(w) PROVE HolderInv'
  BY <1>6 DEF Lock, Goto, shared
<1>7. ASSUME NEW w \in Workers, Follow(w) PROVE HolderInv'
  BY <1>7 DEF Follow, Goto, shared
<1>8. ASSUME NEW w \in Workers, Change(w) PROVE HolderInv'
  BY <1>8 DEF Change, Goto, shared, Cell!Result
<1>9. ASSUME NEW w \in Workers, IncrVersion(w) PROVE HolderInv'
  BY <1>9 DEF IncrVersion, Goto, shared
<1>10. ASSUME NEW w \in Workers, Unlock(w) PROVE HolderInv'
  BY <1>10 DEF Unlock, Goto, shared
<1>11. CASE Drained
  BY <1>11 DEF Drained, BGoto, shared, locals
<1>12. CASE BLock
  BY <1>12 DEF BLock, BGoto, shared, locals
<1>13. CASE BCopy
  BY <1>13 DEF BCopy, BGoto, shared, locals
<1>14. CASE BSetRemoved
  BY <1>14 DEF BSetRemoved, BGoto, shared, locals
<1>15. CASE BUnsetIsPtr
  BY <1>15 DEF BUnsetIsPtr, BGoto, shared, locals
<1>16. CASE BIncrVersion
  BY <1>16 DEF BIncrVersion, BGoto, shared, locals
<1>17. CASE BUnlock
  BY <1>17 DEF BUnlock, BGoto, shared, locals
<1>18. CASE UNCHANGED vars
  BY <1>18 DEF vars, shared, locals
<1> QED
  BY <1>1, <1>2, <1>3, <1>4, <1>5, <1>6, <1>7, <1>8, <1>9, <1>10, <1>11,
     <1>12, <1>13, <1>14, <1>15, <1>16, <1>17, <1>18
     DEF Next, Step, ReplacePointer

\* Nobody enters old directly once replace_pointer may start, and a writer that
\* comes to old through new holds new's lock.
LEMMA NextOldInv == RInv /\ [Next]_vars => OldInv'
<1> SUFFICES ASSUME RInv, [Next]_vars PROVE OldInv'
  OBVIOUS
<1> USE ValAssumption
        DEF RInv, IInv, TypeOK, OldInv, LockInv, MutualExclusion, Inside,
            PointerInv, CallInv, Cell!Reading, Rec
<1>1. ASSUME NEW w \in Workers, Invoke(w) PROVE OldInv'
  <2>1. PICK c \in Cell!Calls, r \in Rec :
          /\ r = "old" => bpc = "wait"
          /\ call' = [call EXCEPT ![w] = c]
          /\ at' = [at EXCEPT ![w] = r] /\ entry' = [entry EXCEPT ![w] = r]
          /\ pc' = [pc EXCEPT ![w] = IF c.op = "read" THEN "status" ELSE "lock"]
          /\ UNCHANGED <<shared, copy, got, bpc>>
    BY <1>1 DEF Invoke
  <2> QED
    BY <1>1, <2>1, CallsShape DEF shared, Invoke
<1>2. ASSUME NEW w \in Workers, Return(w) PROVE OldInv'
  BY <1>2 DEF Return, Goto, shared
<1>3. ASSUME NEW w \in Workers, ReadStatus(w) PROVE OldInv'
  BY <1>3 DEF ReadStatus, Goto, shared
<1>4. ASSUME NEW w \in Workers, ReadValue(w) PROVE OldInv'
  BY <1>4 DEF ReadValue, Goto, shared
<1>5. ASSUME NEW w \in Workers, ReadCheck(w) PROVE OldInv'
  BY <1>5 DEF ReadCheck, Goto, shared, Cell!Result
<1>6. ASSUME NEW w \in Workers, Lock(w) PROVE OldInv'
  BY <1>6 DEF Lock, Goto, shared
<1>7. ASSUME NEW w \in Workers, Follow(w) PROVE OldInv'
  BY <1>7 DEF Follow, Goto, shared
<1>8. ASSUME NEW w \in Workers, Change(w) PROVE OldInv'
  BY <1>8 DEF Change, Goto, shared, Cell!Result
<1>9. ASSUME NEW w \in Workers, IncrVersion(w) PROVE OldInv'
  BY <1>9 DEF IncrVersion, Goto, shared
<1>10. ASSUME NEW w \in Workers, Unlock(w) PROVE OldInv'
  BY <1>10 DEF Unlock, Goto, shared
<1>11. CASE Drained
  BY <1>11 DEF Drained, BGoto, shared, locals
<1>12. CASE BLock
  BY <1>12 DEF BLock, BGoto, shared, locals
<1>13. CASE BCopy
  BY <1>13 DEF BCopy, BGoto, shared, locals
<1>14. CASE BSetRemoved
  BY <1>14 DEF BSetRemoved, BGoto, shared, locals
<1>15. CASE BUnsetIsPtr
  BY <1>15 DEF BUnsetIsPtr, BGoto, shared, locals
<1>16. CASE BIncrVersion
  BY <1>16 DEF BIncrVersion, BGoto, shared, locals
<1>17. CASE BUnlock
  BY <1>17 DEF BUnlock, BGoto, shared, locals
<1>18. CASE UNCHANGED vars
  BY <1>18 DEF vars, shared, locals
<1> QED
  BY <1>1, <1>2, <1>3, <1>4, <1>5, <1>6, <1>7, <1>8, <1>9, <1>10, <1>11,
     <1>12, <1>13, <1>14, <1>15, <1>16, <1>17, <1>18
     DEF Next, Step, ReplacePointer

\* Once the pointer is gone old does not change, and no reader comes to it.
LEMMA OldKept == RInv /\ [Next]_vars /\ ~ptr'["new"] => OldFrozen
<1> SUFFICES ASSUME RInv, [Next]_vars, ~ptr'["new"]
             PROVE  OldFrozen
  OBVIOUS
<1> USE ValAssumption
        DEF RInv, IInv, TypeOK, CallType, OldInv, LockInv, BInside,
            PointerInv, CallInv, Old, OldFrozen, Cell!Reading, Rec
<1>1. ASSUME NEW w \in Workers, Invoke(w) PROVE OldFrozen
  <2>1. PICK c \in Cell!Calls, r \in Rec :
          /\ r = "old" => bpc = "wait"
          /\ call' = [call EXCEPT ![w] = c]
          /\ at' = [at EXCEPT ![w] = r] /\ entry' = [entry EXCEPT ![w] = r]
          /\ pc' = [pc EXCEPT ![w] = IF c.op = "read" THEN "status" ELSE "lock"]
          /\ UNCHANGED <<shared, copy, got, bpc>>
    BY <1>1, ZenonT(40) DEF Invoke
  <2> QED
    BY <1>1, <2>1, CallsShape DEF shared, Invoke
<1>2. ASSUME NEW w \in Workers, Return(w) PROVE OldFrozen
  BY <1>2 DEF Return, Goto, shared, Cell!NoCall
<1>3. ASSUME NEW w \in Workers, ReadStatus(w) PROVE OldFrozen
  BY <1>3 DEF ReadStatus, Goto, shared
<1>4. ASSUME NEW w \in Workers, ReadValue(w) PROVE OldFrozen
  BY <1>4 DEF ReadValue, Goto, shared
<1>5. ASSUME NEW w \in Workers, ReadCheck(w) PROVE OldFrozen
  <2>1. UNCHANGED <<shared, bpc>> /\ pc[w] = "check"
    BY <1>5 DEF ReadCheck, Goto
  <2>2. ~(Valid(w) /\ Follows(w))
    BY <2>1 DEF Valid, Follows, IgnoringPtr, ReadInv, shared
  <2>3. UNCHANGED at
    BY <1>5, <2>2 DEF ReadCheck
  <2>4. \A u \in Workers : u # w => call'[u] = call[u]
    BY SMTT(30), <1>5, ReadOutcome
  <2> QED
    BY <2>1, <2>3, <2>4 DEF shared
<1>6. ASSUME NEW w \in Workers, Lock(w) PROVE OldFrozen
  BY <1>6 DEF Lock, Goto, shared
<1>7. ASSUME NEW w \in Workers, Follow(w) PROVE OldFrozen
  BY <1>7 DEF Follow, Goto, shared
<1>8. ASSUME NEW w \in Workers, Change(w) PROVE OldFrozen
  <2>1. UNCHANGED <<ptr, at>> /\ pc[w] = "change"
    BY <1>8 DEF Change
  <2>2. at[w] = "new"
    BY <2>1
  <2>3. val'["old"] = val["old"] /\ removed'["old"] = removed["old"]
    BY <1>8, <2>2 DEF Change
  <2>4. \A u \in Workers : u # w => call'[u] = call[u]
    BY <1>8 DEF Change, Cell!Result
  <2> QED
    BY SMTT(30), <2>1, <2>2, <2>3, <2>4
<1>9. ASSUME NEW w \in Workers, IncrVersion(w) PROVE OldFrozen
  BY <1>9 DEF IncrVersion, Goto, shared
<1>10. ASSUME NEW w \in Workers, Unlock(w) PROVE OldFrozen
  BY <1>10 DEF Unlock, Goto, shared
<1>11. CASE Drained
  BY <1>11 DEF Drained, BGoto, shared, locals
<1>12. CASE BLock
  BY <1>12 DEF BLock, BGoto, shared, locals
<1>13. CASE BCopy
  BY <1>13 DEF BCopy, BGoto, shared, locals
<1>14. CASE BSetRemoved
  BY <1>14 DEF BSetRemoved, BGoto, shared, locals
<1>15. CASE BUnsetIsPtr
  BY <1>15 DEF BUnsetIsPtr, BGoto, shared, locals
<1>16. CASE BIncrVersion
  BY <1>16 DEF BIncrVersion, BGoto, shared, locals
<1>17. CASE BUnlock
  BY <1>17 DEF BUnlock, BGoto, shared, locals
<1>18. CASE UNCHANGED vars
  BY <1>18 DEF vars, shared, locals
<1> QED
  BY <1>1, <1>2, <1>3, <1>4, <1>5, <1>6, <1>7, <1>8, <1>9, <1>10, <1>11,
     <1>12, <1>13, <1>14, <1>15, <1>16, <1>17, <1>18
     DEF Next, Step, ReplacePointer

\* A reader keeps what it has seen and adds what the cell holds now.
LEMMA SeenGrows ==
  ASSUME RInv, [Next]_vars, NEW w \in Workers, Cell!Reading(call'[w])
  PROVE  /\ Content' \in seen'[w]
         /\ Cell!Reading(call[w]) => seen[w] \subseteq seen'[w]
<1>1. CASE Next
  BY <1>1 DEF Next, Watch, Cell!Observe
<1>2. CASE UNCHANGED vars
  BY <1>2 DEF vars, shared, Content, Holder, RInv, SeenInv, Cell!Reading
<1> QED
  BY <1>1, <1>2

\* The cell holds a value or nothing.
LEMMA ContentTyped == RInv => Content \in Vals \cup {Absent}
BY DEF RInv, IInv, TypeOK, HolderInv, PointerInv, Content, Holder, Rec

\* Readers see what the cell holds; one that is at old has seen its last value.
LEMMA NextSeenInv == RInv /\ [Next]_vars => SeenInv'
<1> SUFFICES ASSUME RInv, [Next]_vars PROVE SeenInv'
  OBVIOUS
<1>1. HolderInv' /\ PointerInv' /\ TypeOK'
  BY NextHolderInv, NextPointerInv, NextTypeOK DEF RInv
<1>2. Content' \in Vals \cup {Absent}
  BY <1>1 DEF TypeOK, HolderInv, PointerInv, Content, Holder, Rec
<1>3. seen \in [Workers -> SUBSET (Vals \cup {Absent})]
  BY DEF RInv, SeenInv
<1>4. /\ seen' \in [Workers -> SUBSET (Vals \cup {Absent})]
      /\ \A w \in Workers : ~Cell!Reading(call'[w]) => seen'[w] = {}
  <2>1. CASE Next
    BY <1>2, <1>3, <2>1 DEF Next, Watch, Cell!Observe
  <2>2. CASE UNCHANGED vars
    BY <2>2 DEF vars, RInv, SeenInv, Cell!Reading
  <2> QED
    BY <2>1, <2>2
<1>5. ASSUME NEW w \in Workers, Cell!Reading(call'[w]), at'[w] = "old"
      PROVE  Old' \in seen'[w]
  <2>1. CASE ptr'["new"]
    BY <1>5, <2>1, SeenGrows DEF Content, Holder, Old
  <2>2. CASE ~ptr'["new"]
    <3>1. OldFrozen
      BY <2>2, OldKept
    <3>2. Old \in seen[w] /\ Cell!Reading(call[w])
      BY <1>5, <3>1 DEF OldFrozen, RInv, SeenInv
    <3> QED
      BY <1>5, <3>1, <3>2, SeenGrows DEF OldFrozen
  <2> QED
    BY <2>1, <2>2
<1> QED
  BY <1>4, <1>5, SeenGrows DEF SeenInv

\* A reader that is not the one to step keeps its snapshot, if the record it
\* reads keeps its value or gets the one the cell holds now.
LEMMA SnapshotKept ==
  ASSUME RInv, [Next]_vars, NEW w \in Workers,
         UNCHANGED <<pc[w], at[w], copy[w], got[w]>>,
         ptr'["new"] => ptr["new"],
         \/ at[w] = "new" /\ ptr["new"]
         \/ val'[at[w]] = val[at[w]]
         \/ val'[at[w]] = Content'
  PROVE  Snapshot(w)'
<1> SUFFICES ASSUME pc[w] \in {"value", "check"}, ~copy[w].ptr
             PROVE  Snapshot(w)'
  BY DEF Snapshot
<1>1. Cell!Reading(call[w]) /\ Cell!Reading(call'[w])
  BY NextCallInv DEF RInv, CallInv
<1>2. seen[w] \subseteq seen'[w] /\ Content' \in seen'[w]
  BY <1>1, SeenGrows
<1> QED
  BY <1>2 DEF RInv, SnapshotInv, Snapshot

\* A removed record is never updated, so a value read after a status without the
\* removed bit is one the cell held during the call.
LEMMA NextSnapshotInv == RInv /\ [Next]_vars => SnapshotInv'
<1> SUFFICES ASSUME RInv, [Next]_vars PROVE SnapshotInv'
  OBVIOUS
<1> USE DEF RInv, IInv, TypeOK, Rec
<1>1. ASSUME NEW w \in Workers, Invoke(w) PROVE SnapshotInv'
  <2>1. ASSUME NEW u \in Workers, u # w PROVE Snapshot(u)'
    BY <1>1, <2>1, SnapshotKept DEF Invoke, Goto, shared
  <2>2. Snapshot(w)'
    BY <1>1 DEF Invoke, Goto, Snapshot
  <2> QED
    BY <2>1, <2>2 DEF SnapshotInv
<1>2. ASSUME NEW w \in Workers, Return(w) PROVE SnapshotInv'
  <2>1. ASSUME NEW u \in Workers, u # w PROVE Snapshot(u)'
    BY <1>2, <2>1, SnapshotKept DEF Return, Goto, shared
  <2>2. Snapshot(w)'
    BY <1>2 DEF Return, Goto, Snapshot
  <2> QED
    BY <2>1, <2>2 DEF SnapshotInv
<1>3. ASSUME NEW w \in Workers, ReadStatus(w) PROVE SnapshotInv'
  <2>1. ASSUME NEW u \in Workers, u # w PROVE Snapshot(u)'
    BY <1>3, <2>1, SnapshotKept DEF ReadStatus, Goto, shared
  <2>2. Snapshot(w)'
    <3>1. /\ pc' = [pc EXCEPT ![w] = "value"] /\ UNCHANGED <<shared, call, at>>
          /\ copy'[w] = [ptr |-> ptr[at[w]], removed |-> removed[at[w]],
                         ver |-> ver[at[w]]]
      BY <1>3 DEF ReadStatus, Goto
    <3>2. Cell!Reading(call[w])
      BY <1>3 DEF ReadStatus, RInv, CallInv
    <3>3. Content \in seen'[w] /\ (at[w] = "old" => Old \in seen'[w])
      BY <3>1, <3>2, SeenGrows DEF RInv, SeenInv
    <3> QED
      BY <3>1, <3>3 DEF Snapshot, Content, Holder, Old, shared
  <2> QED
    BY <2>1, <2>2 DEF SnapshotInv
<1>4. ASSUME NEW w \in Workers, ReadValue(w) PROVE SnapshotInv'
  <2>1. ASSUME NEW u \in Workers, u # w PROVE Snapshot(u)'
    BY <1>4, <2>1, SnapshotKept DEF ReadValue, Goto, shared
  <2>2. Snapshot(w)'
    <3>1. /\ pc[w] = "value" /\ pc' = [pc EXCEPT ![w] = "check"]
          /\ got' = [got EXCEPT ![w] = val[at[w]]]
          /\ UNCHANGED <<shared, call, at, copy>>
      BY <1>4 DEF ReadValue, Goto
    <3>2. Cell!Reading(call[w])
      BY <3>1 DEF RInv, CallInv
    <3>3. seen[w] \subseteq seen'[w]
      BY <3>1, <3>2, SeenGrows
    <3> QED
      BY <3>1, <3>3 DEF Snapshot, SnapshotInv, RInv, shared
  <2> QED
    BY <2>1, <2>2 DEF SnapshotInv
<1>5. ASSUME NEW w \in Workers, ReadCheck(w) PROVE SnapshotInv'
  <2>1. ASSUME NEW u \in Workers, u # w PROVE Snapshot(u)'
    BY <1>5, <2>1, SnapshotKept DEF ReadCheck, Goto, shared
  <2>2. Snapshot(w)'
    BY <1>5 DEF ReadCheck, Goto, Snapshot
  <2> QED
    BY <2>1, <2>2 DEF SnapshotInv
<1>6. ASSUME NEW w \in Workers, Lock(w) PROVE SnapshotInv'
  <2>1. ASSUME NEW u \in Workers, u # w PROVE Snapshot(u)'
    BY <1>6, <2>1, SnapshotKept DEF Lock, Goto, shared
  <2>2. Snapshot(w)'
    BY <1>6 DEF Lock, Goto, Snapshot
  <2> QED
    BY <2>1, <2>2 DEF SnapshotInv
<1>7. ASSUME NEW w \in Workers, Follow(w) PROVE SnapshotInv'
  <2>1. ASSUME NEW u \in Workers, u # w PROVE Snapshot(u)'
    BY <1>7, <2>1, SnapshotKept DEF Follow, Goto, shared
  <2>2. Snapshot(w)'
    BY <1>7 DEF Follow, Goto, Snapshot
  <2> QED
    BY <2>1, <2>2 DEF SnapshotInv
<1>8. ASSUME NEW w \in Workers, Change(w) PROVE SnapshotInv'
  <2>1. pc[w] = "change" /\ (at[w] = "old" => ptr["new"])
        /\ UNCHANGED <<ptr, at, copy, got>> /\ pc' = [pc EXCEPT ![w] = "version"]
    BY <1>8 DEF Change, Goto, RInv, OldInv
  <2>2. ASSUME NEW u \in Workers, u # w PROVE Snapshot(u)'
    <3>1. CASE at[u] = "new" /\ ptr["new"]
      BY <2>1, <2>2, <3>1, SnapshotKept
    <3>2. CASE at[u] # at[w]
      <4>1. val'[at[u]] = val[at[u]]
        BY <1>8, <3>2 DEF Change
      <4> QED
        BY <2>1, <2>2, <4>1, SnapshotKept
    <3>3. CASE at[u] = at[w] /\ ~(at[u] = "new" /\ ptr["new"])
      <4>1. at[w] = Holder /\ Holder' = Holder
        BY <2>1, <3>3 DEF Holder
      <4>2. val'[at[u]] = val[at[u]] \/ val'[at[u]] = Content'
        BY <1>8, <3>3, <4>1 DEF Change, Content
      <4> QED
        BY <2>1, <2>2, <4>2, SnapshotKept
    <3> QED
      BY <3>1, <3>2, <3>3
  <2>3. Snapshot(w)'
    BY <2>1 DEF Snapshot
  <2> QED
    BY <2>2, <2>3 DEF SnapshotInv
<1>9. ASSUME NEW w \in Workers, IncrVersion(w) PROVE SnapshotInv'
  <2>1. ASSUME NEW u \in Workers, u # w PROVE Snapshot(u)'
    BY <1>9, <2>1, SnapshotKept DEF IncrVersion, Goto, shared
  <2>2. Snapshot(w)'
    BY <1>9 DEF IncrVersion, Goto, Snapshot
  <2> QED
    BY <2>1, <2>2 DEF SnapshotInv
<1>10. ASSUME NEW w \in Workers, Unlock(w) PROVE SnapshotInv'
  <2>1. ASSUME NEW u \in Workers, u # w PROVE Snapshot(u)'
    BY <1>10, <2>1, SnapshotKept DEF Unlock, Goto, shared
  <2>2. Snapshot(w)'
    BY <1>10 DEF Unlock, Goto, Snapshot
  <2> QED
    BY <2>1, <2>2 DEF SnapshotInv
<1>11. CASE Drained
  BY <1>11, SnapshotKept DEF Drained, BGoto, shared, locals, SnapshotInv
<1>12. CASE BLock
  BY <1>12, SnapshotKept DEF BLock, BGoto, shared, locals, SnapshotInv
<1>13. CASE BCopy
  BY <1>13, SnapshotKept DEF BCopy, BGoto, locals, SnapshotInv, PointerInv
<1>14. CASE BSetRemoved
  BY <1>14, SnapshotKept DEF BSetRemoved, BGoto, shared, locals, SnapshotInv
<1>15. CASE BUnsetIsPtr
  BY <1>15, SnapshotKept DEF BUnsetIsPtr, BGoto, shared, locals, SnapshotInv
<1>16. CASE BIncrVersion
  BY <1>16, SnapshotKept DEF BIncrVersion, BGoto, shared, locals, SnapshotInv
<1>17. CASE BUnlock
  BY <1>17, SnapshotKept DEF BUnlock, BGoto, shared, locals, SnapshotInv
<1>18. CASE UNCHANGED vars
  BY <1>18, SnapshotKept DEF vars, shared, locals, SnapshotInv
<1> QED
  BY <1>1, <1>2, <1>3, <1>4, <1>5, <1>6, <1>7, <1>8, <1>9, <1>10, <1>11,
     <1>12, <1>13, <1>14, <1>15, <1>16, <1>17, <1>18
     DEF Next, Step, ReplacePointer

-----------------------------------------------------------------------------
\* The strengthened invariant holds at the start, when new points to old.
LEMMA InitRInv == Init => RInv
<1> SUFFICES ASSUME Init PROVE RInv
  OBVIOUS
<1> USE ValAssumption DEF Init, Rec
<1>1. IInv
  BY InitInv
<1>2. CallInv
  BY DEF CallInv, Cell!NoCall, Cell!Reading
<1>3. HolderInv
  BY DEF HolderInv
<1>4. OldInv
  BY DEF OldInv
<1>5. SeenInv
  BY DEF SeenInv, Cell!NoCall, Cell!Reading
<1>6. SnapshotInv
  BY DEF SnapshotInv, Snapshot
<1> QED
  BY <1>1, <1>2, <1>3, <1>4, <1>5, <1>6 DEF RInv

\* ... and after every step.
LEMMA NextRInv == RInv /\ [Next]_vars => RInv'
BY NextTypeOK, NextCallType, NextLockInv, NextPointerInv, NextReadInv,
   NextCallInv, NextHolderInv, NextOldInv, NextSeenInv, NextSnapshotInv
   DEF RInv, IInv

\* A step that neither changes what the records hold nor what a worker is told
\* is no step of the cell: its readers have already seen what it holds.
LEMMA Stutter ==
  ASSUME RInv, [Next]_vars, UNCHANGED <<Content, call>>
  PROVE  UNCHANGED Cell!vars
<1>1. CASE Next
  <2>1. seen' = [w \in Workers |->
                   IF ~Cell!Reading(call[w]) THEN {} ELSE seen[w] \cup {Content}]
    BY <1>1 DEF Next, Watch, Cell!Observe, Cell!Reading
  <2>2. seen \in [Workers -> SUBSET (Vals \cup {Absent})]
    BY DEF RInv, SeenInv
  <2>3. ASSUME NEW w \in Workers PROVE seen'[w] = seen[w]
    BY <2>1, <2>3 DEF RInv, SeenInv
  <2>4. seen' = seen
    BY <2>1, <2>2, <2>3
  <2> QED
    BY <2>4 DEF Cell!vars
<1>2. CASE UNCHANGED vars
  BY <1>2 DEF vars, Cell!vars
<1> QED
  BY <1>1, <1>2

\* Every step of AtomicVal is a step of AtomicCell or changes nothing there: a
\* call takes effect in Change and gets its result in Change or ReadCheck.
LEMMA StepRefines == RInv /\ [Next]_vars => [Cell!Next]_(Cell!vars)
<1> SUFFICES ASSUME RInv, [Next]_vars PROVE [Cell!Next]_(Cell!vars)
  OBVIOUS
<1>1. Next => Cell!Observe(Content')
  BY DEF Next, Watch
<1>2. CASE UNCHANGED vars
  BY <1>2, Stutter DEF vars, shared, Content, Holder
<1>3. ASSUME NEW w \in Workers, Invoke(w), Next PROVE Cell!Next
  <2>1. call[w] = Cell!NoCall
    BY <1>3 DEF Invoke, RInv, CallInv
  <2>2. UNCHANGED Content
    BY <1>3 DEF Invoke, shared, Content, Holder
  <2>3. \E c \in Cell!Calls : call' = [call EXCEPT ![w] = c]
    BY <1>3 DEF Invoke
  <2> QED
    BY <1>1, <1>3, <2>1, <2>2, <2>3 DEF Cell!Next, Cell!Invoke
<1>4. ASSUME NEW w \in Workers, Return(w), Next PROVE Cell!Next
  <2>1. call[w].res # "pending"
    BY <1>4 DEF Return, RInv, CallInv
  <2>2. UNCHANGED Content
    BY <1>4 DEF Return, shared, Content, Holder
  <2> QED
    BY <1>1, <1>4, <2>1, <2>2 DEF Cell!Next, Cell!Return, Return
<1>5. ASSUME NEW w \in Workers, ReadCheck(w), Next PROVE [Cell!Next]_(Cell!vars)
  <2>1. UNCHANGED Content
    BY <1>5 DEF ReadCheck, shared, Content, Holder
  <2>2. CASE UNCHANGED <<call>>
    BY <2>1, <2>2, Stutter
  <2>3. CASE \E r \in seen[w] : call' = [call EXCEPT ![w].res = r]
    <3>1. Cell!Reading(call[w])
      BY <1>5 DEF ReadCheck, RInv, CallInv
    <3> QED
      BY <1>1, <1>5, <2>1, <2>3, <3>1 DEF Cell!Next, Cell!Read, Cell!Result
  <2> QED
    BY <1>5, <2>2, <2>3, ReadOutcome
<1>6. ASSUME NEW w \in Workers, Change(w), Next PROVE Cell!Next
  <2>1. /\ call[w].op \in {"update", "remove"} /\ call[w].res = "pending"
        /\ call[w].op = "remove" => call[w].val = Absent
    BY <1>6 DEF Change, RInv, CallInv
  <2>2. at[w] = Holder /\ Holder' = Holder
    <3>1. UNCHANGED ptr /\ pc[w] = "change"
      BY <1>6 DEF Change
    <3>2. at[w] = "old" => ptr["new"]
      BY <3>1 DEF RInv, OldInv
    <3>3. at[w] = "new" => ~ptr["new"]
      BY <1>6 DEF Change, IgnoringPtr, RInv, IInv, PointerInv
    <3> QED
      BY <3>1, <3>2, <3>3 DEF Holder, RInv, IInv, TypeOK, Rec
  <2>3. val[Holder] \in Vals /\ Holder \in Rec
    BY DEF Holder, RInv, IInv, TypeOK, HolderInv, PointerInv, Rec
  <2>4. CASE removed[at[w]]
    <3>1. Cell!Result(w, "failed") /\ UNCHANGED <<val, removed>>
      BY <1>6, <2>4 DEF Change
    <3>2. Content = Absent /\ UNCHANGED Content
      BY <2>2, <2>4, <3>1 DEF Content
    <3> QED
      BY <1>1, <1>6, <2>1, <3>1, <3>2 DEF Cell!Next, Cell!Change
  <2>5. CASE ~removed[at[w]]
    <3>1. Cell!Result(w, "ok")
      BY <1>6, <2>5 DEF Change
    <3>2. Content # Absent
      BY <2>2, <2>3, <2>5, ValAssumption DEF Content
    <3>3. Content' = call[w].val
      <4>1. CASE call[w].op = "update"
        <5>1. val' = [val EXCEPT ![at[w]] = call[w].val] /\ UNCHANGED removed
          BY <1>6, <2>5, <4>1 DEF Change
        <5>2. val'[at[w]] = call[w].val
          BY <5>1, <2>2, <2>3 DEF RInv, IInv, TypeOK
        <5> QED
          BY <2>2, <2>5, <5>1, <5>2 DEF Content
      <4>2. CASE call[w].op = "remove"
        <5>1. removed' = [removed EXCEPT ![at[w]] = TRUE]
          BY <1>6, <2>5, <4>2 DEF Change
        <5>2. removed'[at[w]]
          BY <5>1, <2>2, <2>3, Zenon DEF RInv, IInv, TypeOK
        <5> QED
          BY <2>1, <2>2, <4>2, <5>2 DEF Content
      <4> QED
        BY <2>1, <4>1, <4>2
    <3> QED
      BY <1>1, <1>6, <2>1, <3>1, <3>2, <3>3 DEF Cell!Next, Cell!Change
  <2> QED
    BY <2>4, <2>5
<1>7. ASSUME UNCHANGED call, Next, ~\E w \in Workers : Change(w)
      PROVE  UNCHANGED Cell!vars
  BY <1>7, ContentKept, Stutter
<1>8. ASSUME NEW w \in Workers, Next, ~\E v \in Workers : Change(v),
             ReadStatus(w) \/ ReadValue(w) \/ Lock(w) \/ Follow(w)
               \/ IncrVersion(w) \/ Unlock(w)
      PROVE  UNCHANGED Cell!vars
  <2>1. UNCHANGED call
    BY <1>8 DEF ReadStatus, ReadValue, Lock, Follow, IncrVersion, Unlock
  <2> QED
    BY <1>7, <1>8, <2>1
<1>9. ASSUME Next, ~\E w \in Workers : Change(w), ReplacePointer
      PROVE  UNCHANGED Cell!vars
  <2>1. UNCHANGED call
    BY <1>9
       DEF ReplacePointer, Drained, BLock, BCopy, BSetRemoved, BUnsetIsPtr,
                BIncrVersion, BUnlock, BGoto
  <2> QED
    BY <1>7, <1>9, <2>1
<1> QED
  BY <1>2, <1>3, <1>4, <1>5, <1>6, <1>8, <1>9 DEF Next, Step

\* A pair of records is one atomic cell (xindex_util.h:195: "atomically read the
\* value and the `removed` flag"): every behaviour of the code is a behaviour of
\* AtomicCell, before, while and after replace_pointer (xindex_util.h:276-293).
THEOREM CellImplemented == Spec => ImplementsCell
<1>1. ASSUME Init PROVE Cell!Init
  <2>1. Holder = "old" /\ val["old"] \in Vals
    BY <1>1, InitRInv DEF Init, RInv, IInv, PointerInv, HolderInv, Holder
  <2>2. ~removed["old"]
    BY <1>1 DEF Init, Rec
  <2> QED
    BY <1>1, <2>1, <2>2 DEF Init, Cell!Init, Content
<1> QED
  BY <1>1, InitRInv, NextRInv, StepRefines, PTL
     DEF Spec, ImplementsCell, Cell!Spec
=============================================================================
