----------------------------- MODULE AtomicVal ------------------------------
(***************************************************************************)
(* AtomicVal (competitors/xindex/xindex_util.h:131-325), the record of     *)
(* XIndex's arrays and buffers, one load or store at a time.  A status     *)
(* word holds a version, a lock bit, a removed bit and a pointer bit; the  *)
(* value is a union of a value and a pointer to another record.  Writers   *)
(* lock, change and increment the version; readers take no lock and start  *)
(* over when version or lock show that they overlapped a writer.           *)
(*                                                                         *)
(* Two records are modelled: "new", in an array that compaction has just   *)
(* made, which begins as a pointer to "old", in the array or the buffer    *)
(* that is being replaced.  Workers reach old directly, through the old    *)
(* group, until the background thread has waited for them; then it runs    *)
(* replace_pointer on new.                                                 *)
(*                                                                         *)
(* The value is one machine word (the testbed's val_t is uint64_t), so it  *)
(* is loaded and stored at once.  cmpxchg in lock() succeeds only on an    *)
(* unlocked status, and only the holder of the lock writes the status, so  *)
(* its read-modify-write of the status is one step.                        *)
(***************************************************************************)
EXTENDS Integers, FiniteSets

CONSTANTS
  Workers, Vals, Absent,
  Addr,         \* the address of record old, as stored in the union
  MaxVersion    \* bound: changes of a record; the code has 60 bits

ASSUME ValAssumption ==
  /\ Addr \notin Vals /\ Absent \notin Vals
  /\ "pending" \notin Vals \cup {Absent}   \* no value is taken for "no result"
  /\ MaxVersion \in Nat

Rec == {"new", "old"}
Cells == Vals \cup {Addr}

VARIABLES
  buffered, \* old is in a buffer, whose records know no pointers
  val,      \* the union of each record
  lock, removed, ptr, ver,   \* the fields of each record's status word
  call, seen,   \* the call of each worker, its result and its history
  pc,       \* where each worker is
  at,       \* the record it works on
  entry,    \* the record it was called on
  copy,     \* local status: the pointer, removed and version fields
  got,      \* local val_union
  bpc       \* where the background thread is

shared == <<val, lock, removed, ptr, ver>>
locals == <<at, entry, copy, got>>
vars == <<buffered, shared, call, seen, pc, locals, bpc>>

\* What the two records hold: new, or old while new still points to it.
Holder == IF ptr["new"] THEN "old" ELSE "new"
Content == IF removed[Holder] THEN Absent ELSE val[Holder]

Cell == INSTANCE AtomicCell WITH cell <- Content

NoCopy == [ptr |-> FALSE, removed |-> FALSE, ver |-> 0]

TypeOK ==
  /\ buffered \in BOOLEAN
  /\ val \in [Rec -> Cells]
  /\ lock \in [Rec -> BOOLEAN] /\ removed \in [Rec -> BOOLEAN]
  /\ ptr \in [Rec -> BOOLEAN] /\ ver \in [Rec -> Nat]
  /\ at \in [Workers -> Rec] /\ entry \in [Workers -> Rec]
  /\ copy \in [Workers -> [ptr : BOOLEAN, removed : BOOLEAN, ver : Nat]]
  /\ got \in [Workers -> Cells]
  /\ pc \in [Workers -> {"idle", "status", "value", "check", "lock", "change",
                         "version", "unlock", "return"}]
  /\ bpc \in {"wait", "lock", "copy", "removed", "unset", "version", "unlock",
             "done"}

Init ==
  /\ buffered \in BOOLEAN
  /\ \E v \in Vals : val = [r \in Rec |-> IF r = "new" THEN Addr ELSE v]
  /\ lock = [r \in Rec |-> FALSE] /\ removed = [r \in Rec |-> FALSE]
  /\ ptr = [r \in Rec |-> r = "new"] /\ ver = [r \in Rec |-> 0]
  /\ call = [w \in Workers |-> Cell!NoCall]
  /\ seen = [w \in Workers |-> {}]
  /\ pc = [w \in Workers |-> "idle"]
  /\ at = [w \in Workers |-> "new"] /\ entry = [w \in Workers |-> "new"]
  /\ copy = [w \in Workers |-> NoCopy] /\ got = [w \in Workers |-> Addr]
  /\ bpc = "wait"

-----------------------------------------------------------------------------
(* Workers.                                                                 *)

Watch == Cell!Observe(Content')
Goto(w, l) == pc' = [pc EXCEPT ![w] = l] /\ UNCHANGED <<entry, bpc>>

\* Methods of a buffer's record, which do not look at the pointer bit.
IgnoringPtr(w) == buffered /\ entry[w] = "old"

\* Bound: changes made or under way.
Room == \A r \in Rec :
          ver[r] + Cardinality({w \in Workers : call[w].op \in {"update", "remove"}})
            < MaxVersion

Invoke(w) ==
  /\ pc[w] = "idle"
  /\ \E c \in Cell!Calls, r \in Rec :
       /\ r = "old" => bpc = "wait"
       /\ c.op # "read" => Room
       /\ call' = [call EXCEPT ![w] = c]
       /\ at' = [at EXCEPT ![w] = r] /\ entry' = [entry EXCEPT ![w] = r]
       /\ pc' = [pc EXCEPT ![w] = IF c.op = "read" THEN "status" ELSE "lock"]
  /\ UNCHANGED <<shared, copy, got, bpc>>

Return(w) ==
  /\ pc[w] = "return"
  /\ call' = [call EXCEPT ![w] = Cell!NoCall]
  /\ copy' = [copy EXCEPT ![w] = NoCopy] /\ got' = [got EXCEPT ![w] = Addr]
  /\ Goto(w, "idle")
  /\ UNCHANGED <<shared, at>>

\* read, read_ignoring_ptr: status, then value.  The latter waits for the lock
\* now, the former later.
ReadStatus(w) ==
  LET r == at[w]
  IN  /\ pc[w] = "status"
      /\ IgnoringPtr(w) => ~lock[r]
      /\ copy' = [copy EXCEPT ![w] = [ptr |-> ptr[r], removed |-> removed[r],
                                      ver |-> ver[r]]]
      /\ Goto(w, "value")
      /\ UNCHANGED <<shared, call, at, got>>

ReadValue(w) ==
  /\ pc[w] = "value"
  /\ got' = [got EXCEPT ![w] = val[at[w]]]
  /\ Goto(w, "check")
  /\ UNCHANGED <<shared, call, at, copy>>

\* Fault: the second look at the status forgets the lock bit.
ValidIgnoringLock(w) == ver[at[w]] = copy[w].ver

\* The second look at the status.
Valid(w) == /\ IgnoringPtr(w) \/ ~lock[at[w]]
            /\ ver[at[w]] = copy[w].ver

Follows(w) == copy[w].ptr /\ ~IgnoringPtr(w)

ReadCheck(w) ==
  /\ pc[w] = "check"
  /\ \/ ~Valid(w) /\ Goto(w, "status") /\ UNCHANGED <<call, at>>
     \/ Valid(w) /\ Follows(w) /\ Goto(w, "status")
        /\ at' = [at EXCEPT ![w] = "old"] /\ UNCHANGED call
     \/ Valid(w) /\ ~Follows(w)
        /\ Cell!Result(w, IF copy[w].removed THEN Absent ELSE got[w])
        /\ Goto(w, "return") /\ UNCHANGED at
  /\ UNCHANGED <<shared, copy, got>>

\* lock().
Lock(w) ==
  /\ pc[w] = "lock" /\ ~lock[at[w]]
  /\ lock' = [lock EXCEPT ![at[w]] = TRUE]
  /\ Goto(w, "change")
  /\ UNCHANGED <<val, removed, ptr, ver, call, at, copy, got>>

\* update and remove, with the lock held: on to the record behind the pointer,
\* or change this one unless it has been removed.
Follow(w) ==
  /\ pc[w] = "change" /\ ptr[at[w]] /\ ~IgnoringPtr(w)
  /\ at' = [at EXCEPT ![w] = "old"]
  /\ Goto(w, "lock")
  /\ UNCHANGED <<shared, call, copy, got>>

\* Fault: a removed record is updated like any other.
ChangeAlways(w) ==
  /\ pc[w] = "change" /\ (~ptr[at[w]] \/ IgnoringPtr(w))
  /\ Cell!Result(w, "ok")
  /\ IF call[w].op = "update"
     THEN /\ val' = [val EXCEPT ![at[w]] = call[w].val]
          /\ UNCHANGED removed
     ELSE removed' = [removed EXCEPT ![at[w]] = TRUE] /\ UNCHANGED val
  /\ Goto(w, "version")
  /\ UNCHANGED <<lock, ptr, ver, at, copy, got>>

Change(w) ==
  /\ pc[w] = "change" /\ (~ptr[at[w]] \/ IgnoringPtr(w))
  /\ IF removed[at[w]]
     THEN Cell!Result(w, "failed") /\ UNCHANGED <<val, removed>>
     ELSE /\ Cell!Result(w, "ok")
          /\ IF call[w].op = "update"
             THEN /\ val' = [val EXCEPT ![at[w]] = call[w].val]
                  /\ UNCHANGED removed
             ELSE removed' = [removed EXCEPT ![at[w]] = TRUE] /\ UNCHANGED val
  /\ Goto(w, "version")
  /\ UNCHANGED <<lock, ptr, ver, at, copy, got>>

IncrVersion(w) ==
  /\ pc[w] = "version"
  /\ ver' = [ver EXCEPT ![at[w]] = @ + 1]
  /\ Goto(w, "unlock")
  /\ UNCHANGED <<val, lock, removed, ptr, call, at, copy, got>>

\* Fault: the record that was followed is unlocked, the one that led there not.
UnlockLastOnly(w) ==
  /\ pc[w] = "unlock"
  /\ lock' = [lock EXCEPT ![at[w]] = FALSE]
  /\ at' = [at EXCEPT ![w] = entry[w]]
  /\ Goto(w, "return")
  /\ UNCHANGED <<val, removed, ptr, ver, call, copy, got>>

\* unlock().  The call on the record behind the pointer returns to the one that
\* followed it, which still has to increment its own version and unlock.
Unlock(w) ==
  /\ pc[w] = "unlock"
  /\ lock' = [lock EXCEPT ![at[w]] = FALSE]
  /\ at' = [at EXCEPT ![w] = entry[w]]
  /\ Goto(w, IF at[w] = entry[w] THEN "return" ELSE "version")
  /\ UNCHANGED <<val, removed, ptr, ver, call, copy, got>>

-----------------------------------------------------------------------------
(* replace_pointer.                                                         *)

BGoto(l) == bpc' = l /\ UNCHANGED <<call, pc, locals>>

\* Behind the barrier nobody works on the old group.
Drained ==
  /\ bpc = "wait"
  /\ \A w \in Workers : pc[w] # "idle" => entry[w] = "new"
  /\ BGoto("lock")
  /\ UNCHANGED shared

\* Fault: replace_pointer does not wait for the lock.
BLockAnyway ==
  /\ bpc = "lock"
  /\ lock' = [lock EXCEPT !["new"] = TRUE]
  /\ BGoto("copy")
  /\ UNCHANGED <<val, removed, ptr, ver>>

BLock ==
  /\ bpc = "lock" /\ ~lock["new"]
  /\ lock' = [lock EXCEPT !["new"] = TRUE]
  /\ BGoto("copy")
  /\ UNCHANGED <<val, removed, ptr, ver>>

\* Fault: a removed record is copied as no value at all.
BCopyRemoved ==
  /\ bpc = "copy" /\ ~lock["old"]
  /\ val' = [val EXCEPT !["new"] = Content]
  /\ BGoto("removed")
  /\ UNCHANGED <<lock, removed, ptr, ver>>

\* val.ptr->read(val.val): whoever holds old's lock holds new's as well, so the
\* read does not overlap a change.
BCopy ==
  /\ bpc = "copy" /\ ~lock["old"]
  /\ val' = [val EXCEPT !["new"] = val["old"]]
  /\ BGoto("removed")
  /\ UNCHANGED <<lock, removed, ptr, ver>>

BSetRemoved ==
  /\ bpc = "removed"
  /\ removed' = [removed EXCEPT !["new"] = removed["old"]]
  /\ BGoto("unset")
  /\ UNCHANGED <<val, lock, ptr, ver>>

BUnsetIsPtr ==
  /\ bpc = "unset"
  /\ ptr' = [ptr EXCEPT !["new"] = FALSE]
  /\ BGoto("version")
  /\ UNCHANGED <<val, lock, removed, ver>>

BIncrVersion ==
  /\ bpc = "version"
  /\ ver' = [ver EXCEPT !["new"] = @ + 1]
  /\ BGoto("unlock")
  /\ UNCHANGED <<val, lock, removed, ptr>>

BUnlock ==
  /\ bpc = "unlock"
  /\ lock' = [lock EXCEPT !["new"] = FALSE]
  /\ BGoto("done")
  /\ UNCHANGED <<val, removed, ptr, ver>>

-----------------------------------------------------------------------------
Step(w) ==
  \/ Return(w)
  \/ ReadStatus(w) \/ ReadValue(w) \/ ReadCheck(w)
  \/ Lock(w) \/ Follow(w) \/ Change(w) \/ IncrVersion(w) \/ Unlock(w)

ReplacePointer ==
  \/ Drained \/ BLock \/ BCopy \/ BSetRemoved \/ BUnsetIsPtr \/ BIncrVersion \/ BUnlock

Next ==
  /\ \/ \E w \in Workers : Invoke(w) \/ Step(w)
     \/ ReplacePointer
  /\ UNCHANGED buffered
  /\ Watch

Spec == Init /\ [][Next]_vars

-----------------------------------------------------------------------------
(* Properties.                                                              *)

\* A pair of records is one atomic cell, before, while and after the pointer
\* is replaced by the value (xindex_util.h:195: "atomically read the value and
\* the `removed` flag").
ImplementsCell == Cell!Spec

\* A reader takes the union for a pointer only if a pointer is what it read: the
\* value that replace_pointer stores in its place is never followed
\* (xindex_util.h:211-213).
FollowsPointer ==
  \A w \in Workers :
    pc[w] = "check" /\ Valid(w) /\ Follows(w) => got[w] = Addr

\* At most one thread is inside the lock of a record, through whichever of the
\* two records it came (xindex_util.h:166-176).
Inside(r) ==
  {w \in Workers :
     \/ at[w] = r /\ pc[w] \in {"change", "version", "unlock"}
     \/ entry[w] = r /\ at[w] # r
          /\ pc[w] \in {"lock", "change", "version", "unlock"}}
MutualExclusion ==
  \A r \in Rec : \A v, w \in Inside(r) :
    v = w /\ (r = "new" => bpc \notin {"copy", "removed", "unset", "version", "unlock"})

\* A lock bit is set only while somebody is inside who will clear it: no thread
\* returns and leaves a record locked, also when it came through a pointer
\* (xindex_util.h:222-274).  As old is always locked after new, lock() of the
\* two records cannot wait for ever on one another.
LockOwned ==
  \A r \in Rec :
    lock[r] => \/ Inside(r) # {}
               \/ r = "new" /\ bpc \in {"copy", "removed", "unset", "version", "unlock"}
=============================================================================
