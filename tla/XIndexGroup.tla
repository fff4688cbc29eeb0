---------------------------- MODULE XIndexGroup ----------------------------
(***************************************************************************)
(* Groups of XIndex under concurrent maintenance (competitors/xindex).     *)
(*                                                                         *)
(* A group keeps its records on up to three levels: data, a sorted array   *)
(* that only background threads replace; buffer, which takes inserts; and  *)
(* buffer_temp, which takes them while buffer is merged into a new array.  *)
(* A new array first holds pointers to the records of the old levels, so   *)
(* that workers on the old and on the new group share every value, and     *)
(* gets its own values once nobody can reach the old group any more.       *)
(* Workers call get, put, remove and scan while a background thread        *)
(* compacts, splits and merges groups and replaces their models.           *)
(*                                                                         *)
(* Records (AtomicVal) are read and written atomically.  The rcu_barrier   *)
(* of module XIndexRCU is what its grace period guarantees: it returns     *)
(* when every call that was in progress when it began has returned or      *)
(* retried.  A level is a function from keys to records; the buffer's tree *)
(* (module BufferTree) and the array's models only say how a record is     *)
(* found.                                                                  *)
(***************************************************************************)
EXTENDS Integers, FiniteSets, Sequences

CONSTANTS
  Workers, Vals, Absent,
  Keys,       \* unsigned integers: the split pivot is a median
  GroupIds, StoreIds,  \* addresses of groups, and of arrays and buffers
  Scenarios   \* each a record with the fields of plan

VARIABLES
  plan,    \* script: the calls each worker may make; kinds: the maintenance that
           \* may happen; slot0: group 1 or 2 that holds each key at first;
           \* loads: what each key may be loaded with; groups, stores: bounds, the
           \* addresses in use at a time
  pc, call, seen, ret,  \* every worker: place, call, history; last result
  gp,      \* the group locate_group returned
  ref,     \* the level a pointer read from data led to
  cur,     \* cursors and result of a scan
  dir,     \* dir[k] is the group locate_group(k) would return
  group,   \* the groups in memory and what they point to
  store,   \* the records of each level
  galloc, salloc,       \* groups and levels that are allocated
  bpc,     \* place of the background thread
  job,     \* the groups it replaces and those it made
  todo,    \* records merge_refs_internal, then replace_pointer, has to visit
  refs,    \* references merge_refs_internal has collected
  wait     \* workers that the barrier waits for

wvars == <<pc, call, gp, ref>>
bvars == <<dir, group, galloc, salloc, bpc, job, todo, refs>>
vars == <<plan, wvars, cur, bvars, seen, ret, store, wait>>

Null == 0

-----------------------------------------------------------------------------
(* Records and levels.                                                      *)

None == [st |-> "none", x |-> Absent]
Removed == [st |-> "removed", x |-> Absent]
Live(v) == [st |-> "live", x |-> v]
Pointer(s) == [st |-> "ptr", x |-> s]
Record == {None, Removed} \cup {Live(v) : v \in Vals}
            \cup {Pointer(s) : s \in StoreIds}

Empty == [k \in Keys |-> None]
NoGroup == [data |-> Null, buffer |-> Null, temp |-> Null, frozen |-> FALSE]
\* A scan has a cursor on every level.  It has not seen the end of those in more;
\* pos is the last key it has read there, pre what it has read ahead.
NoScan == [more |-> {}, pos |-> <<0, 0, 0>>, pre |-> <<<<>>, <<>>, <<>>>>, out |-> <<>>]
NoJob == [kind |-> "none", old |-> <<>>, mid |-> <<>>, new |-> <<>>]

\* The level whose record of k AtomicVal's read, update and remove end up at.
Target(s, k) == IF store[s][k].st = "ptr" THEN store[s][k].x ELSE s
IsLive(s, k) == s # Null /\ store[Target(s, k)][k].st = "live"
ValueAt(s, k) == store[Target(s, k)][k].x
Write(s, k, r) == store' = [store EXCEPT ![Target(s, k)][k] = r]

Levels(g) == <<group[g].data, group[g].buffer, group[g].temp>>

\* The value a get of k finds if nothing else happens.
Lookup(k) ==
  LET g == group[dir[k]]
  IN  IF IsLive(g.data, k) THEN ValueAt(g.data, k)
      ELSE IF IsLive(g.buffer, k) THEN ValueAt(g.buffer, k)
      ELSE IF IsLive(g.temp, k) THEN ValueAt(g.temp, k)
      ELSE Absent

Map == INSTANCE ConcurrentMap WITH map <- [k \in Keys |-> Lookup(k)]

\* The bounds of a scenario are finite.
ASSUME GroupAssumption ==
  /\ Keys \subseteq Nat \ {Null}
  /\ GroupIds \subseteq Nat \ {Null} /\ StoreIds \subseteq Nat \ {Null}
  /\ \A s \in Scenarios :
       /\ s.script \in [Workers -> SUBSET Map!Calls]
       /\ s.kinds \subseteq {"compact", "merge", "split", "model"}
       /\ s.slot0 \in [Keys -> {1, 2}] /\ s.loads \in [Keys -> SUBSET (Vals \cup {Absent})]
       /\ {1, 2} \subseteq s.groups /\ s.groups \subseteq GroupIds
       /\ {1, 2, 3, 4} \subseteq s.stores /\ s.stores \subseteq StoreIds
       /\ IsFiniteSet(s.groups) /\ IsFiniteSet(s.stores)
  /\ Absent \notin Vals

TypeOK ==
  /\ pc \in [Workers -> {"idle", "locate", "array", "deref", "buffer", "temp",
                         "which", "frozen", "insert", "update",
                         "fetch", "follow"}]
  /\ \A w \in Workers : call[w] \in Map!Calls \cup {Map!NoCall}
  /\ \A w \in Workers : call[w].op # "scan" => seen[w] \subseteq Vals \cup {Absent}
  /\ ret.who \in Workers \cup {Absent}
  /\ gp \in [Workers -> GroupIds \cup {Null}]
  /\ \A w \in Workers : /\ cur[w].more \subseteq 1..3
                        /\ cur[w].pos \in [1..3 -> Int]
                        /\ cur[w].out \in Seq(Keys \X Vals)
  /\ ref \in [Workers -> StoreIds \cup {Null}]
  /\ dir \in [Keys -> GroupIds]
  /\ group \in [GroupIds -> [data : StoreIds \cup {Null},
                             buffer : StoreIds \cup {Null},
                             temp : StoreIds \cup {Null}, frozen : BOOLEAN]]
  /\ store \in [StoreIds -> [Keys -> Record]]
  /\ galloc \subseteq GroupIds /\ salloc \subseteq StoreIds
  /\ todo \subseteq StoreIds \X Keys /\ refs \subseteq StoreIds \X Keys
  /\ wait \subseteq Workers
  /\ bpc \in {"rest", "freeze", "drain", "temp", "collect", "publish",
              "quiesce", "replace", "settle", "discard"}

\* Groups 1 and 2 with the arrays 1 and 2 and the buffers 3 and 4.  Group::init
\* fills an array with at least one record.
Init ==
  /\ plan \in Scenarios
  /\ pc = [w \in Workers |-> "idle"]
  /\ call = [w \in Workers |-> Map!NoCall]
  /\ ret = Map!Quiet
  /\ gp = [w \in Workers |-> Null] /\ ref = [w \in Workers |-> Null]
  /\ cur = [w \in Workers |-> NoScan]
  /\ seen = [w \in Workers |-> {}]
  /\ dir = plan.slot0
  /\ galloc = {plan.slot0[k] : k \in Keys}
  /\ salloc = galloc \cup {g + 2 : g \in galloc}
  /\ group = [g \in GroupIds |-> IF g \in galloc
                THEN [NoGroup EXCEPT !.data = g, !.buffer = g + 2] ELSE NoGroup]
  /\ \E loaded \in [Keys -> Vals \cup {Absent}] :
       /\ \A k \in Keys : loaded[k] \in plan.loads[k]
       /\ \A g \in galloc : \E k \in Keys : plan.slot0[k] = g /\ loaded[k] # Absent
       /\ store = [s \in StoreIds |-> [k \in Keys |->
                     IF s = plan.slot0[k] /\ loaded[k] # Absent
                     THEN Live(loaded[k]) ELSE None]]
  /\ bpc = "rest" /\ job = NoJob
  /\ todo = {} /\ refs = {} /\ wait = {}

-----------------------------------------------------------------------------
(* Workers.                                                                 *)

\* Callers' view of a step: the history of the gets and removes in progress.
Noticed == Map!Observe([k \in Keys |-> Lookup(k)']) /\ UNCHANGED plan
Watch == Noticed /\ UNCHANGED cur

Goto(w, l) ==
  /\ pc' = [pc EXCEPT ![w] = l]
  /\ ret' = Map!Quiet
  /\ UNCHANGED <<call, gp, wait>>
Go(w, l) == Goto(w, l) /\ ref' = [ref EXCEPT ![w] = Null]
Drop(w) == gp' = [gp EXCEPT ![w] = Null] /\ ref' = [ref EXCEPT ![w] = Null]

Key(w) == call[w].key

\* The call returns r.  It no longer holds back a barrier: the worker's counter
\* moves when its next call begins.
Return(w, r) ==
  /\ Map!Return(w, r)
  /\ pc' = [pc EXCEPT ![w] = "idle"]
  /\ wait' = wait \ {w}
  /\ Drop(w)

\* rcu_progress, which every call begins with.
Begin(w) ==
  /\ pc[w] = "idle"
  /\ \E c \in plan.script[w] : call' = [call EXCEPT ![w] = c]
  /\ ret' = Map!Quiet
  /\ pc' = [pc EXCEPT ![w] = "locate"]
  /\ UNCHANGED <<gp, ref, bvars, store, wait>>
  /\ Watch

\* locate_group: the root's slot for the key, then the chain that hangs off it.
Locate(w) ==
  /\ pc[w] = "locate"
  /\ gp' = [gp EXCEPT ![w] = dir[Key(w)]]
  /\ pc' = [pc EXCEPT ![w] = "array"]
  /\ ret' = Map!Quiet
  /\ UNCHANGED <<call, ref, wait, bvars, store>>
  /\ Watch

\* get_from_array; a pointer has been read by the time it is followed.
GetArray(w) ==
  LET r == store[group[gp[w]].data][Key(w)]
  IN  /\ pc[w] = "array" /\ call[w].op = "get"
      /\ \/ r.st = "live" /\ Return(w, r.x)
         \/ /\ r.st = "ptr" /\ Goto(w, "deref")
            /\ ref' = [ref EXCEPT ![w] = r.x]
         \/ r.st \in {"none", "removed"} /\ Goto(w, "buffer") /\ UNCHANGED ref
      /\ UNCHANGED <<bvars, store>>
      /\ Watch

\* get_from_buffer, and AtomicVal::read of the record a pointer leads to.
GetLevel(w, s, next) ==
  /\ IF IsLive(s, Key(w)) THEN Return(w, store[s][Key(w)].x) ELSE Go(w, next)
  /\ UNCHANGED <<bvars, store>>
  /\ Watch

GetDeref(w) == pc[w] = "deref" /\ GetLevel(w, ref[w], "buffer")

GetBuffer(w) ==
  /\ pc[w] = "buffer" /\ call[w].op = "get"
  /\ GetLevel(w, group[gp[w]].buffer, "temp")

GetTemp(w) ==
  LET s == group[gp[w]].temp
  IN  /\ pc[w] = "temp" /\ call[w].op = "get"
      /\ Return(w, IF IsLive(s, Key(w)) THEN store[s][Key(w)].x ELSE Absent)
      /\ UNCHANGED <<bvars, store>>
      /\ Watch

\* Overwrite or remove a live record of level s, or go on.
ChangeLevel(w, s, r, next) ==
  /\ IF IsLive(s, Key(w)) THEN Write(s, Key(w), r) /\ Return(w, "ok")
                          ELSE UNCHANGED store /\ Go(w, next)
  /\ UNCHANGED bvars
  /\ Watch

\* update_to_array.
PutArray(w) ==
  /\ pc[w] = "array" /\ call[w].op = "put"
  /\ ChangeLevel(w, group[gp[w]].data, Live(call[w].val), "which")

\* buffer_temp == nullptr?
PutWhich(w) ==
  /\ pc[w] = "which"
  /\ Go(w, IF group[gp[w]].temp = Null THEN "frozen" ELSE "update")
  /\ UNCHANGED <<bvars, store>>
  /\ Watch

\* result_t::retry: XIndex::put calls rcu_progress and starts over.
Retry(w) ==
  /\ pc' = [pc EXCEPT ![w] = "locate"]
  /\ wait' = wait \ {w}
  /\ Drop(w)
  /\ ret' = Map!Quiet
  /\ UNCHANGED call

PutFrozen(w) ==
  /\ pc[w] = "frozen"
  /\ IF group[gp[w]].frozen THEN Retry(w) ELSE Go(w, "insert")
  /\ UNCHANGED <<bvars, store>>
  /\ Watch

\* Fault: a put that has found buffer_temp goes straight to it.
PutSkipsBuffer(w) ==
  /\ pc[w] = "update"
  /\ Go(w, "temp")
  /\ UNCHANGED <<bvars, store>>
  /\ Watch

\* update_to_buffer.
PutUpdate(w) ==
  /\ pc[w] = "update"
  /\ ChangeLevel(w, group[gp[w]].buffer, Live(call[w].val), "temp")

\* insert_to_buffer, which overwrites the record of the key if there is one.
PutInsert(w) ==
  /\ call[w].op = "put"
  /\ LET s == IF pc[w] = "insert" THEN group[gp[w]].buffer
                                  ELSE group[gp[w]].temp
     IN  /\ pc[w] \in {"insert", "temp"}
         /\ store' = [store EXCEPT ![s][Key(w)] = Live(call[w].val)]
  /\ Return(w, "ok")
  /\ UNCHANGED bvars
  /\ Watch

RemoveArray(w) ==
  /\ pc[w] = "array" /\ call[w].op = "remove"
  /\ ChangeLevel(w, group[gp[w]].data, Removed, "buffer")

RemoveBuffer(w) ==
  /\ pc[w] = "buffer" /\ call[w].op = "remove"
  /\ ChangeLevel(w, group[gp[w]].buffer, Removed, "temp")

RemoveTemp(w) ==
  LET s == group[gp[w]].temp
  IN  /\ pc[w] = "temp" /\ call[w].op = "remove"
      /\ IF IsLive(s, Key(w)) THEN Write(s, Key(w), Removed) /\ Return(w, "ok")
                              ELSE UNCHANGED store /\ Return(w, "failed")
      /\ UNCHANGED bvars
      /\ Watch

-----------------------------------------------------------------------------
(* Group::scan, for all keys from the first one on: scan_2_way, scan_3_way. *)

\* buffer_temp decides which of the two it is.
ScanOpen(w) ==
  /\ pc[w] = "array" /\ call[w].op = "scan"
  /\ cur' = [cur EXCEPT ![w].more = IF group[gp[w]].temp = Null THEN 1..2 ELSE 1..3,
                        ![w].pos = [l \in 1..3 |-> Key(w) - 1]]
  /\ Go(w, "fetch")
  /\ UNCHANGED <<bvars, store>>
  /\ Noticed

\* The records that the cursor of level l still has before it.
Ahead(w, l) ==
  {k \in Keys : k > cur[w].pos[l] /\ store[Levels(gp[w])[l]][k].st # "none"}
Dry(w) == {l \in cur[w].more : cur[w].pre[l] = <<>>}

\* advance_to_next_valid reads a record.  The array is read up to the first record
\* that is live, a buffer to the end of the leaf, wherever that is.  First reads
\* may come in any order: a leaf without a live record is followed by another.
ScanFetch(w) ==
  /\ pc[w] = "fetch"
  /\ \E l \in cur[w].more :
       LET k == CHOOSE k \in Ahead(w, l) : \A j \in Ahead(w, l) : k <= j
           r == store[Levels(gp[w])[l]][k]
       IN  /\ Ahead(w, l) # {} /\ (l = 1 => l \in Dry(w))
           /\ IF r.st = "ptr"
              THEN Goto(w, "follow") /\ ref' = [ref EXCEPT ![w] = r.x] /\ UNCHANGED cur
              ELSE /\ cur' = [cur EXCEPT ![w].pos[l] = k, ![w].pre[l] =
                                IF r.st = "live" THEN Append(@, <<k, r.x>>) ELSE @]
                   /\ Go(w, "fetch")
  /\ UNCHANGED <<bvars, store>>
  /\ Noticed

\* There is no next record: has_next becomes and stays false.
ScanExhaust(w) ==
  /\ pc[w] = "fetch"
  /\ \E l \in cur[w].more :
       /\ Ahead(w, l) = {}
       /\ cur' = [cur EXCEPT ![w].more = @ \ {l}]
  /\ Go(w, "fetch")
  /\ UNCHANGED <<bvars, store>>
  /\ Noticed

\* AtomicVal::read of the record that a pointer in the array leads to.
ScanFollow(w) ==
  LET k == CHOOSE k \in Ahead(w, 1) : \A j \in Ahead(w, 1) : k <= j
  IN  /\ pc[w] = "follow"
      /\ cur' = [cur EXCEPT ![w].pos[1] = k, ![w].pre[1] =
                   IF IsLive(ref[w], k) THEN Append(@, <<k, store[ref[w]][k].x>>) ELSE @]
      /\ Go(w, "fetch")
      /\ UNCHANGED <<bvars, store>>
      /\ Noticed

\* The cursor whose key is less than all others, the last one if there is none.
Least(w) ==
  LET ready == {l \in 1..3 : cur[w].pre[l] # <<>>}
      key(l) == cur[w].pre[l][1][1]
      least == {l \in ready : \A m \in ready \ {l} : key(l) < key(m)}
  IN  IF least # {} THEN least
      ELSE {l \in ready : \A m \in ready : m <= l}

ScanMerge(w) ==
  /\ pc[w] = "fetch" /\ Dry(w) = {}
  /\ \E l \in Least(w) :
       cur' = [cur EXCEPT ![w].out = Append(@, Head(cur[w].pre[l])),
                          ![w].pre[l] = Tail(@)]
  /\ Go(w, "fetch")
  /\ UNCHANGED <<bvars, store>>
  /\ Noticed

ScanEnd(w) ==
  /\ pc[w] = "fetch" /\ Dry(w) = {} /\ Least(w) = {}
  /\ Return(w, cur[w].out)
  /\ cur' = [cur EXCEPT ![w] = NoScan]
  /\ UNCHANGED <<bvars, store>>
  /\ Noticed

-----------------------------------------------------------------------------
(* The background thread: do_adjustment on the groups it is responsible for.*)

\* No call returns in a step of maintenance.
Unnoticed == ret' = Map!Quiet /\ Watch

\* One or another of the addresses that are free; what was freed is used again.
Fresh(free, n) ==
  LET first == CHOOSE i \in free : TRUE
  IN  IF n = 1 THEN first ELSE CHOOSE i \in free \ {first} : TRUE
NewGroup(n) == Fresh(plan.groups \ galloc, n)
NewStore(n) == Fresh(plan.stores \ salloc, n)
Room(g, s) == /\ Cardinality(plan.groups \ galloc) >= g
              /\ Cardinality(plan.stores \ salloc) >= s

Holders == {dir[k] : k \in Keys}
KeysOf(g) == {k \in Keys : dir[k] = g}

\* Fault: the barrier waits for nobody.
BarrierOfNobody(l) == bpc' = l /\ wait' = {}

\* rcu_barrier, passed at place l when wait is empty.
Barrier(l) == bpc' = l /\ wait' = {w \in Workers : pc[w] # "idle"}

\* Point the slots of the keys in K at group g.
Redirect(K, g) == dir' = [k \in Keys |-> IF k \in K THEN g ELSE dir[k]]

\* compact_phase_1 and merge_group begin by freezing the buffers.
BeginCompact ==
  /\ bpc = "rest" /\ "compact" \in plan.kinds /\ Room(1, 2)
  /\ \E g \in Holders : job' = [NoJob EXCEPT !.kind = "compact", !.old = <<g>>]
  /\ bpc' = "freeze"
  /\ UNCHANGED <<wvars, store, wait, dir, group, galloc, salloc, todo, refs>>
  /\ Unnoticed

BeginMerge ==
  /\ bpc = "rest" /\ "merge" \in plan.kinds /\ Room(1, 2)
  /\ \E g, h \in Holders :
       /\ \A j \in KeysOf(g), k \in KeysOf(h) : j < k
       /\ job' = [NoJob EXCEPT !.kind = "merge", !.old = <<g, h>>]
  /\ bpc' = "freeze"
  /\ UNCHANGED <<wvars, store, wait, dir, group, galloc, salloc, todo, refs>>
  /\ Unnoticed

Unfrozen == {i \in 1..Len(job.old) : ~group[job.old[i]].frozen}

\* Fault: only the first group of a merge is frozen.
FreezeFirstOnly ==
  /\ bpc = "freeze"
  /\ group' = [group EXCEPT ![job.old[1]].frozen = TRUE]
  /\ Barrier("drain")
  /\ UNCHANGED <<wvars, store, dir, galloc, salloc, job, todo, refs>>
  /\ Unnoticed

Freeze ==
  /\ bpc = "freeze"
  /\ \E i \in Unfrozen :
       /\ \A j \in Unfrozen : i <= j
       /\ group' = [group EXCEPT ![job.old[i]].frozen = TRUE]
       /\ IF Unfrozen = {i} THEN Barrier("drain") ELSE UNCHANGED <<bpc, wait>>
  /\ UNCHANGED <<wvars, store, dir, galloc, salloc, job, todo, refs>>
  /\ Unnoticed

\* What merge_refs_internal reads: the arrays and buffers of the old groups.
SourcesOf(g) == {group[g].data, group[g].buffer}
Sources == UNION {SourcesOf(job.old[i]) : i \in 1..Len(job.old)}
BeginCollect ==
  /\ bpc' = "collect"
  /\ todo' = {t \in Sources \X Keys : store[t[1]][t[2]] # None}

NewTemp ==
  /\ bpc = "drain" /\ wait = {} /\ job.kind \in {"compact", "merge"}
  /\ group' = [group EXCEPT ![job.old[1]].temp = NewStore(1)]
  /\ salloc' = salloc \cup {NewStore(1)}
  /\ IF job.kind = "merge" THEN bpc' = "temp" /\ UNCHANGED todo
                           ELSE BeginCollect
  /\ UNCHANGED <<wvars, store, wait, dir, galloc, job, refs>>
  /\ Unnoticed

\* next_group.buffer_temp = buffer_temp.
ShareTemp ==
  /\ bpc = "temp"
  /\ group' = [group EXCEPT ![job.old[2]].temp = group[job.old[1]].temp]
  /\ BeginCollect
  /\ UNCHANGED <<wvars, store, wait, dir, galloc, salloc, job, refs>>
  /\ Unnoticed

\* split_group_pt1 and the store that publishes the two intermediate groups.
\* They share the array and the buffer of the old group, which is not frozen.
Present(g) == {k \in Keys : store[group[g].data][k].st # "none"}
Pivot(g) == CHOOSE p \in Present(g) :
  Cardinality({k \in Present(g) : k < p}) = Cardinality(Present(g)) \div 2

BeginSplit ==
  /\ bpc = "rest" /\ "split" \in plan.kinds /\ Room(4, 4)
  /\ \E g \in Holders :
       LET i(n) == [group[g] EXCEPT !.frozen = TRUE, !.temp = NewStore(n)]
       IN  /\ Present(g) # {}
           /\ job' = [NoJob EXCEPT !.kind = "split", !.old = <<g>>,
                                   !.mid = <<NewGroup(1), NewGroup(2)>>]
           /\ group' = [group EXCEPT ![NewGroup(1)] = i(1),
                                     ![NewGroup(2)] = i(2)]
           /\ dir' = [k \in Keys |-> IF k \notin KeysOf(g) THEN dir[k]
                        ELSE IF k < Pivot(g) THEN NewGroup(1) ELSE NewGroup(2)]
  /\ galloc' = galloc \cup {NewGroup(1), NewGroup(2)}
  /\ salloc' = salloc \cup {NewStore(1), NewStore(2)}
  /\ Barrier("drain")
  /\ UNCHANGED <<wvars, store, todo, refs>>
  /\ Unnoticed

\* split_group_pt2 begins behind the barrier.
SplitDrained ==
  /\ bpc = "drain" /\ wait = {} /\ job.kind = "split"
  /\ BeginCollect
  /\ UNCHANGED <<wvars, store, wait, dir, group, galloc, salloc, job, refs>>
  /\ Unnoticed

\* merge_refs_internal takes a reference to every record that it finds live.
\* Its two cursors go through the keys in order; here they need not keep step.
\* merge_refs_with is through with the first group before it begins the second.
CollectRef ==
  /\ bpc = "collect"
  /\ \E t \in todo :
       /\ \A u \in todo :
            /\ u[1] = t[1] => t[2] <= u[2]
            /\ u[1] \in SourcesOf(job.old[1]) => t[1] \in SourcesOf(job.old[1])
       /\ todo' = todo \ {t}
       /\ refs' = IF IsLive(t[1], t[2]) THEN refs \cup {t} ELSE refs
  /\ UNCHANGED <<wvars, store, wait, dir, group, galloc, salloc, bpc, job>>
  /\ Unnoticed

\* A new array of references to the records of the keys in K.
RefsTo(K) == [k \in Keys |->
  IF k \in K /\ \E t \in refs : t[2] = k
  THEN Pointer((CHOOSE t \in refs : t[2] = k)[1]) ELSE None]

\* The group with that array; buffer_temp becomes its buffer.
OnArray(s, g) == [NoGroup EXCEPT !.data = s, !.buffer = group[g].temp]

MakeGroup ==
  /\ bpc = "collect" /\ todo = {} /\ job.kind # "split"
  /\ group' = [group EXCEPT ![NewGroup(1)] = OnArray(NewStore(1), job.old[1])]
  /\ store' = [store EXCEPT ![NewStore(1)] = RefsTo(Keys)]
  /\ galloc' = galloc \cup {NewGroup(1)} /\ salloc' = salloc \cup {NewStore(1)}
  /\ job' = [job EXCEPT !.new = <<NewGroup(1)>>]
  /\ refs' = {} /\ bpc' = "publish"
  /\ UNCHANGED <<wvars, wait, dir, todo>>
  /\ Unnoticed

MakeGroups ==
  /\ bpc = "collect" /\ todo = {} /\ job.kind = "split"
  /\ group' = [group EXCEPT ![NewGroup(1)] = OnArray(NewStore(1), job.mid[1]),
                            ![NewGroup(2)] = OnArray(NewStore(2), job.mid[2])]
  /\ store' = [store EXCEPT ![NewStore(1)] = RefsTo(KeysOf(job.mid[1])),
                            ![NewStore(2)] = RefsTo(KeysOf(job.mid[2]))]
  /\ galloc' = galloc \cup {NewGroup(1), NewGroup(2)}
  /\ salloc' = salloc \cup {NewStore(1), NewStore(2)}
  /\ job' = [job EXCEPT !.new = <<NewGroup(1), NewGroup(2)>>]
  /\ refs' = {} /\ bpc' = "publish"
  /\ UNCHANGED <<wvars, wait, dir, todo>>
  /\ Unnoticed

\* *group = new_group, and for a merge *next_group = new_group after it.
Publish ==
  /\ bpc = "publish"
  /\ \/ /\ job.kind = "compact"
        /\ Redirect(KeysOf(job.old[1]), job.new[1]) /\ Barrier("quiesce")
     \/ /\ job.kind = "split"
        /\ dir' = [k \in Keys |-> IF dir[k] = job.mid[1] THEN job.new[1]
                            ELSE IF dir[k] = job.mid[2] THEN job.new[2]
                            ELSE dir[k]]
        /\ Barrier("quiesce")
     \/ /\ job.kind = "merge" /\ job.old[1] \in Holders
        /\ Redirect(KeysOf(job.old[1]), job.new[1]) /\ UNCHANGED <<bpc, wait>>
     \/ /\ job.kind = "merge" /\ job.old[1] \notin Holders
        /\ Redirect(KeysOf(job.old[2]), job.new[1]) /\ Barrier("quiesce")
  /\ UNCHANGED <<wvars, store, group, galloc, salloc, job, todo, refs>>
  /\ Unnoticed

\* compact_phase_2 of every new group visits all of its records.
BeginReplace ==
  /\ bpc = "quiesce" /\ wait = {}
  /\ bpc' = "replace"
  /\ todo' = {t \in {group[job.new[i]].data : i \in 1..Len(job.new)} \X Keys :
                store[t[1]][t[2]].st = "ptr"}
  /\ UNCHANGED <<wvars, store, wait, dir, group, galloc, salloc, job, refs>>
  /\ Unnoticed

\* Fault: the value is copied without looking whether it was removed.
ReplaceIgnoresRemoved(s, k) == Live(ValueAt(s, k))

\* replace_pointer.
Replaced(s, k) ==
  IF IsLive(s, k) THEN Live(ValueAt(s, k)) ELSE Removed

ReplacePointer ==
  /\ bpc = "replace"
  /\ \E t \in todo :
       /\ todo' = todo \ {t}
       /\ store' = [store EXCEPT ![t[1]][t[2]] = Replaced(t[1], t[2])]
  /\ UNCHANGED <<wvars, wait, dir, group, galloc, salloc, bpc, job, refs>>
  /\ Unnoticed

EndReplace ==
  /\ bpc = "replace" /\ todo = {}
  /\ Barrier("settle")
  /\ UNCHANGED <<wvars, store, dir, group, galloc, salloc, job, todo, refs>>
  /\ Unnoticed

Delete(G) ==
  /\ galloc' = galloc \ G
  /\ group' = [g \in GroupIds |-> IF g \in G THEN NoGroup ELSE group[g]]
  /\ job' = NoJob /\ bpc' = "rest"

\* free_data and free_buffer of the old groups, and delete of all groups that
\* were replaced.
Free ==
  /\ bpc = "settle" /\ wait = {}
  /\ salloc' = salloc \ Sources
  /\ store' = [s \in StoreIds |-> IF s \in Sources THEN Empty ELSE store[s]]
  /\ Delete({job.old[i] : i \in 1..Len(job.old)}
              \cup {job.mid[i] : i \in 1..Len(job.mid)})
  /\ UNCHANGED <<wvars, wait, dir, todo, refs>>
  /\ Unnoticed

\* split_model and merge_model: a copy of the group on the same levels.
BeginModel ==
  /\ bpc = "rest" /\ "model" \in plan.kinds /\ Room(1, 0)
  /\ \E g \in Holders :
       /\ job' = [NoJob EXCEPT !.kind = "model", !.old = <<g>>]
       /\ group' = [group EXCEPT ![NewGroup(1)] =
                      [group[g] EXCEPT !.frozen = FALSE]]
       /\ Redirect(KeysOf(g), NewGroup(1))
  /\ galloc' = galloc \cup {NewGroup(1)}
  /\ Barrier("discard")
  /\ UNCHANGED <<wvars, store, salloc, todo, refs>>
  /\ Unnoticed

EndModel ==
  /\ bpc = "discard" /\ wait = {}
  /\ Delete({job.old[1]})
  /\ UNCHANGED <<wvars, store, wait, dir, salloc, todo, refs>>
  /\ Unnoticed

-----------------------------------------------------------------------------
Continue(w) ==
  \/ Locate(w)
  \/ GetArray(w) \/ GetDeref(w) \/ GetBuffer(w) \/ GetTemp(w)
  \/ PutArray(w) \/ PutWhich(w) \/ PutFrozen(w) \/ PutUpdate(w) \/ PutInsert(w)
  \/ RemoveArray(w) \/ RemoveBuffer(w) \/ RemoveTemp(w)
  \/ ScanOpen(w) \/ ScanFetch(w) \/ ScanFollow(w)
  \/ ScanExhaust(w) \/ ScanMerge(w) \/ ScanEnd(w)

BeginRound == BeginCompact \/ BeginMerge \/ BeginSplit \/ BeginModel

ContinueRound ==
  \/ Freeze \/ NewTemp \/ ShareTemp \/ SplitDrained \/ CollectRef
  \/ MakeGroup \/ MakeGroups \/ Publish \/ BeginReplace \/ ReplacePointer
  \/ EndReplace \/ Free \/ EndModel

Next ==
  \/ \E w \in Workers : Begin(w) \/ Continue(w)
  \/ BeginRound
  \/ ContinueRound

Spec == Init /\ [][Next]_vars

-----------------------------------------------------------------------------
(* Properties.                                                              *)

Using == {w \in Workers : pc[w] \notin {"idle", "locate"}}

\* A key is live on one level of a group at most, whoever uses the group: what
\* scan_2_way, scan_3_way and merge_refs_internal assert of the keys they merge
\* (xindex_group_impl.h:891, 964, 1040, 1107), since updates are made in place.
NoDuplicateKey ==
  \A g \in Holders \cup {gp[w] : w \in Using}, k \in Keys :
    \A l, m \in 1..3 :
      IsLive(Levels(g)[l], k) /\ IsLive(Levels(g)[m], k) => l = m

\* No call reaches freed memory: neither its group, nor a level of its group,
\* nor a record that a pointer it may follow leads to (the three barriers of
\* xindex_root_impl.h:418-492 are there for this).
Reach(g) ==
  LET s == {Levels(g)[l] : l \in 1..3} \ {Null}
  IN  s \cup {Target(d, k) : d \in s, k \in Keys}
NoDangling ==
  /\ \A g \in Holders \cup {gp[w] : w \in Using} :
       g \in galloc /\ Reach(g) \subseteq salloc
  /\ \A w \in Workers : pc[w] \in {"deref", "follow"} => ref[w] \in salloc

\* The index implements a map with atomic operations, whatever maintenance is
\* under way: no put is lost, no removed key comes back, no get returns a value
\* the key did not have during the call, a scan returns each key once and leaves
\* out none that was there throughout, and maintenance changes no value.
ImplementsMap == Map!Spec
=============================================================================
