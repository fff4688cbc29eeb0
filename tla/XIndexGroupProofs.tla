------------------------ MODULE XIndexGroupProofs ------------------------
(***************************************************************************)
(* Types of the group model, and that no call of a worker reaches freed    *)
(* memory, for any number of workers, keys and addresses and any sequence  *)
(* of compactions, merges, splits and model changes.                       *)
(*                                                                         *)
(* The argument: a worker inside a call is on a group the index points to, *)
(* unless the group was replaced while the worker was on it and the        *)
(* barrier that followed still waits for the worker (Placed).  A pointer   *)
(* lives only in an array of the job's new groups, leads to a level of the *)
(* job's old groups, and is gone when the last round of replace_pointer    *)
(* ends (Pointers); a worker that read one earlier is waited for before    *)
(* the old levels are freed (Following).  What is freed must then be       *)
(* shared with no group that stays: the groups share no level (Apart), and *)
(* a new group takes its buffer over from buffer_temp, never from what is  *)
(* freed (Handed).                                                         *)
(***************************************************************************)
EXTENDS XIndexGroup, FiniteSetTheorems, WellFoundedInduction, TLAPS

\* The groups of the job: those it replaces, the intermediate groups of a split and
\* those it makes.
Elements(s) == {s[i] : i \in 1..Len(s)}
Old == Elements(job.old)
Mid == Elements(job.mid)
New == Elements(job.new)
JobGroups == Old \cup Mid \cup New

\* The places of a job whose new groups exist.
Replacing == {"publish", "quiesce", "replace", "settle"}

\* The groups that a call may still be directed to, and those of the job.
Active == Holders \cup (IF bpc = "discard" THEN {} ELSE JobGroups)

\* The levels of a group, and the arrays of the new groups.
Stores(g) == {group[g].data, group[g].buffer, group[g].temp} \ {Null}
NewData == {group[g].data : g \in New}

\* The cursors of a scan.
Cursor == [more : SUBSET (1..3), pos : [1..3 -> Int],
           pre : [1..3 -> Seq(Keys \X Vals)], out : Seq(Keys \X Vals)]

\* Where a worker may be in its call.
Places == {"idle", "locate", "array", "deref", "buffer", "temp", "which", "frozen",
           "insert", "update", "fetch", "follow"}

\* Types.
TypedWorkers ==
  /\ pc \in [Workers -> Places]
  /\ call \in [Workers -> Map!Calls \cup {Map!NoCall}]
  /\ ret.who \in Workers \cup {Absent}
  /\ gp \in [Workers -> GroupIds \cup {Null}]
  /\ ref \in [Workers -> StoreIds \cup {Null}]
  /\ wait \subseteq Workers

TypedStore == store \in [StoreIds -> [Keys -> Record]]

TypedIndex ==
  /\ plan \in Scenarios
  /\ dir \in [Keys -> GroupIds]
  /\ group \in [GroupIds -> [data : StoreIds \cup {Null},
                             buffer : StoreIds \cup {Null},
                             temp : StoreIds \cup {Null}, frozen : BOOLEAN]]
  /\ galloc \subseteq GroupIds /\ salloc \subseteq StoreIds
  /\ todo \subseteq StoreIds \X Keys /\ refs \subseteq StoreIds \X Keys
  /\ bpc \in {"rest", "freeze", "drain", "temp", "collect", "publish",
              "quiesce", "replace", "settle", "discard"}

Typed ==
  /\ TypedWorkers /\ TypedStore /\ TypedIndex
  /\ cur \in [Workers -> Cursor]

\* What the calls in progress may return, other than scans; TypeOK needs it, and
\* nothing else does.
Seen == \A w \in Workers : call[w].op # "scan" => seen[w] \subseteq Vals \cup {Absent}

\* The job has the groups that its kind and its place call for, all different.
Jobs == [kind : {"none", "compact", "merge", "split", "model"},
         old : Seq(GroupIds), mid : Seq(GroupIds), new : Seq(GroupIds)]

Shape ==
  /\ job \in Jobs
  /\ bpc = "rest" <=> job.kind = "none"
  /\ bpc = "discard" <=> job.kind = "model"
  /\ bpc = "temp" => job.kind = "merge"
  /\ bpc = "freeze" => job.kind # "split"
  /\ Len(job.old) = CASE job.kind = "none" -> 0 [] job.kind = "merge" -> 2 [] OTHER -> 1
  /\ Len(job.mid) = IF job.kind = "split" THEN 2 ELSE 0
  /\ Len(job.new) = IF bpc \notin Replacing THEN 0
                    ELSE IF job.kind = "split" THEN 2 ELSE 1
  /\ Old \cap Mid = {} /\ Old \cap New = {} /\ Mid \cap New = {}
  /\ job.kind = "split" => job.mid[1] # job.mid[2]
  /\ job.kind = "split" /\ bpc \in Replacing => job.new[1] # job.new[2]

\* The groups in use and those of the job are allocated, and so are their levels.
InMemory ==
  /\ Holders \cup JobGroups \subseteq galloc
  /\ \A g \in Holders \cup JobGroups :
       /\ group[g].data \in salloc /\ group[g].buffer \in salloc
       /\ group[g].temp \in salloc \cup {Null}

\* Once replaced, a group is not the group of any key.
Retired ==
  /\ bpc \in {"quiesce", "replace", "settle", "discard"} => Holders \cap (Old \cup Mid) = {}
  /\ job.kind = "split" => Holders \cap Old = {}

\* A group outside the job shares no level with another one.  The intermediate
\* groups of a split share theirs with the old group, and so does a group with its
\* copy that has another model.
Apart ==
  \A g \in Holders \ JobGroups, h \in Active : g # h => Stores(g) \cap Stores(h) = {}

\* What becomes the buffer of a new group is none of the levels that are freed.
Handed ==
  /\ bpc \in {"temp", "collect"} /\ job.kind # "split" =>
       group[job.old[1]].temp \in salloc \ Sources
  /\ bpc \in {"drain", "collect"} /\ job.kind = "split" =>
       /\ group[job.mid[1]].temp \in salloc \ Sources
       /\ group[job.mid[2]].temp \in salloc \ Sources
       /\ group[job.mid[1]].temp # group[job.mid[2]].temp
  /\ bpc \in Replacing =>
       /\ \A g \in New : /\ Stores(g) \cap Sources = {}
                         /\ group[g].temp = Null
       /\ \A g, h \in New : g # h => Stores(g) \cap Stores(h) = {}

\* Room says of the start of a job what it needs later: addresses are free when a
\* group or a level is allocated.
Space ==
  /\ bpc \in {"freeze", "drain"} /\ job.kind # "split" => Room(1, 2)
  /\ bpc \in {"temp", "collect"} /\ job.kind # "split" => Room(1, 1)
  /\ bpc \in {"drain", "collect"} /\ job.kind = "split" => Room(2, 2)

\* References are collected from the old levels, and dropped when the new array is
\* made.
Collected ==
  /\ bpc = "collect" => todo \subseteq Sources \X Keys /\ refs \subseteq Sources \X Keys
  /\ bpc # "collect" => refs = {}

\* A pointer is in the array of a new group, leads to a level that will be freed, and
\* is there until replace_pointer has visited its record.
Pointers ==
  \A s \in StoreIds, k \in Keys : store[s][k].st = "ptr" =>
    /\ store[s][k].x \in Sources
    /\ s \in NewData
    /\ \/ bpc \in {"publish", "quiesce"}
       \/ bpc = "replace" /\ <<s, k>> \in todo

\* The group of a worker inside a call is that of some key.  If it was replaced since,
\* the barrier waits for the worker; only a merge replaces one group before the other
\* without a barrier between them.
Placed ==
  \A w \in Using :
    \/ gp[w] \in Holders
    \/ bpc \in {"drain", "quiesce", "discard"} /\ w \in wait /\ gp[w] \in Old \cup Mid
    \/ bpc = "publish" /\ job.kind = "merge" /\ gp[w] = job.old[1]

\* A level a worker follows a pointer into is not freed before a barrier that waits
\* for the worker.
Following ==
  \A w \in Workers : pc[w] \in {"deref", "follow"} =>
    /\ ref[w] \in Sources
    /\ \/ bpc \in {"publish", "quiesce", "replace"}
       \/ bpc = "settle" /\ w \in wait

\* A scan looks at buffer_temp only when there was one at its start, and what it
\* follows is there until it is done: records of an array do not go away.
Scanning ==
  \A w \in Workers :
    /\ pc[w] \in {"fetch", "follow"} /\ 3 \in cur[w].more => group[gp[w]].temp # Null
    /\ pc[w] = "follow" => Ahead(w, 1) # {}

\* A level that takes inserts is not the array of a new group.
Arrays ==
  \A g \in Holders \cup JobGroups :
    group[g].buffer \notin NewData /\ group[g].temp \notin NewData

\* The calls whose steps the places belong to.
Putting ==
  \A w \in Workers :
    /\ pc[w] \in {"which", "frozen", "insert", "update"} => call[w].op = "put"
    /\ pc[w] \in {"fetch", "follow"} => call[w].op = "scan"
    /\ pc[w] # "idle" => call[w] \in Map!Calls

\* The inductive invariant.
IInv ==
  /\ Typed /\ Shape /\ InMemory /\ Retired /\ Apart /\ Handed /\ Arrays /\ Space
  /\ Collected /\ Pointers /\ Placed /\ Following /\ Scanning /\ Putting

-----------------------------------------------------------------------------
(* Facts about constants, records and levels.                               *)

\* A nonempty set of keys has a least one: CHOOSE in ScanFetch is well defined.
LEMMA LeastKey ==
  ASSUME NEW S \in SUBSET Keys, S # {}
  PROVE  (CHOOSE k \in S : \A j \in S : k <= j) \in S
<1>1. S \in SUBSET Nat
  BY GroupAssumption
<1>2. \E m \in S : \A k \in S : m <= k
  <2> SUFFICES ASSUME NEW T \in SUBSET Nat, T # {}
               PROVE  \E m \in T : \A k \in T : m <= k
    BY <1>1
  <2>1. PICK m \in T : \A k \in T : ~(<<k, m>> \in OpToRel(<, Nat))
    BY WFMin, NatLessThanWellFounded
  <2>2. \A k \in T : ~(k < m)
    BY <2>1 DEF OpToRel
  <2> QED
    BY <2>2
<1> QED
  BY <1>2

\* Keys are natural numbers, and Null is no address.
LEMMA ConstantFacts ==
  Keys \subseteq Nat /\ Null \notin GroupIds /\ Null \notin StoreIds
  BY GroupAssumption

\* A cursor starts before the first key of its scan.
LEMMA KeyFacts ==
  ASSUME NEW k \in Keys
  PROVE  k \in Nat /\ k - 1 \in Int
<1>1. k \in Nat
  BY ConstantFacts
<1> QED
  BY <1>1

\* The fields of a call.
LEMMA CallFacts ==
  ASSUME NEW c \in Map!Calls \cup {Map!NoCall}
  PROVE  /\ c.op \in {"get", "scan", "remove", "put", "update"} => c.key \in Keys
         /\ c.op = "put" => c.val \in Vals
         /\ c.op \in {"get", "scan", "remove", "put", "update"} \/ c = Map!NoCall
  BY DEF Map!Calls, Map!NoCall, Map!Get, Map!Put, Map!Remove, Map!Update, Map!Scan

\* The records of the levels.
LEMMA RecordFacts ==
  /\ None \in Record /\ Removed \in Record
  /\ None.st = "none" /\ Removed.st = "removed"
  /\ \A v \in Vals : Live(v) \in Record /\ Live(v).st = "live"
  /\ \A s \in StoreIds : /\ Pointer(s) \in Record
                         /\ Pointer(s).st = "ptr" /\ Pointer(s).x = s
  /\ \A r \in Record : /\ r.st = "live" => r.x \in Vals
                       /\ r.st = "ptr" => r.x \in StoreIds
                       /\ r.st \in {"none", "removed", "live", "ptr"}
                       /\ r.st = "none" => r = None
<1>1. /\ None \in Record /\ Removed \in Record
      /\ None.st = "none" /\ Removed.st = "removed"
  BY DEF Record, None, Removed
<1>2. \A v \in Vals : Live(v) \in Record /\ Live(v).st = "live" /\ Live(v).x = v
  BY DEF Record, Live
<1>3. \A s \in StoreIds : /\ Pointer(s) \in Record
                          /\ Pointer(s).st = "ptr" /\ Pointer(s).x = s
  BY DEF Record, Pointer
<1>4. ASSUME NEW r \in Record
      PROVE  /\ r.st = "live" => r.x \in Vals
             /\ r.st = "ptr" => r.x \in StoreIds
             /\ r.st \in {"none", "removed", "live", "ptr"}
             /\ r.st = "none" => r = None
  <2>1. \/ r \in {None, Removed}
        \/ \E v \in Vals : r = Live(v)
        \/ \E s \in StoreIds : r = Pointer(s)
    BY DEF Record
  <2>2. CASE r = None
    BY <1>1, <2>2
  <2>3. CASE r = Removed
    BY <1>1, <2>3
  <2>4. CASE \E v \in Vals : r = Live(v)
    BY <1>2, <2>4
  <2>5. CASE \E s \in StoreIds : r = Pointer(s)
    BY <1>3, <2>5
  <2> QED
    BY <2>1, <2>2, <2>3, <2>4, <2>5
<1> QED
  BY <1>1, <1>2, <1>3, <1>4

\* A live record holds a value.
LEMMA LiveRecord ==
  ASSUME NEW r \in Record, r.st = "live"
  PROVE  r.x \in Vals
  BY DEF Record, None, Removed, Live, Pointer

\* What merge_refs_internal reads is allocated.
LEMMA SourceFacts ==
  ASSUME Typed, Shape, InMemory
  PROVE  /\ Sources = {group[g].data : g \in Old} \cup {group[g].buffer : g \in Old}
         /\ Sources \subseteq salloc /\ Sources \subseteq StoreIds
<1>1. Sources = {group[g].data : g \in Old} \cup {group[g].buffer : g \in Old}
  BY DEF Sources, SourcesOf, Old, Elements
<1> QED
  BY <1>1 DEF InMemory, JobGroups, Typed, TypedIndex

\* A record is on its own level, or a pointer leads from it to an old level.
LEMMA TargetFacts ==
  ASSUME Typed, Shape, InMemory, Pointers, NEW s \in StoreIds, NEW k \in Keys
  PROVE  /\ Target(s, k) \in StoreIds
         /\ Target(s, k) = s \/ Target(s, k) \in Sources
         /\ store[s][k] \in Record
<1>1. store[s][k] \in Record
  BY DEF Typed, TypedStore
<1>2. store[s][k].st = "ptr" => store[s][k].x \in Sources
  BY DEF Pointers
<1> QED
  BY <1>1, <1>2, SourceFacts, RecordFacts DEF Target

-----------------------------------------------------------------------------
(* Steps of workers.                                                        *)

\* The other workers stay where they are, and a barrier that waited for one of them
\* still does.
Others(w) ==
  \A v \in Workers \ {w} :
    /\ pc'[v] = pc[v] /\ gp'[v] = gp[v] /\ ref'[v] = ref[v] /\ call'[v] = call[v]
    /\ v \in wait => v \in wait'

\* The call of worker w goes on at place l, on the same group.
Moved(w, l) ==
  /\ TypedWorkers' /\ Others(w)
  /\ pc'[w] = l /\ gp'[w] = gp[w] /\ call'[w] = call[w] /\ wait' = wait

\* The call of worker w is over, or starts from the beginning.
Left(w) ==
  /\ TypedWorkers' /\ Others(w)
  /\ pc'[w] = "idle" \/ (pc'[w] = "locate" /\ call'[w] \in Map!Calls)

\* Goto and Go move a call on.
LEMMA GotoMoves ==
  ASSUME TypedWorkers, NEW w \in Workers, NEW l \in Places, Goto(w, l),
         NEW x \in StoreIds \cup {Null}, ref' = [ref EXCEPT ![w] = x]
  PROVE  Moved(w, l) /\ ref'[w] = x
  BY DEF TypedWorkers, Goto, Moved, Others, Map!Quiet

\* Go clears the level of the pointer followed last.
LEMMA GoMoves ==
  ASSUME TypedWorkers, NEW w \in Workers, NEW l \in Places, Go(w, l)
  PROVE  Moved(w, l)
  BY GotoMoves DEF Go

\* Return ends a call.
LEMMA ReturnLeaves ==
  ASSUME TypedWorkers, NEW w \in Workers, NEW r, Return(w, r)
  PROVE  Left(w)
  BY DEF TypedWorkers, Return, Left, Others, Places, Drop, Map!Return

\* Retry starts a put over.
LEMMA RetryLeaves ==
  ASSUME TypedWorkers, NEW w \in Workers, Retry(w), call[w] \in Map!Calls
  PROVE  Left(w)
  BY DEF TypedWorkers, Retry, Left, Others, Places, Drop, Map!Quiet

\* No pointer is made, and no record disappears.
StoreStep ==
  /\ TypedStore'
  /\ \A s \in StoreIds, k \in Keys :
       /\ store'[s][k].st = "ptr" => store'[s][k] = store[s][k]
       /\ store[s][k].st # "none" => store'[s][k].st # "none"

\* Writing a value and removing one are such steps.
LEMMA PutStep ==
  ASSUME TypedStore, NEW s, NEW k, NEW r \in Record, r.st \in {"live", "removed"},
         store' = [store EXCEPT ![s][k] = r]
  PROVE  StoreStep
  BY DEF TypedStore, StoreStep

\* So is leaving all levels alone.
LEMMA SameStore ==
  ASSUME TypedStore, UNCHANGED store
  PROVE  StoreStep
  BY DEF TypedStore, StoreStep

\* The group of a worker inside a call is one of the index or of the job.
LEMMA PlaceFacts ==
  ASSUME Typed, Shape, InMemory, Placed, NEW w \in Using
  PROVE  /\ w \in Workers /\ gp[w] \in Holders \cup JobGroups
         /\ gp[w] \in GroupIds
         /\ group[gp[w]].data \in StoreIds /\ group[gp[w]].buffer \in StoreIds
         /\ group[gp[w]].temp \in StoreIds \cup {Null}
<1>1. gp[w] \in Holders \cup JobGroups
  BY DEF Placed, JobGroups, Shape, Old, Elements
<1> QED
  BY <1>1 DEF InMemory, Typed, TypedIndex, Using

\* What every step of worker w does, as far as the invariant is concerned.
WorkerStep(w) ==
  /\ UNCHANGED <<bvars, plan>>
  /\ TypedWorkers' /\ Others(w) /\ StoreStep
  /\ cur' \in [Workers -> Cursor] /\ \A v \in Workers \ {w} : cur'[v] = cur[v]
  /\ pc'[w] \notin {"idle", "locate"} =>
       gp'[w] \in Holders \/ (w \in Using /\ gp'[w] = gp[w] /\ wait' = wait)
  /\ pc'[w] \in {"deref", "follow"} =>
       ref'[w] \in Sources /\ bpc \in {"publish", "quiesce", "replace"}
  /\ pc'[w] \in {"fetch", "follow"} /\ 3 \in cur'[w].more => group[gp'[w]].temp # Null
  /\ pc'[w] = "follow" =>
       w \in Using /\ gp'[w] = gp[w] /\ cur'[w] = cur[w] /\ Ahead(w, 1) # {}
  /\ pc'[w] \in {"which", "frozen", "insert", "update"} => call'[w].op = "put"
  /\ pc'[w] \in {"fetch", "follow"} => call'[w].op = "scan"
  /\ pc'[w] # "idle" => call'[w] \in Map!Calls

\* A scan that has not begun.
LEMMA ScanFacts == NoScan \in Cursor
<1>1. NoScan.more \in SUBSET (1..3) /\ NoScan.out \in Seq(Keys \X Vals)
  BY DEF NoScan
<1>2. NoScan.pos \in [1..3 -> Int]
  BY DEF NoScan
<1>3. NoScan.pre \in [1..3 -> Seq(Keys \X Vals)]
  <2>1. ASSUME NEW S, NEW x \in S PROVE <<x, x, x>> \in [1..3 -> S]
    OBVIOUS
  <2>2. <<>> \in Seq(Keys \X Vals)
    OBVIOUS
  <2> QED
    BY <2>1, <2>2 DEF NoScan
<1> QED
  BY <1>1, <1>2, <1>3 DEF NoScan, Cursor

\* A call that ends, or starts over, takes such a step.
LEMMA LeaveStep ==
  ASSUME Typed, NEW w \in Workers, Left(w), StoreStep, UNCHANGED <<bvars, plan>>,
         UNCHANGED cur \/ cur' = [cur EXCEPT ![w] = NoScan]
  PROVE  WorkerStep(w)
<1>1. NoScan \in Cursor
  BY ScanFacts
<1>2. cur' \in [Workers -> Cursor] /\ \A v \in Workers \ {w} : cur'[v] = cur[v]
  BY <1>1 DEF Typed
<1> QED
  BY <1>2 DEF Left, WorkerStep

\* So does one that goes on without following a pointer.
LEMMA MoveStep ==
  ASSUME Typed, NEW w \in Using, w \in Workers,
         NEW l \in Places \ {"deref", "follow", "fetch"},
         Moved(w, l), StoreStep, UNCHANGED <<bvars, plan>>, UNCHANGED cur,
         l \in {"which", "frozen", "insert", "update"} => call[w].op = "put",
         call[w] \in Map!Calls
  PROVE  WorkerStep(w)
  BY DEF Moved, WorkerStep, Typed

\* So does one that reads a level and goes on if there is no live record of its key,
LEMMA ReadLevel ==
  ASSUME IInv, NEW w \in Using, w \in Workers, NEW s,
         NEW l \in Places \ {"deref", "follow", "fetch"},
         l \notin {"which", "frozen", "insert", "update"}, GetLevel(w, s, l)
  PROVE  WorkerStep(w)
<1>1. StoreStep /\ UNCHANGED <<bvars, plan>> /\ UNCHANGED cur
  BY SameStore DEF GetLevel, IInv, Typed, Watch, Noticed
<1>2. CASE IsLive(s, Key(w))
  BY <1>1, <1>2, LeaveStep, ReturnLeaves DEF GetLevel, IInv, Typed
<1>3. CASE ~IsLive(s, Key(w))
  BY <1>1, <1>3, MoveStep, GoMoves DEF GetLevel, IInv, Typed, Using, Putting
<1> QED
  BY <1>2, <1>3

\* and one that overwrites or removes the live record of its key, or goes on.
LEMMA WriteLevel ==
  ASSUME IInv, NEW w \in Using, w \in Workers, NEW s,
         NEW l \in Places \ {"deref", "follow", "fetch"},
         l \in {"which", "frozen", "insert", "update"} => call[w].op = "put",
         NEW r \in Record, r.st \in {"live", "removed"}, ChangeLevel(w, s, r, l)
  PROVE  WorkerStep(w)
<1>1. UNCHANGED <<bvars, plan>> /\ UNCHANGED cur
  BY DEF ChangeLevel, Watch, Noticed
<1>2. CASE IsLive(s, Key(w))
  <2>1. StoreStep
    BY <1>2, PutStep DEF ChangeLevel, Write, IInv, Typed
  <2> QED
    BY <1>1, <1>2, <2>1, LeaveStep, ReturnLeaves DEF ChangeLevel, IInv, Typed
<1>3. CASE ~IsLive(s, Key(w))
  <2>1. StoreStep
    BY <1>3, SameStore DEF ChangeLevel, IInv, Typed
  <2> QED
    BY <1>1, <1>3, <2>1, MoveStep, GoMoves DEF ChangeLevel, IInv, Typed, Using, Putting
<1> QED
  BY <1>2, <1>3

\* Every step of get, put and remove is a WorkerStep.
LEMMA CallSteps ==
  ASSUME IInv, NEW w \in Workers,
         \/ Begin(w) \/ Locate(w)
         \/ GetArray(w) \/ GetDeref(w) \/ GetBuffer(w) \/ GetTemp(w)
         \/ PutArray(w) \/ PutWhich(w) \/ PutFrozen(w) \/ PutUpdate(w) \/ PutInsert(w)
         \/ RemoveArray(w) \/ RemoveBuffer(w) \/ RemoveTemp(w)
  PROVE  WorkerStep(w)
<1> USE DEF Using, Places
<1>1. CASE Begin(w)
  <2>1. StoreStep /\ UNCHANGED <<bvars, plan>> /\ UNCHANGED cur
    BY <1>1, SameStore DEF Begin, IInv, Typed, Watch, Noticed
  <2>2. PICK c \in plan.script[w] : call' = [call EXCEPT ![w] = c]
    BY <1>1 DEF Begin
  <2>3. c \in Map!Calls
    BY <2>2, GroupAssumption DEF IInv, Typed, TypedIndex
  <2>4. Left(w)
    BY <1>1, <2>2, <2>3 DEF Begin, Left, IInv, Typed, TypedWorkers, Others, Map!Quiet
  <2> QED
    BY <2>1, <2>4, LeaveStep DEF IInv
<1>2. CASE Locate(w)
  <2>1. StoreStep /\ UNCHANGED <<bvars, plan>> /\ UNCHANGED cur
    BY <1>2, SameStore DEF Locate, IInv, Typed, Watch, Noticed
  <2>2. call[w] \in Map!Calls /\ Key(w) \in Keys
    BY <1>2, CallFacts DEF Locate, Key, IInv, Putting, Map!Calls, Map!Get, Map!Put,
       Map!Remove, Map!Update, Map!Scan
  <2>3. dir[Key(w)] \in Holders /\ dir[Key(w)] \in GroupIds
    BY <2>2 DEF Holders, IInv, Typed, TypedIndex
  <2>4. /\ TypedWorkers' /\ Others(w) /\ pc'[w] = "array" /\ gp'[w] = dir[Key(w)]
        /\ call' = call
    BY <1>2, <2>3 DEF Locate, IInv, Typed, TypedWorkers, Others, Map!Quiet
  <2> QED
    BY <2>1, <2>2, <2>3, <2>4 DEF WorkerStep, IInv, Typed
<1>3. CASE GetArray(w)
  <2> DEFINE s == group[gp[w]].data
             r == store[s][Key(w)]
  <2>1. StoreStep /\ UNCHANGED <<bvars, plan>> /\ UNCHANGED cur
    BY <1>3, SameStore DEF GetArray, IInv, Typed, Watch, Noticed
  <2>2. w \in Using /\ s \in StoreIds
    BY <1>3, PlaceFacts DEF GetArray, IInv
  <2>3. call[w] \in Map!Calls /\ Key(w) \in Keys
    BY <1>3, CallFacts DEF GetArray, Key, IInv, Putting
  <2>4. CASE r.st = "live" /\ Return(w, r.x)
    BY <2>1, <2>4, LeaveStep, ReturnLeaves DEF IInv, Typed
  <2>5. CASE /\ r.st = "ptr" /\ Goto(w, "deref")
             /\ ref' = [ref EXCEPT ![w] = r.x]
    <3>1. r.x \in Sources /\ r.x \in StoreIds /\ bpc \in {"publish", "quiesce", "replace"}
      BY <2>2, <2>3, <2>5, SourceFacts DEF IInv, Pointers
    <3>2. Moved(w, "deref") /\ ref'[w] = r.x
      <4>1. TypedWorkers /\ "deref" \in Places
        BY DEF IInv, Typed
      <4> HIDE DEF r
      <4> QED
        BY ZenonT(40), <2>5, <3>1, <4>1, GotoMoves
    <3> QED
      BY <2>1, <2>2, <2>3, <3>1, <3>2 DEF WorkerStep, Moved, IInv, Typed
  <2>6. CASE r.st \in {"none", "removed"} /\ Goto(w, "buffer") /\ UNCHANGED ref
    <3>1. ref[w] \in StoreIds \cup {Null} /\ ref' = [ref EXCEPT ![w] = ref[w]]
      BY <2>6 DEF IInv, Typed, TypedWorkers
    <3> QED
      BY <2>1, <2>2, <2>3, <2>6, <3>1, GotoMoves, MoveStep DEF IInv, Typed
  <2> QED
    BY <1>3, <2>4, <2>5, <2>6 DEF GetArray
<1>4. CASE GetDeref(w)
  BY <1>4, ReadLevel DEF GetDeref
<1>5. CASE GetBuffer(w)
  BY <1>5, ReadLevel DEF GetBuffer
<1>6. CASE GetTemp(w)
  <2>1. StoreStep /\ UNCHANGED <<bvars, plan>> /\ UNCHANGED cur
    BY <1>6, SameStore DEF GetTemp, IInv, Typed, Watch, Noticed
  <2> QED
    BY <1>6, <2>1, LeaveStep, ReturnLeaves DEF GetTemp, IInv, Typed
<1>7. CASE PutArray(w)
  <2>1. Live(call[w].val) \in Record /\ Live(call[w].val).st = "live"
    BY <1>7, CallFacts, RecordFacts DEF PutArray, IInv, Typed, TypedWorkers
  <2> QED
    BY <1>7, <2>1, WriteLevel DEF PutArray
<1>8. CASE PutWhich(w)
  <2>1. StoreStep /\ UNCHANGED <<bvars, plan>> /\ UNCHANGED cur
    BY <1>8, SameStore DEF PutWhich, IInv, Typed, Watch, Noticed
  <2>2. call[w].op = "put" /\ call[w] \in Map!Calls
    BY <1>8 DEF PutWhich, IInv, Putting
  <2> QED
    BY <1>8, <2>1, <2>2, MoveStep, GoMoves DEF PutWhich, IInv, Typed
<1>9. CASE PutFrozen(w)
  <2>1. StoreStep /\ UNCHANGED <<bvars, plan>> /\ UNCHANGED cur
    BY <1>9, SameStore DEF PutFrozen, IInv, Typed, Watch, Noticed
  <2>2. call[w].op = "put" /\ call[w] \in Map!Calls
    BY <1>9 DEF PutFrozen, IInv, Putting
  <2>3. CASE group[gp[w]].frozen
    BY <1>9, <2>1, <2>2, <2>3, RetryLeaves, LeaveStep DEF PutFrozen, IInv, Typed
  <2>4. CASE ~group[gp[w]].frozen
    BY <1>9, <2>1, <2>2, <2>4, MoveStep, GoMoves DEF PutFrozen, IInv, Typed
  <2> QED
    BY <2>3, <2>4
<1>10. CASE PutUpdate(w)
  <2>1. Live(call[w].val) \in Record /\ Live(call[w].val).st = "live"
    BY <1>10, CallFacts, RecordFacts DEF PutUpdate, IInv, Typed, TypedWorkers, Putting
  <2> QED
    BY <1>10, <2>1, WriteLevel DEF PutUpdate
<1>11. CASE PutInsert(w)
  <2>1. Live(call[w].val) \in Record /\ Live(call[w].val).st = "live"
    BY <1>11, CallFacts, RecordFacts DEF PutInsert, IInv, Typed, TypedWorkers
  <2>2. StoreStep
    BY <1>11, <2>1, PutStep DEF PutInsert, IInv, Typed
  <2>3. UNCHANGED <<bvars, plan>> /\ UNCHANGED cur
    BY <1>11 DEF PutInsert, Watch, Noticed
  <2> QED
    BY <1>11, <2>2, <2>3, LeaveStep, ReturnLeaves DEF PutInsert, IInv, Typed
<1>12. CASE RemoveArray(w)
  BY <1>12, RecordFacts, WriteLevel DEF RemoveArray
<1>13. CASE RemoveBuffer(w)
  BY <1>13, RecordFacts, WriteLevel DEF RemoveBuffer
<1>14. CASE RemoveTemp(w)
  <2>1. UNCHANGED <<bvars, plan>> /\ UNCHANGED cur
    BY <1>14 DEF RemoveTemp, Watch, Noticed
  <2>2. Left(w)
    BY <1>14, ReturnLeaves DEF RemoveTemp, IInv, Typed
  <2>3. CASE IsLive(group[gp[w]].temp, Key(w))
    <3>1. StoreStep
      <4>1. PICK s : store' = [store EXCEPT ![s][Key(w)] = Removed]
        BY <1>14, <2>3 DEF RemoveTemp, Write
      <4>2. Removed \in Record /\ Removed.st \in {"live", "removed"} /\ TypedStore
        BY RecordFacts DEF IInv, Typed
      <4> QED
        BY <4>1, <4>2, PutStep
    <3> QED
      BY <2>1, <2>2, <3>1, LeaveStep DEF IInv
  <2>4. CASE ~IsLive(group[gp[w]].temp, Key(w))
    <3>1. StoreStep
      BY <1>14, <2>4, SameStore DEF RemoveTemp, IInv, Typed
    <3> QED
      BY <2>1, <2>2, <3>1, LeaveStep DEF IInv
  <2> QED
    BY <2>3, <2>4
<1> QED
  BY <1>1, <1>2, <1>3, <1>4, <1>5, <1>6, <1>7, <1>8, <1>9, <1>10, <1>11, <1>12, <1>13,
     <1>14

\* Changing the cursors of one scan.
LEMMA CursorStep ==
  ASSUME Typed, NEW w \in Workers, NEW c \in Cursor, cur' = [cur EXCEPT ![w] = c]
  PROVE  /\ cur' \in [Workers -> Cursor] /\ cur'[w] = c
         /\ \A v \in Workers \ {w} : cur'[v] = cur[v]
  BY DEF Typed

\* A scan that moves its cursors takes a WorkerStep.
LEMMA FetchStep ==
  ASSUME IInv, NEW w \in Using, w \in Workers, Moved(w, "fetch"), UNCHANGED store,
         UNCHANGED <<bvars, plan>>, call[w].op = "scan",
         NEW c \in Cursor, cur' = [cur EXCEPT ![w] = c],
         3 \in c.more => group[gp[w]].temp # Null
  PROVE  WorkerStep(w)
<1>1. StoreStep /\ Typed
  BY SameStore DEF IInv, Typed
<1>2. call[w] \in Map!Calls
  BY DEF IInv, Putting, Using
<1> QED
  BY <1>1, <1>2, CursorStep DEF Moved, WorkerStep

\* advance_to_next_valid moves one cursor.
LEMMA CursorRead ==
  ASSUME Typed, NEW w \in Workers, NEW l \in 1..3, NEW k \in Keys,
         NEW e \in Seq(Keys \X Vals),
         cur' = [cur EXCEPT ![w].pos[l] = k, ![w].pre[l] = e]
  PROVE  \E c \in Cursor : c.more = cur[w].more /\ cur' = [cur EXCEPT ![w] = c]
<1> DEFINE q == [cur[w].pos EXCEPT ![l] = k]
           p == [cur[w].pre EXCEPT ![l] = e]
           c == [cur[w] EXCEPT !.pos = q, !.pre = p]
<1>1. cur[w] \in Cursor /\ cur \in [Workers -> Cursor]
  BY DEF Typed
<1>2. q \in [1..3 -> Int]
  BY <1>1, ConstantFacts DEF Cursor
<1>3. p \in [1..3 -> Seq(Keys \X Vals)]
  BY <1>1 DEF Cursor
<1>4. cur' = [cur EXCEPT ![w] = c]
  BY <1>1 DEF Cursor
<1>5. c \in Cursor /\ c.more = cur[w].more
  <2> HIDE DEF q, p
  <2> QED
    BY <1>1, <1>2, <1>3 DEF Cursor
<1> QED
  BY <1>4, <1>5

\* The next record of a cursor, if there is one, is one of those before it.
LEMMA AheadFacts ==
  ASSUME NEW w, NEW l, Ahead(w, l) # {}
  PROVE  (CHOOSE k \in Ahead(w, l) : \A j \in Ahead(w, l) : k <= j) \in Ahead(w, l)
<1>1. Ahead(w, l) \in SUBSET Keys
  BY DEF Ahead
<1> QED
  BY <1>1, LeastKey

\* Every step of scan is a WorkerStep.
LEMMA ScanSteps ==
  ASSUME IInv, NEW w \in Workers,
         \/ ScanOpen(w) \/ ScanFetch(w) \/ ScanFollow(w)
         \/ ScanExhaust(w) \/ ScanMerge(w) \/ ScanEnd(w)
  PROVE  WorkerStep(w)
<1> USE DEF Places
<1>0. /\ TypedWorkers /\ cur[w] \in Cursor /\ cur \in [Workers -> Cursor]
      /\ UNCHANGED <<bvars, plan, store>>
  BY DEF IInv, Typed, Noticed, ScanOpen, ScanFetch, ScanFollow, ScanExhaust, ScanMerge,
         ScanEnd
<1>1. CASE ScanOpen(w)
  <2>1. w \in Using /\ call[w].op = "scan" /\ Key(w) \in Keys
    BY <1>1, CallFacts DEF ScanOpen, Using, Key, IInv, Putting
  <2>2. Moved(w, "fetch")
    BY <1>0, <1>1, GoMoves DEF ScanOpen
  <2> DEFINE m == IF group[gp[w]].temp = Null THEN 1..2 ELSE 1..3
             q == [l \in 1..3 |-> Key(w) - 1]
             c == [cur[w] EXCEPT !.more = m, !.pos = q]
  <2>3. m \in SUBSET (1..3) /\ q \in [1..3 -> Int]
    <3>1. Key(w) - 1 \in Int
      BY <2>1, KeyFacts
    <3> QED
      BY <3>1
  <2>4. cur' = [cur EXCEPT ![w] = c]
    BY <1>0, <1>1 DEF ScanOpen
  <2>5. c \in Cursor /\ c.more = m
    <3> HIDE DEF m, q
    <3> QED
      BY <1>0, <2>3 DEF Cursor
  <2>6. 3 \in c.more => group[gp[w]].temp # Null
    BY <2>5
  <2> HIDE DEF c
  <2> QED
    BY <1>0, <2>1, <2>2, <2>4, <2>5, <2>6, FetchStep
<1>2. CASE ScanFetch(w)
  <2>1. w \in Using /\ call[w].op = "scan"
    BY <1>2 DEF ScanFetch, Using, IInv, Putting
  <2> DEFINE kk(l) == CHOOSE k \in Ahead(w, l) : \A j \in Ahead(w, l) : k <= j
             rr(l) == store[Levels(gp[w])[l]][kk(l)]
             cc(l) == [cur EXCEPT ![w].pos[l] = kk(l), ![w].pre[l] =
                         IF rr(l).st = "live" THEN Append(@, <<kk(l), rr(l).x>>) ELSE @]
  <2>2. PICK l \in cur[w].more :
          /\ Ahead(w, l) # {}
          /\ IF rr(l).st = "ptr"
             THEN Goto(w, "follow") /\ ref' = [ref EXCEPT ![w] = rr(l).x] /\ UNCHANGED cur
             ELSE cur' = cc(l) /\ Go(w, "fetch")
    BY <1>2 DEF ScanFetch
  <2> DEFINE k == kk(l)
             r == rr(l)
             s == Levels(gp[w])[l]
  <2>3. l \in 1..3 /\ k \in Keys /\ s \in StoreIds /\ k \in Ahead(w, l)
    <3>1. l \in 1..3
      BY <1>0 DEF Cursor
    <3>2. k \in Ahead(w, l)
      BY <2>2, AheadFacts
    <3>3. k \in Keys
      BY <3>2 DEF Ahead
    <3>4. s \in StoreIds
      <4>1. /\ group[gp[w]].data \in StoreIds /\ group[gp[w]].buffer \in StoreIds
            /\ group[gp[w]].temp \in StoreIds \cup {Null}
        BY <2>1, PlaceFacts DEF IInv
      <4>2. l = 3 => group[gp[w]].temp # Null
        BY <1>2, <2>2 DEF ScanFetch, IInv, Scanning
      <4> QED
        BY <3>1, <4>1, <4>2 DEF Levels
    <3> QED
      BY <3>1, <3>2, <3>3, <3>4
  <2>4. CASE r.st = "ptr"
    <3>1. r.x \in Sources /\ r.x \in StoreIds /\ s \in NewData
          /\ bpc \in {"publish", "quiesce", "replace"}
      BY <2>3, <2>4, SourceFacts DEF IInv, Pointers
    <3>2. l = 1
      BY <2>1, <2>3, <3>1, PlaceFacts, SMTT(30) DEF IInv, Arrays, Levels
    <3>3. Ahead(w, 1) # {}
      BY <2>3, <3>2
    <3>4. Moved(w, "follow") /\ ref'[w] = r.x /\ UNCHANGED cur
      <4>1. Goto(w, "follow") /\ ref' = [ref EXCEPT ![w] = r.x] /\ UNCHANGED cur
        BY <2>2, <2>4
      <4> HIDE DEF r
      <4> QED
        BY <1>0, <3>1, <4>1, GotoMoves
    <3>5. StoreStep /\ call[w] \in Map!Calls
      BY <1>0, <2>1, SameStore DEF IInv, Typed, Putting, Using
    <3>6. 3 \in cur[w].more => group[gp[w]].temp # Null
      BY <1>2 DEF ScanFetch, IInv, Scanning
    <3> HIDE DEF r, k, s
    <3> QED
      BY <1>0, <2>1, <3>1, <3>3, <3>4, <3>5, <3>6 DEF WorkerStep, Moved
  <2>5. CASE r.st # "ptr"
    <3>1. Go(w, "fetch") /\ cur' = cc(l)
      BY <2>2, <2>5
    <3>2. r \in Record
      BY <2>3 DEF IInv, Typed, TypedStore
    <3>3. r.st = "live" => r.x \in Vals
      <4> HIDE DEF r
      <4> QED
        BY <3>2, LiveRecord
    <3> DEFINE e == IF r.st = "live" THEN Append(cur[w].pre[l], <<k, r.x>>)
                    ELSE cur[w].pre[l]
    <3>4. e \in Seq(Keys \X Vals)
      <4> HIDE DEF r, k
      <4> QED
        BY <1>0, <2>3, <3>3 DEF Cursor
    <3>5. cur' = [cur EXCEPT ![w].pos[l] = k, ![w].pre[l] = e]
      BY <3>1
    <3>6. \E c \in Cursor : c.more = cur[w].more /\ cur' = [cur EXCEPT ![w] = c]
      <4> HIDE DEF e, k
      <4> QED
        BY <1>0, <2>3, <3>4, <3>5, CursorRead DEF IInv
    <3>7. 3 \in cur[w].more => group[gp[w]].temp # Null
      BY <1>2 DEF ScanFetch, IInv, Scanning
    <3> QED
      BY <1>0, <2>1, <3>1, <3>6, <3>7, GoMoves, FetchStep
  <2> QED
    BY <2>4, <2>5
<1>3. CASE ScanFollow(w)
  <2>1. w \in Using /\ call[w].op = "scan" /\ pc[w] = "follow"
    BY <1>3 DEF ScanFollow, Using, IInv, Putting
  <2> DEFINE k == CHOOSE k \in Ahead(w, 1) : \A j \in Ahead(w, 1) : k <= j
             s == ref[w]
             e == IF IsLive(s, k) THEN Append(cur[w].pre[1], <<k, store[s][k].x>>)
                                  ELSE cur[w].pre[1]
  <2>2. k \in Keys
    <3>1. Ahead(w, 1) # {}
      BY <2>1 DEF IInv, Scanning
    <3>2. k \in Ahead(w, 1)
      BY <3>1, AheadFacts
    <3> QED
      BY <3>2 DEF Ahead
  <2> HIDE DEF k
  <2>3. s \in Sources /\ s \in StoreIds /\ bpc \in Replacing
    BY <2>1, SourceFacts DEF IInv, Following, Replacing
  <2>4. store[s][k].st # "ptr"
    <3>1. s \notin NewData
      <4>1. \A g \in New : group[g].data \notin Sources
        <5>1. \A g \in New : Stores(g) \cap Sources = {} /\ group[g].data # Null
          BY <2>3, ConstantFacts DEF IInv, Handed, InMemory, JobGroups, Typed, TypedIndex
        <5> QED
          BY <5>1 DEF Stores
      <4> QED
        BY <2>3, <4>1 DEF NewData
    <3> QED
      BY <2>2, <2>3, <3>1 DEF IInv, Pointers
  <2>5. e \in Seq(Keys \X Vals)
    <3>1. store[s][k] \in Record
      BY <2>2, <2>3 DEF IInv, Typed, TypedStore
    <3>2. IsLive(s, k) => store[s][k].st = "live"
      BY <2>4 DEF IsLive, Target
    <3>3. store[s][k].st = "live" => store[s][k].x \in Vals
      BY <3>1, LiveRecord
    <3> QED
      BY <1>0, <2>2, <3>2, <3>3 DEF Cursor
  <2>6. cur' = [cur EXCEPT ![w].pos[1] = k, ![w].pre[1] = e]
    BY <1>3 DEF ScanFollow, k
  <2>7. \E c \in Cursor : c.more = cur[w].more /\ cur' = [cur EXCEPT ![w] = c]
    <3>1. 1 \in 1..3 /\ Typed
      BY DEF IInv
    <3> HIDE DEF e
    <3> QED
      BY <2>2, <2>5, <2>6, <3>1, CursorRead
  <2>8. 3 \in cur[w].more => group[gp[w]].temp # Null
    BY <2>1 DEF IInv, Scanning
  <2>9. Moved(w, "fetch")
    BY <1>0, <1>3, GoMoves DEF ScanFollow
  <2> QED
    BY <1>0, <2>1, <2>7, <2>8, <2>9, FetchStep
<1>4. CASE ScanExhaust(w)
  <2>1. w \in Using /\ call[w].op = "scan" /\ pc[w] = "fetch"
    BY <1>4 DEF ScanExhaust, Using, IInv, Putting
  <2>2. PICK l \in cur[w].more : cur' = [cur EXCEPT ![w].more = @ \ {l}]
    BY <1>4 DEF ScanExhaust
  <2> DEFINE c == [cur[w] EXCEPT !.more = @ \ {l}]
  <2>3. c \in Cursor /\ c.more \subseteq cur[w].more /\ cur' = [cur EXCEPT ![w] = c]
    BY <1>0, <2>2 DEF Cursor
  <2>4. 3 \in cur[w].more => group[gp[w]].temp # Null
    BY <2>1 DEF IInv, Scanning
  <2>5. Moved(w, "fetch")
    BY <1>0, <1>4, GoMoves DEF ScanExhaust
  <2> HIDE DEF c
  <2> QED
    BY <1>0, <2>1, <2>3, <2>4, <2>5, FetchStep
<1>5. CASE ScanMerge(w)
  <2>1. w \in Using /\ call[w].op = "scan" /\ pc[w] = "fetch"
    BY <1>5 DEF ScanMerge, Using, IInv, Putting
  <2>2. PICK l \in Least(w) : cur' = [cur EXCEPT ![w].out = Append(@, Head(cur[w].pre[l])),
                                               ![w].pre[l] = Tail(@)]
    BY <1>5 DEF ScanMerge
  <2>3. l \in 1..3 /\ cur[w].pre[l] # <<>>
    BY <2>2 DEF Least
  <2> DEFINE p == [cur[w].pre EXCEPT ![l] = Tail(@)]
             o == Append(cur[w].out, Head(cur[w].pre[l]))
             c == [cur[w] EXCEPT !.out = o, !.pre = p]
  <2>4. p \in [1..3 -> Seq(Keys \X Vals)] /\ o \in Seq(Keys \X Vals)
    <3>1. cur[w].pre \in [1..3 -> Seq(Keys \X Vals)] /\ cur[w].out \in Seq(Keys \X Vals)
      BY <1>0 DEF Cursor
    <3>2. cur[w].pre[l] \in Seq(Keys \X Vals)
      BY <2>3, <3>1
    <3>3. Tail(cur[w].pre[l]) \in Seq(Keys \X Vals) /\ Head(cur[w].pre[l]) \in Keys \X Vals
      BY <2>3, <3>2
    <3>4. p \in [1..3 -> Seq(Keys \X Vals)]
      BY <2>3, <3>1, <3>3
    <3>5. o \in Seq(Keys \X Vals)
      BY <3>1, <3>3
    <3> QED
      BY <3>4, <3>5
  <2>5. cur' = [cur EXCEPT ![w] = c]
    BY <1>0, <2>2 DEF Cursor
  <2>6. c \in Cursor /\ c.more = cur[w].more
    <3> HIDE DEF p, o
    <3> QED
      BY <1>0, <2>4 DEF Cursor
  <2>7. 3 \in cur[w].more => group[gp[w]].temp # Null
    BY <2>1 DEF IInv, Scanning
  <2>8. Moved(w, "fetch")
    BY <1>0, <1>5, GoMoves DEF ScanMerge
  <2> HIDE DEF c
  <2> QED
    BY <1>0, <2>1, <2>5, <2>6, <2>7, <2>8, FetchStep
<1>6. CASE ScanEnd(w)
  <2>1. StoreStep /\ Typed
    BY <1>0, SameStore DEF IInv, Typed
  <2> QED
    BY <1>0, <1>6, <2>1, ReturnLeaves, LeaveStep DEF ScanEnd
<1> QED
  BY <1>1, <1>2, <1>3, <1>4, <1>5, <1>6

\* Workers preserve the invariant.
LEMMA WorkersKeep ==
  ASSUME IInv, NEW w \in Workers, WorkerStep(w)
  PROVE  IInv'
<1> USE DEF WorkerStep, bvars
<1>0. /\ Holders' = Holders /\ Old' = Old /\ Mid' = Mid /\ New' = New
      /\ JobGroups' = JobGroups /\ Sources' = Sources /\ NewData' = NewData
      /\ Active' = Active /\ \A g : Stores(g)' = Stores(g)
  BY DEF Holders, Old, Mid, New, JobGroups, Sources, SourcesOf, NewData, Active, Stores,
         Elements
<1>1. Typed'
  BY DEF IInv, Typed, TypedIndex, StoreStep
<1>2. Shape'
  BY <1>0 DEF IInv, Shape
<1>3. InMemory' /\ Retired'
  BY <1>0 DEF IInv, InMemory, Retired
<1>4. Apart'
  BY <1>0 DEF IInv, Apart
<1>5. Handed' /\ Arrays' /\ Collected'
  BY <1>0 DEF IInv, Handed, Arrays, Collected
<1>6. Space'
  BY DEF IInv, Space, Room
<1>7. Pointers'
  BY <1>0 DEF IInv, Pointers, StoreStep
<1>8. Placed'
  <2> SUFFICES ASSUME NEW v \in Using'
               PROVE  Placed!(v)'
    BY DEF Placed
  <2>1. v \in Workers
    BY DEF Using
  <2>2. CASE v = w
    BY <1>0, <2>1, <2>2 DEF IInv, Placed, Using
  <2>3. CASE v # w
    BY <1>0, <2>1, <2>3 DEF IInv, Placed, Using, Others
  <2> QED
    BY <2>2, <2>3
<1>9. Following'
  BY <1>0 DEF IInv, Following, Others
<1>10. Scanning'
  <2> SUFFICES ASSUME NEW v \in Workers
               PROVE  Scanning!(v)'
    BY DEF Scanning
  <2>1. /\ pc'[v] \in {"fetch", "follow"} /\ 3 \in cur'[v].more => group'[gp'[v]].temp # Null
        /\ pc'[v] = "follow" =>
             v \in Using /\ gp'[v] = gp[v] /\ cur'[v] = cur[v] /\ Ahead(v, 1) # {}
    <3>1. CASE v = w
      BY <3>1
    <3>2. CASE v # w
      BY <3>2 DEF IInv, Scanning, Others, Using
    <3> QED
      BY <3>1, <3>2
  <2>2. ASSUME v \in Using, gp'[v] = gp[v], cur'[v] = cur[v], Ahead(v, 1) # {}
        PROVE  Ahead(v, 1)' # {}
    <3>1. group[gp[v]].data \in StoreIds
      BY <2>2, PlaceFacts DEF IInv
    <3>2. PICK k \in Keys : k > cur[v].pos[1] /\ store[group[gp[v]].data][k].st # "none"
      BY <2>2 DEF Ahead, Levels
    <3>3. store'[group[gp[v]].data][k].st # "none"
      BY <3>1, <3>2 DEF StoreStep
    <3> QED
      BY <2>2, <3>2, <3>3 DEF Ahead, Levels
  <2> QED
    BY <2>1, <2>2
<1>11. Putting'
  BY DEF IInv, Putting, Others
<1> QED
  BY <1>1, <1>2, <1>3, <1>4, <1>5, <1>6, <1>7, <1>8, <1>9, <1>10, <1>11 DEF IInv

-----------------------------------------------------------------------------
(* Jobs and addresses.                                                      *)

\* Sequences of at most two groups.
LEMMA ElementFacts ==
  ASSUME NEW S, NEW s \in Seq(S)
  PROVE  /\ Len(s) = 0 => Elements(s) = {}
         /\ Len(s) = 1 => Elements(s) = {s[1]}
         /\ Len(s) = 2 => Elements(s) = {s[1], s[2]}
         /\ Elements(s) \subseteq S
  BY DEF Elements

\* Tuples of at most two groups.
LEMMA TupleFacts ==
  ASSUME NEW S, NEW x \in S, NEW y \in S
  PROVE  /\ <<>> \in Seq(S) /\ Len(<<>>) = 0 /\ Elements(<<>>) = {}
         /\ <<x>> \in Seq(S) /\ Len(<<x>>) = 1 /\ <<x>>[1] = x /\ Elements(<<x>>) = {x}
         /\ <<x, y>> \in Seq(S) /\ Len(<<x, y>>) = 2 /\ <<x, y>>[1] = x /\ <<x, y>>[2] = y
         /\ Elements(<<x, y>>) = {x, y}
  BY DEF Elements

\* The groups of a job, by its kind and place.
LEMMA JobFacts ==
  ASSUME Shape
  PROVE  /\ job.kind = "none" => Old = {}
         /\ job.kind \in {"compact", "split", "model"} => Old = {job.old[1]}
         /\ job.kind = "merge" => Old = {job.old[1], job.old[2]}
         /\ job.kind = "split" => Mid = {job.mid[1], job.mid[2]}
         /\ job.kind # "split" => Mid = {}
         /\ bpc \notin Replacing => New = {}
         /\ bpc \in Replacing /\ job.kind = "split" => New = {job.new[1], job.new[2]}
         /\ bpc \in Replacing /\ job.kind # "split" => New = {job.new[1]}
         /\ JobGroups \subseteq GroupIds
<1>1. /\ job.old \in Seq(GroupIds) /\ job.mid \in Seq(GroupIds) /\ job.new \in Seq(GroupIds)
  BY DEF Shape, Jobs
<1>2. /\ job.kind = "none" => Old = {}
      /\ job.kind \in {"compact", "split", "model"} => Old = {job.old[1]}
      /\ job.kind = "merge" => Old = {job.old[1], job.old[2]}
  BY <1>1, ElementFacts DEF Shape, Old
<1>3. /\ job.kind = "split" => Mid = {job.mid[1], job.mid[2]}
      /\ job.kind # "split" => Mid = {}
  BY <1>1, ElementFacts DEF Shape, Mid
<1>4. /\ bpc \notin Replacing => New = {}
      /\ bpc \in Replacing /\ job.kind = "split" => New = {job.new[1], job.new[2]}
      /\ bpc \in Replacing /\ job.kind # "split" => New = {job.new[1]}
  BY <1>1, ElementFacts DEF Shape, New
<1>5. JobGroups \subseteq GroupIds
  BY <1>1, ElementFacts DEF JobGroups, Old, Mid, New
<1> QED
  BY <1>2, <1>3, <1>4, <1>5

\* Setting the fields of job.
LEMMA NewJob ==
  ASSUME NEW c \in {"none", "compact", "merge", "split", "model"}, NEW o \in Seq(GroupIds),
         NEW m \in Seq(GroupIds), NEW n \in Seq(GroupIds),
         job' = [kind |-> c, old |-> o, mid |-> m, new |-> n]
  PROVE  /\ job' \in Jobs /\ job'.kind = c /\ job'.old = o /\ job'.mid = m /\ job'.new = n
         /\ Old' = Elements(o) /\ Mid' = Elements(m) /\ New' = Elements(n)
  BY DEF Jobs, Old, Mid, New

\* Two addresses taken from enough free ones are free, differ and leave the others.
LEMMA FreeIds ==
  ASSUME NEW F, IsFiniteSet(F)
  PROVE  /\ Cardinality(F) \in Nat
         /\ Cardinality(F) >= 1 =>
              /\ Fresh(F, 1) \in F
              /\ Cardinality(F \ {Fresh(F, 1)}) = Cardinality(F) - 1
         /\ Cardinality(F) >= 2 =>
              /\ Fresh(F, 2) \in F /\ Fresh(F, 2) # Fresh(F, 1)
              /\ Cardinality(F \ {Fresh(F, 1), Fresh(F, 2)}) = Cardinality(F) - 2
<1> DEFINE x == Fresh(F, 1)
           y == Fresh(F, 2)
           E == F \ {x}
<1>1. Cardinality(F) \in Nat
  BY FS_CardinalityType
<1>2. ASSUME Cardinality(F) >= 1
      PROVE  x \in F /\ IsFiniteSet(E) /\ Cardinality(E) = Cardinality(F) - 1
  <2>1. F # {}
    BY <1>2, FS_EmptySet
  <2>2. x \in F
    BY <2>1 DEF Fresh
  <2> HIDE DEF x
  <2> QED
    BY <2>2, FS_RemoveElement
<1>3. ASSUME Cardinality(F) >= 2
      PROVE  y \in F /\ y # x /\ Cardinality(F \ {x, y}) = Cardinality(F) - 2
  <2>1. x \in F /\ IsFiniteSet(E) /\ Cardinality(E) = Cardinality(F) - 1
    BY <1>1, <1>2, <1>3
  <2>2. Cardinality(E) # 0
    BY <1>1, <1>3, <2>1
  <2>3. E # {}
    <3> HIDE DEF E
    <3> QED
      BY <2>2, FS_EmptySet
  <2>4. y \in E
    BY <2>3 DEF Fresh
  <2>5. F \ {x, y} = E \ {y}
    OBVIOUS
  <2>6. Cardinality(E \ {y}) = Cardinality(E) - 1
    <3> HIDE DEF E, y
    <3> QED
      BY <2>1, <2>4, FS_RemoveElement
  <2> QED
    BY <1>1, <2>1, <2>4, <2>5, <2>6
<1> QED
  BY <1>1, <1>2, <1>3

\* The addresses that are free are finitely many.
LEMMA Finite ==
  ASSUME plan \in Scenarios
  PROVE  /\ IsFiniteSet(plan.groups) /\ IsFiniteSet(plan.stores)
         /\ plan.groups \subseteq GroupIds /\ plan.stores \subseteq StoreIds
  BY GroupAssumption

\* NewGroup and NewStore return addresses that are not allocated.
LEMMA NewIds ==
  ASSUME plan \in Scenarios
  PROVE  /\ Room(0, 1) => /\ NewStore(1) \in StoreIds \ salloc
                          /\ Cardinality(plan.stores \ (salloc \cup {NewStore(1)}))
                               = Cardinality(plan.stores \ salloc) - 1
         /\ Room(0, 2) => /\ NewStore(2) \in StoreIds \ salloc /\ NewStore(2) # NewStore(1)
                          /\ Cardinality(plan.stores \ (salloc \cup {NewStore(1), NewStore(2)}))
                               = Cardinality(plan.stores \ salloc) - 2
         /\ Room(1, 0) => /\ NewGroup(1) \in GroupIds \ galloc
                          /\ Cardinality(plan.groups \ (galloc \cup {NewGroup(1)}))
                               = Cardinality(plan.groups \ galloc) - 1
         /\ Room(2, 0) => /\ NewGroup(2) \in GroupIds \ galloc /\ NewGroup(2) # NewGroup(1)
                          /\ Cardinality(plan.groups \ (galloc \cup {NewGroup(1), NewGroup(2)}))
                               = Cardinality(plan.groups \ galloc) - 2
         /\ Cardinality(plan.stores \ salloc) \in Nat /\ Cardinality(plan.groups \ galloc) \in Nat
<1>1. /\ IsFiniteSet(plan.groups) /\ plan.groups \subseteq GroupIds
      /\ IsFiniteSet(plan.stores) /\ plan.stores \subseteq StoreIds
  BY Finite
<1> DEFINE S == plan.stores \ salloc
           G == plan.groups \ galloc
<1>2. IsFiniteSet(S) /\ IsFiniteSet(G) /\ S \subseteq StoreIds \ salloc /\ G \subseteq GroupIds \ galloc
  BY <1>1, FS_Difference
<1>3. /\ \A X : plan.stores \ (salloc \cup X) = S \ X
      /\ \A X : plan.groups \ (galloc \cup X) = G \ X
  OBVIOUS
<1>4. /\ NewStore(1) = Fresh(S, 1) /\ NewStore(2) = Fresh(S, 2)
      /\ NewGroup(1) = Fresh(G, 1) /\ NewGroup(2) = Fresh(G, 2)
      /\ \A i, j : Room(i, j) <=> Cardinality(G) >= i /\ Cardinality(S) >= j
  BY DEF NewStore, NewGroup, Room
<1> HIDE DEF S, G
<1>5. /\ Cardinality(S) \in Nat
      /\ Cardinality(S) >= 1 =>
           Fresh(S, 1) \in S /\ Cardinality(S \ {Fresh(S, 1)}) = Cardinality(S) - 1
      /\ Cardinality(S) >= 2 =>
           /\ Fresh(S, 2) \in S /\ Fresh(S, 2) # Fresh(S, 1)
           /\ Cardinality(S \ {Fresh(S, 1), Fresh(S, 2)}) = Cardinality(S) - 2
  BY <1>2, FreeIds
<1>6. /\ Cardinality(G) \in Nat
      /\ Cardinality(G) >= 1 =>
           Fresh(G, 1) \in G /\ Cardinality(G \ {Fresh(G, 1)}) = Cardinality(G) - 1
      /\ Cardinality(G) >= 2 =>
           /\ Fresh(G, 2) \in G /\ Fresh(G, 2) # Fresh(G, 1)
           /\ Cardinality(G \ {Fresh(G, 1), Fresh(G, 2)}) = Cardinality(G) - 2
  BY <1>2, FreeIds
<1>7. S = plan.stores \ salloc /\ G = plan.groups \ galloc
  BY DEF S, G
<1> QED
  BY ZenonT(40), <1>2, <1>3, <1>4, <1>5, <1>6, <1>7

\* Room for much is room for less.
LEMMA LessRoom ==
  ASSUME plan \in Scenarios, NEW i \in Nat, NEW j \in Nat, Room(i, j)
  PROVE  /\ Room(0, 0) /\ Room(i, 0) /\ Room(0, j)
         /\ i >= 1 => Room(1, 0)
         /\ i >= 2 => Room(2, 0)
         /\ j >= 1 => Room(0, 1)
         /\ j >= 2 => Room(0, 2)
<1>1. Cardinality(plan.stores \ salloc) \in Nat /\ Cardinality(plan.groups \ galloc) \in Nat
  BY NewIds
<1> QED
  BY <1>1 DEF Room

-----------------------------------------------------------------------------
(* Steps of the background thread.                                          *)

\* What every step of the background thread leaves alone.
Still ==
  /\ UNCHANGED <<plan, wvars, cur>>
  /\ ret' = Map!Quiet /\ wait' \subseteq Workers

\* Such a step keeps all that speaks of workers alone.
LEMMA StillKeeps ==
  ASSUME Typed, Putting, Still
  PROVE  /\ TypedWorkers' /\ cur' \in [Workers -> Cursor] /\ Putting'
         /\ Using' = Using
  BY DEF Typed, TypedWorkers, Still, Putting, wvars, Using, Map!Quiet

\* Every step of maintenance is of this kind.
LEMMA BackgroundStill ==
  ASSUME Typed, BeginRound \/ ContinueRound
  PROVE  Still
<1>1. wait \subseteq Workers
  BY DEF Typed, TypedWorkers
<1>2. CASE BeginRound
  BY <1>1, <1>2
     DEF BeginRound, BeginCompact, BeginMerge, BeginSplit, BeginModel, Still, Unnoticed,
     Watch, Noticed, Barrier
<1>3. CASE ContinueRound
  BY <1>1, <1>3
     DEF ContinueRound, Freeze, NewTemp, ShareTemp, SplitDrained, CollectRef, MakeGroup,
     MakeGroups, Publish, BeginReplace, ReplacePointer, EndReplace, Free, EndModel, Still,
     Unnoticed, Watch, Noticed, Barrier
<1> QED
  BY <1>2, <1>3

\* The groups in use, what they point to, and the job stay as they are.
Framed ==
  /\ UNCHANGED <<dir, galloc, salloc, store, job>>
  /\ \A g \in GroupIds : /\ group'[g].data = group[g].data
                         /\ group'[g].buffer = group[g].buffer
                         /\ group'[g].temp = group[g].temp

\* In such a step the sets the invariant speaks of stay the same,
LEMMA FrameFacts ==
  ASSUME IInv, Framed
  PROVE  /\ Holders' = Holders /\ Old' = Old /\ Mid' = Mid /\ New' = New
         /\ JobGroups' = JobGroups /\ Sources' = Sources /\ NewData' = NewData
         /\ Holders \subseteq GroupIds /\ JobGroups \subseteq GroupIds
         /\ \A g \in GroupIds : Stores(g)' = Stores(g)
<1>1. Holders' = Holders /\ Old' = Old /\ Mid' = Mid /\ New' = New /\ JobGroups' = JobGroups
  BY DEF Framed, Holders, Old, Mid, New, JobGroups
<1>2. Holders \subseteq GroupIds /\ JobGroups \subseteq GroupIds
  BY JobFacts DEF Holders, IInv, Typed, TypedIndex
<1>3. Sources' = Sources
  <2>1. \A i \in 1..Len(job.old) : job.old[i] \in GroupIds
    BY DEF IInv, Shape, Jobs
  <2> QED
    BY <2>1 DEF Framed, Sources, SourcesOf
<1>4. NewData' = NewData
  BY <1>1, <1>2 DEF Framed, NewData, JobGroups
<1>5. \A g \in GroupIds : Stores(g)' = Stores(g)
  BY DEF Framed, Stores
<1> QED
  BY <1>1, <1>2, <1>3, <1>4, <1>5

\* and so do the conjuncts about them.
LEMMA FrameKeeps ==
  ASSUME IInv, Framed, Still
  PROVE  /\ InMemory' /\ Arrays' /\ Scanning' /\ TypedStore'
         /\ job.kind = "split" => Holders' \cap Old' = {}
         /\ bpc # "discard" /\ bpc' # "discard" => Apart'
<1>1. InMemory' /\ Arrays'
  BY FrameFacts DEF IInv, InMemory, Arrays, Framed
<1>2. Scanning'
  <2>1. \A w \in Using : gp[w] \in GroupIds /\ w \in Workers
    BY PlaceFacts DEF IInv
  <2>2. \A w \in Workers : pc[w] \in {"fetch", "follow"} => Ahead(w, 1)' = Ahead(w, 1)
    BY <2>1 DEF Ahead, Levels, Framed, Still, wvars, Using
  <2> QED
    BY <2>1, <2>2 DEF IInv, Scanning, Framed, Still, wvars, Using
<1>3. TypedStore'
  BY DEF IInv, Typed, TypedStore, Framed
<1>4. job.kind = "split" => Holders' \cap Old' = {}
  BY FrameFacts DEF IInv, Retired
<1>5. bpc # "discard" /\ bpc' # "discard" => Apart'
  BY FrameFacts DEF IInv, Apart, Active
<1> QED
  BY <1>1, <1>2, <1>3, <1>4, <1>5

\* The steps that freeze a group, begin to collect, collect a reference, and begin and
\* end compact_phase_2.
LEMMA FramedSteps ==
  ASSUME IInv, Still,
         Freeze \/ SplitDrained \/ CollectRef \/ BeginReplace \/ EndReplace
  PROVE  IInv'
<1>0. Typed /\ TypedIndex /\ plan' = plan
  BY DEF IInv, Typed, Still
<1>1. Framed /\ UNCHANGED <<dir, galloc, salloc, job, store>>
  <2>1. CASE Freeze
    <3>1. PICK i \in Unfrozen : group' = [group EXCEPT ![job.old[i]].frozen = TRUE]
      BY <2>1 DEF Freeze
    <3> QED
      BY <1>0, <2>1, <3>1 DEF Freeze, Framed, TypedIndex
  <2>2. CASE SplitDrained \/ CollectRef \/ BeginReplace \/ EndReplace
    BY <2>2 DEF SplitDrained, CollectRef, BeginReplace, EndReplace, Framed
  <2> QED
    BY <2>1, <2>2
<1>2. bpc # "discard" /\ bpc' # "discard"
  BY DEF Freeze, SplitDrained, CollectRef, BeginReplace, EndReplace, BeginCollect, Barrier
<1>3. TypedWorkers' /\ Putting' /\ cur' \in [Workers -> Cursor] /\ Using' = Using
  BY StillKeeps DEF IInv
<1>4. Sources \subseteq StoreIds
  BY SourceFacts DEF IInv
<1>5. NewData = {group[job.new[i]].data : i \in 1..Len(job.new)} /\ NewData \subseteq StoreIds
  <2>1. NewData = {group[job.new[i]].data : i \in 1..Len(job.new)}
    BY DEF NewData, New, Elements
  <2> QED
    BY <2>1 DEF NewData, IInv, InMemory, JobGroups, Typed, TypedIndex
<1>13. todo' \subseteq StoreIds \X Keys /\ refs' \subseteq StoreIds \X Keys
  <2>1. CASE Freeze \/ EndReplace
    BY <1>0, <2>1 DEF Freeze, EndReplace, TypedIndex
  <2>2. CASE SplitDrained
    BY <1>0, <1>4, <2>2 DEF SplitDrained, BeginCollect, TypedIndex
  <2>3. CASE CollectRef
    BY <1>0, <2>3 DEF CollectRef, TypedIndex
  <2>4. CASE BeginReplace
    BY <1>0, <1>5, <2>4 DEF BeginReplace, TypedIndex
  <2> QED
    BY <2>1, <2>2, <2>3, <2>4
<1>14. TypedIndex'
  <2>1. CASE Freeze
    <3>1. PICK i \in Unfrozen : group' = [group EXCEPT ![job.old[i]].frozen = TRUE]
      BY <2>1 DEF Freeze
    <3>2. group' \in [GroupIds -> [data : StoreIds \cup {Null}, buffer : StoreIds \cup {Null},
                                  temp : StoreIds \cup {Null}, frozen : BOOLEAN]]
      BY <1>0, <3>1 DEF TypedIndex
    <3>3. bpc' \in {"freeze", "drain"}
      BY <2>1 DEF Freeze, Barrier
    <3> QED
      BY <1>0, <1>1, <1>13, <3>2, <3>3 DEF TypedIndex
  <2>2. CASE SplitDrained \/ CollectRef \/ BeginReplace \/ EndReplace
    BY <1>0, <1>1, <1>13, <2>2
       DEF SplitDrained, CollectRef, BeginReplace, EndReplace, BeginCollect, Barrier,
           TypedIndex
  <2> QED
    BY <2>1, <2>2
<1>6. Shape' /\ Retired'
  BY <1>1, FrameFacts
     DEF IInv, Shape, Retired, Replacing, Freeze, SplitDrained, CollectRef, BeginReplace,
         EndReplace, BeginCollect, Barrier
<1>7. Handed'
  BY <1>1, <1>2, FrameFacts
     DEF IInv, Shape, Handed, JobGroups, Replacing, Freeze, SplitDrained, CollectRef,
         BeginReplace, EndReplace, BeginCollect, Barrier
<1>8. Space'
  BY <1>0, <1>1
     DEF IInv, Shape, Space, Room, Freeze, SplitDrained, CollectRef, BeginReplace,
         EndReplace, BeginCollect, Barrier
<1>9. Collected'
  BY <1>1, FrameFacts
     DEF IInv, Collected, Freeze, SplitDrained, CollectRef, BeginReplace, EndReplace,
         BeginCollect, Barrier
<1>10. Pointers'
  <2>1. CASE Freeze \/ SplitDrained \/ CollectRef
    <3>1. \A s \in StoreIds, k \in Keys : store'[s][k].st # "ptr"
      BY <1>1, <2>1 DEF IInv, Pointers, Freeze, SplitDrained, CollectRef
    <3> QED
      BY <3>1 DEF Pointers
  <2>2. CASE BeginReplace
    <3> SUFFICES ASSUME NEW s \in StoreIds, NEW k \in Keys, store'[s][k].st = "ptr"
                 PROVE  Pointers!(s, k)!2'
      BY DEF Pointers
    <3>1. store[s][k].x \in Sources /\ s \in NewData
      BY <1>1 DEF IInv, Pointers
    <3> QED
      BY <1>1, <1>5, <2>2, <3>1, FrameFacts DEF BeginReplace
  <2>3. CASE EndReplace
    <3>1. \A s \in StoreIds, k \in Keys : store'[s][k].st # "ptr"
      BY <1>1, <2>3 DEF IInv, Pointers, EndReplace
    <3> QED
      BY <3>1 DEF Pointers
  <2> QED
    BY <2>1, <2>2, <2>3
<1>11. Placed'
  BY <1>1, <1>3, FrameFacts
     DEF IInv, Placed, Still, wvars, Freeze, SplitDrained, CollectRef, BeginReplace,
         EndReplace, BeginCollect, Barrier
<1>12. Following'
  BY <1>1, FrameFacts
     DEF IInv, Following, Still, wvars, Freeze, SplitDrained, CollectRef, BeginReplace,
         EndReplace, BeginCollect, Barrier
<1> QED
  BY <1>1, <1>2, <1>3, <1>6, <1>7, <1>8, <1>9, <1>10, <1>11, <1>12, <1>14, FrameKeeps
     DEF IInv, Typed

\* The steps that begin a compaction and a merge.
LEMMA BeginSteps ==
  ASSUME IInv, Still, BeginCompact \/ BeginMerge
  PROVE  IInv'
<1>0. Typed /\ TypedIndex /\ plan' = plan
  BY DEF IInv, Typed, Still
<1>1. /\ UNCHANGED <<store, wait, dir, group, galloc, salloc, todo, refs>>
      /\ bpc = "rest" /\ bpc' = "freeze" /\ Room(1, 2)
  BY DEF BeginCompact, BeginMerge
<1>2. /\ job'.kind \in {"compact", "merge"} /\ job'.mid = <<>> /\ job'.new = <<>>
      /\ job' \in Jobs
      /\ Len(job'.old) = IF job'.kind = "merge" THEN 2 ELSE 1
      /\ Old' \subseteq Holders /\ Mid' = {} /\ New' = {}
  <2>0. \A g \in Holders : g \in GroupIds
    BY <1>0 DEF Holders, TypedIndex
  <2>1. CASE BeginCompact
    <3>1. PICK g \in Holders : job' = [NoJob EXCEPT !.kind = "compact", !.old = <<g>>]
      BY <2>1 DEF BeginCompact
    <3>2. g \in GroupIds
      BY <2>0, <3>1
    <3> DEFINE o == <<g>>
               e == <<>>
    <3>3. job' = [kind |-> "compact", old |-> o, mid |-> e, new |-> e]
      BY <3>1 DEF NoJob
    <3>4. o \in Seq(GroupIds) /\ Elements(o) = {g} /\ Len(o) = 1
      BY <3>2, TupleFacts
    <3>5. e \in Seq(GroupIds) /\ Elements(e) = {} /\ e = <<>>
      BY DEF Elements
    <3> HIDE DEF o, e
    <3>6. job'.kind = "compact" /\ job' \in Jobs /\ job'.old = o /\ job'.mid = e /\ job'.new = e
          /\ Old' = Elements(o) /\ Mid' = Elements(e) /\ New' = Elements(e)
      BY <3>3, <3>4, <3>5, NewJob
    <3> QED
      BY <3>1, <3>4, <3>5, <3>6
  <2>2. CASE BeginMerge
    <3>1. PICK g \in Holders, h \in Holders :
            job' = [NoJob EXCEPT !.kind = "merge", !.old = <<g, h>>]
      BY <2>2 DEF BeginMerge
    <3>2. g \in GroupIds /\ h \in GroupIds
      BY <2>0, <3>1
    <3> DEFINE o == <<g, h>>
               e == <<>>
    <3>3. job' = [kind |-> "merge", old |-> o, mid |-> e, new |-> e]
      BY <3>1 DEF NoJob
    <3>4. o \in Seq(GroupIds) /\ Elements(o) = {g, h} /\ Len(o) = 2
      BY <3>2 DEF Elements
    <3>5. e \in Seq(GroupIds) /\ Elements(e) = {} /\ e = <<>>
      BY DEF Elements
    <3> HIDE DEF o, e
    <3>6. job'.kind = "merge" /\ job' \in Jobs /\ job'.old = o /\ job'.mid = e /\ job'.new = e
          /\ Old' = Elements(o) /\ Mid' = Elements(e) /\ New' = Elements(e)
      BY <3>3, <3>4, <3>5, NewJob
    <3> QED
      BY <3>1, <3>4, <3>5, <3>6
  <2> QED
    BY <2>1, <2>2
<1>3. Old = {} /\ Mid = {} /\ New = {} /\ JobGroups = {} /\ JobGroups' \subseteq Holders
      /\ Holders' = Holders /\ NewData' = {}
  BY <1>1, <1>2, JobFacts DEF IInv, Shape, Replacing, JobGroups, Holders, NewData
<1>4. TypedWorkers' /\ Putting' /\ cur' \in [Workers -> Cursor] /\ Using' = Using
  BY StillKeeps DEF IInv
<1>5. Typed'
  BY <1>0, <1>1, <1>4 DEF Typed, TypedIndex, TypedStore
<1>6. Shape'
  BY <1>1, <1>2 DEF Shape, Replacing
<1>7. InMemory' /\ Retired' /\ Arrays'
  BY <1>1, <1>2, <1>3 DEF IInv, InMemory, Retired, Arrays
<1>8. Apart'
  BY <1>1, <1>3 DEF IInv, Apart, Active, Stores
<1>9. Handed' /\ Space' /\ Collected'
  BY <1>0, <1>1, <1>2 DEF IInv, Handed, Space, Room, Collected, Replacing
<1>10. Pointers'
  BY <1>1 DEF IInv, Pointers
<1>11. Placed'
  BY <1>1, <1>3, <1>4 DEF IInv, Placed, Still, wvars
<1>12. Following'
  BY <1>1 DEF IInv, Following, Still, wvars
<1>13. Scanning'
  BY <1>1 DEF IInv, Scanning, Ahead, Levels, Still, wvars
<1> QED
  BY <1>4, <1>5, <1>6, <1>7, <1>8, <1>9, <1>10, <1>11, <1>12, <1>13 DEF IInv

\* Giving an old group a buffer_temp preserves the invariant if the level is new, or is
\* the one the other old group got.
LEMMA TempKeeps ==
  ASSUME IInv, Still, NEW y \in Old, NEW t \in StoreIds \ Sources,
         group' = [group EXCEPT ![y].temp = t], salloc' = salloc \cup {t},
         group'[job.old[1]].temp = t,
         UNCHANGED <<dir, galloc, job, store, wait, refs>>,
         bpc \in {"drain", "temp"}, job.kind \in {"compact", "merge"},
         bpc' = "temp" => job.kind = "merge" /\ todo' \subseteq StoreIds \X Keys,
         bpc' \in {"temp", "collect"}, bpc' = "collect" => todo' \subseteq Sources \X Keys,
         \A w \in Using : gp[w] \in Holders,
         \A g \in Holders \ JobGroups : t \notin Stores(g),
         Space'
  PROVE  IInv'
<1>0. Typed /\ TypedIndex /\ plan' = plan /\ Sources \subseteq StoreIds
  BY SourceFacts DEF IInv, Typed, Still
<1>1. y \in GroupIds /\ y \in JobGroups /\ JobGroups \subseteq GroupIds /\ Holders \subseteq GroupIds
  BY <1>0, JobFacts DEF JobGroups, Holders, TypedIndex, IInv
<1>2. \A g \in GroupIds : /\ group'[g].data = group[g].data
                        /\ group'[g].buffer = group[g].buffer
                        /\ group'[g].temp = IF g = y THEN t ELSE group[g].temp
  BY <1>0, <1>1 DEF TypedIndex
<1>3. /\ Holders' = Holders /\ Old' = Old /\ Mid' = Mid /\ New' = New
      /\ JobGroups' = JobGroups
  BY DEF Holders, Old, Mid, New, JobGroups
<1>4. Sources' = Sources
  <2>1. \A i \in 1..Len(job.old) : job.old[i] \in GroupIds
    BY DEF IInv, Shape, Jobs
  <2> QED
    BY <1>2, <2>1 DEF Sources, SourcesOf
<1>5. NewData' = {} /\ Mid = {} /\ New = {}
  BY <1>3, JobFacts DEF NewData, IInv, Replacing
<1>6. TypedWorkers' /\ Putting' /\ cur' \in [Workers -> Cursor] /\ Using' = Using
  BY StillKeeps DEF IInv
<1>7. Typed'
  <2>1. TypedStore'
    BY <1>0 DEF Typed, TypedStore
  <2>2. group' \in [GroupIds -> [data : StoreIds \cup {Null}, buffer : StoreIds \cup {Null},
                                temp : StoreIds \cup {Null}, frozen : BOOLEAN]]
    BY <1>0, ZenonT(40) DEF TypedIndex
  <2>3. todo' \subseteq StoreIds \X Keys
    BY <1>0
  <2> QED
    BY <1>0, <1>6, <2>1, <2>2, <2>3 DEF Typed, TypedIndex
<1>8. Shape'
  BY <1>3 DEF IInv, Shape, Replacing
<1>9. InMemory' /\ Retired' /\ Arrays'
  BY <1>1, <1>2, <1>3, <1>5 DEF IInv, InMemory, Retired, Arrays
<1>10. Apart'
  <2> SUFFICES ASSUME NEW g \in Holders \ JobGroups, NEW h \in Holders \cup JobGroups, g # h
               PROVE  Stores(g)' \cap Stores(h)' = {}
    BY <1>3 DEF Apart, Active
  <2>1. Stores(g) \cap Stores(h) = {} /\ t \notin Stores(g)
    BY DEF IInv, Apart, Active
  <2>2. Stores(g)' = Stores(g) /\ Stores(h)' \subseteq Stores(h) \cup {t}
    BY <1>1, <1>2 DEF Stores
  <2> QED
    BY <2>1, <2>2
<1>11. Handed'
  BY <1>3, <1>4 DEF Handed, Replacing
<1>12. Collected'
  BY <1>4 DEF IInv, Collected
<1>13. Pointers' /\ Following'
  BY DEF IInv, Pointers, Following, Still, wvars
<1>14. Placed'
  BY <1>3, <1>6 DEF Placed, Still, wvars
<1>15. Scanning'
  <2>1. \A w \in Workers : pc[w] \in {"fetch", "follow"} => gp[w] \in GroupIds
    BY <1>1 DEF Using
  <2>2. \A w \in Workers : pc[w] \in {"fetch", "follow"} => Ahead(w, 1)' = Ahead(w, 1)
    BY <1>2, <2>1 DEF Ahead, Levels, Still, wvars, Using
  <2> QED
    BY <1>2, <2>1, <2>2, ConstantFacts DEF IInv, Scanning, Still, wvars
<1> QED
  BY <1>6, <1>7, <1>8, <1>9, <1>10, <1>11, <1>12, <1>13, <1>14, <1>15 DEF IInv

\* The levels of a group in use are allocated.
LEMMA StoresInMemory ==
  ASSUME IInv, NEW g \in Holders \cup JobGroups
  PROVE  Stores(g) \subseteq salloc
  BY DEF IInv, InMemory, Stores

\* Giving the first group of the job a new buffer_temp.
LEMMA NewTempStep ==
  ASSUME IInv, Still, NewTemp
  PROVE  IInv'
<1> DEFINE t == NewStore(1)
<1>1. plan \in Scenarios /\ plan' = plan
  BY DEF IInv, Typed, TypedIndex, Still
<1>2. job.kind \in {"compact", "merge"} /\ bpc = "drain" /\ wait = {}
  BY DEF NewTemp
<1>3. Room(1, 2)
  BY <1>2 DEF IInv, Space
<1>4. /\ t \in StoreIds \ salloc
      /\ Cardinality(plan.stores \ (salloc \cup {t})) >= 1
      /\ Cardinality(plan.groups \ galloc) >= 1
  <2>1. Room(0, 1)
    BY <1>1, <1>3, LessRoom
  <2> QED
    BY <1>1, <1>3, <2>1, NewIds DEF Room
<1> HIDE DEF t
<1>5. /\ group' = [group EXCEPT ![job.old[1]].temp = t] /\ salloc' = salloc \cup {t}
      /\ UNCHANGED <<dir, galloc, job, store, wait, refs>>
      /\ bpc' = IF job.kind = "merge" THEN "temp" ELSE "collect"
  BY <1>2 DEF NewTemp, BeginCollect, t
<1>6. job.old[1] \in Old /\ job.old[1] \in GroupIds /\ JobGroups \subseteq GroupIds
  BY <1>2, JobFacts DEF IInv, JobGroups
<1>7. group'[job.old[1]].temp = t
  BY <1>5, <1>6 DEF IInv, Typed, TypedIndex
<1>8. Sources \subseteq salloc /\ Sources \subseteq StoreIds
  BY SourceFacts DEF IInv
<1>9. todo' \subseteq StoreIds \X Keys /\ (bpc' = "collect" => todo' \subseteq Sources \X Keys)
  BY <1>2, <1>8 DEF NewTemp, BeginCollect, IInv, Typed, TypedIndex
<1>10. \A w \in Using : gp[w] \in Holders
  BY <1>2 DEF IInv, Placed
<1>11. \A g \in Holders \ JobGroups : t \notin Stores(g)
  BY <1>4, StoresInMemory
<1>12. Space'
  BY <1>1, <1>2, <1>4, <1>5 DEF Space, Room
<1> QED
  BY <1>2, <1>4, <1>5, <1>6, <1>7, <1>8, <1>9, <1>10, <1>11, <1>12, TempKeeps

\* Giving the second group of a merge the same buffer_temp.
LEMMA ShareTempStep ==
  ASSUME IInv, Still, ShareTemp
  PROVE  IInv'
<1> DEFINE t == group[job.old[1]].temp
<1>1. bpc = "temp" /\ job.kind = "merge" /\ plan' = plan
  BY DEF ShareTemp, IInv, Shape, Still
<1>2. /\ group' = [group EXCEPT ![job.old[2]].temp = t] /\ bpc' = "collect"
      /\ todo' \subseteq Sources \X Keys
      /\ UNCHANGED <<dir, galloc, salloc, job, store, wait, refs>>
  BY DEF ShareTemp, BeginCollect
<1>3. /\ job.old[1] \in Old /\ job.old[1] \in GroupIds
      /\ job.old[2] \in Old /\ job.old[2] \in GroupIds
  BY <1>1, JobFacts DEF IInv, JobGroups
<1>4. t \in salloc \ Sources /\ salloc \subseteq StoreIds
  BY <1>1 DEF IInv, Handed, Typed, TypedIndex
<1>5. t \in Stores(job.old[1])
  BY <1>4, ConstantFacts DEF Stores
<1>6. group'[job.old[1]].temp = t
  BY <1>2, <1>3 DEF IInv, Typed, TypedIndex
<1> HIDE DEF t
<1>7. salloc' = salloc \cup {t}
  BY <1>2, <1>4
<1>8. \A w \in Using : gp[w] \in Holders
  BY <1>1 DEF IInv, Placed
<1>9. \A g \in Holders \ JobGroups : t \notin Stores(g)
  <2>1. job.old[1] \in JobGroups /\ job.old[1] \in Active
    BY <1>1, <1>3 DEF JobGroups, Active
  <2> QED
    BY <1>5, <2>1 DEF IInv, Apart
<1>10. Space'
  BY <1>1, <1>2 DEF IInv, Space, Room
<1> QED
  BY <1>1, <1>2, <1>3, <1>4, <1>6, <1>7, <1>8, <1>9, <1>10, TempKeeps

\* A new array of references points to old levels only.
LEMMA RefsFacts ==
  ASSUME IInv, bpc = "collect", NEW K
  PROVE  /\ RefsTo(K) \in [Keys -> Record]
         /\ \A k \in Keys : RefsTo(K)[k].st = "ptr" => RefsTo(K)[k].x \in Sources
<1>1. refs \subseteq Sources \X Keys /\ Sources \subseteq StoreIds
  BY SourceFacts DEF IInv, Collected
<1>2. ASSUME NEW k \in Keys
      PROVE  /\ RefsTo(K)[k] \in Record
             /\ RefsTo(K)[k].st = "ptr" => RefsTo(K)[k].x \in Sources
  <2>1. CASE k \in K /\ \E t \in refs : t[2] = k
    <3> DEFINE t == CHOOSE t \in refs : t[2] = k
    <3>1. t \in refs
      BY <2>1
    <3>2. t[1] \in Sources
      BY <1>1, <3>1
    <3>3. RefsTo(K)[k] = Pointer(t[1])
      BY <2>1 DEF RefsTo
    <3> HIDE DEF t
    <3> QED
      BY <1>1, <3>2, <3>3, RecordFacts
  <2>2. CASE ~(k \in K /\ \E t \in refs : t[2] = k)
    <3>1. RefsTo(K)[k] = None
      BY <2>2 DEF RefsTo
    <3> QED
      BY <3>1, RecordFacts
  <2> QED
    BY <2>1, <2>2
<1>3. RefsTo(K) = [k \in Keys |-> RefsTo(K)[k]]
  BY DEF RefsTo
<1> QED
  BY <1>2, <1>3

\* The groups N on the new arrays D are made; their buffers are the buffer_temps of
\* groups of the job.
Makes(N, D) ==
  /\ bpc = "collect" /\ bpc' = "publish" /\ UNCHANGED <<dir, wait, todo>> /\ refs' = {}
  /\ Shape' /\ TypedIndex' /\ TypedStore'
  /\ New' = N /\ Old' = Old /\ Mid' = Mid /\ job'.kind = job.kind /\ job'.old = job.old
  /\ N \in SUBSET (GroupIds \ galloc) /\ galloc' = galloc \cup N
  /\ D \in SUBSET (StoreIds \ salloc) /\ salloc' = salloc \cup D
  /\ \A g \in GroupIds \ N : group'[g] = group[g]
  /\ \A n \in N : /\ group'[n].data \in D /\ group'[n].temp = Null
                  /\ group'[n].buffer \in salloc \ Sources
                  /\ \E h \in JobGroups : group'[n].buffer = group[h].temp
  /\ \A m, n \in N : m # n => /\ group'[m].data # group'[n].data
                              /\ group'[m].buffer # group'[n].buffer
  /\ \A s \in StoreIds \ D : store'[s] = store[s]
  /\ \A s \in D : s \in NewData'
  /\ \A s \in D, k \in Keys : store'[s][k].st = "ptr" => store'[s][k].x \in Sources

\* Making groups in this way preserves the invariant.
LEMMA MakeKeeps ==
  ASSUME IInv, Still, NEW N, NEW D, Makes(N, D)
  PROVE  IInv'
<1> USE DEF Makes
<1>0. Typed /\ TypedIndex /\ plan' = plan /\ Sources \subseteq salloc /\ salloc \subseteq StoreIds
  BY SourceFacts DEF IInv, Typed, TypedIndex, Still
<1>1. JobGroups \subseteq GroupIds \ N /\ Holders \subseteq GroupIds \ N /\ New = {}
  BY <1>0, JobFacts DEF IInv, InMemory, Holders, TypedIndex, Replacing
<1>2. Holders' = Holders /\ JobGroups' = JobGroups \cup N
  BY <1>1 DEF Holders, JobGroups
<1>3. Sources' = Sources
  <2>1. \A i \in 1..Len(job.old) : job.old[i] \in GroupIds \ N
    BY <1>1 DEF JobGroups, Old, Elements
  <2> QED
    BY <2>1 DEF Sources, SourcesOf
<1>4. NewData' \subseteq D
  BY DEF NewData
<1>5. \A g \in Holders \cup JobGroups : group'[g] = group[g] /\ Stores(g)' = Stores(g)
  BY <1>1 DEF Stores
<1>6. TypedWorkers' /\ Putting' /\ cur' \in [Workers -> Cursor] /\ Using' = Using
  BY StillKeeps DEF IInv
<1>7. InMemory' /\ Retired'
  BY <1>0, <1>2, <1>5 DEF IInv, InMemory, Retired
<1>8. Apart'
  <2> SUFFICES ASSUME NEW g \in Holders \ JobGroups, NEW h \in Holders \cup JobGroups \cup N, g # h
               PROVE  Stores(g)' \cap Stores(h)' = {}
    BY <1>2 DEF Apart, Active
  <2>1. Stores(g)' = Stores(g) /\ Stores(g) \subseteq salloc
    BY <1>5, StoresInMemory
  <2>2. CASE h \in Holders \cup JobGroups
    BY <1>5, <2>1, <2>2 DEF IInv, Apart, Active
  <2>3. CASE h \in N
    <3>1. PICK j \in JobGroups : group'[h].buffer = group[j].temp
      BY <2>3
    <3>2. Stores(g) \cap Stores(j) = {}
      BY <3>1 DEF IInv, Apart, Active
    <3>3. group'[h].buffer \in Stores(j)
      BY <1>0, <2>3, <3>1, ConstantFacts DEF Stores
    <3>4. group'[h].data \notin salloc /\ group'[h].temp = Null
      BY <2>3
    <3> QED
      BY <2>1, <3>2, <3>3, <3>4, SMTT(30) DEF Stores
  <2> QED
    BY <2>2, <2>3
<1>9. Handed'
  <2>1. \A g \in N : Stores(g)' \cap Sources = {}
    BY <1>0 DEF Stores
  <2>2. \A g, h \in N : g # h => Stores(g)' \cap Stores(h)' = {}
    BY <1>0 DEF Stores
  <2> QED
    BY <1>3, <2>1, <2>2 DEF Handed
<1>10. Arrays'
  <2>1. \A g \in Holders \cup JobGroups : group'[g].buffer \notin D /\ group'[g].temp \notin D
    BY <1>5, ConstantFacts DEF IInv, InMemory
  <2>2. \A g \in N : group'[g].buffer \notin D /\ group'[g].temp \notin D
    BY ConstantFacts
  <2> QED
    BY <1>2, <1>4, <2>1, <2>2 DEF Arrays
<1>11. Space' /\ Collected'
  BY DEF Space, Collected
<1>12. Pointers'
  BY <1>3 DEF IInv, Pointers
<1>13. Placed'
  BY <1>2, <1>6 DEF IInv, Placed, Still, wvars
<1>14. Following'
  BY DEF IInv, Following, Still, wvars
<1>15. Scanning'
  <2>1. \A w \in Workers : pc[w] \in {"fetch", "follow"} =>
           /\ gp[w] \in Holders
           /\ group'[gp[w]] = group[gp[w]]
           /\ store'[group[gp[w]].data] = store[group[gp[w]].data]
    BY <1>0, <1>5 DEF IInv, Placed, Using, InMemory
  <2>2. \A w \in Workers : pc[w] \in {"fetch", "follow"} => Ahead(w, 1)' = Ahead(w, 1)
    BY <2>1 DEF Ahead, Levels, Still, wvars
  <2> QED
    BY <2>1, <2>2 DEF IInv, Scanning, Still, wvars
<1> QED
  BY <1>6, <1>7, <1>8, <1>9, <1>10, <1>11, <1>12, <1>13, <1>14, <1>15 DEF IInv, Typed

\* A group in memory.
GroupRecord == [data : StoreIds \cup {Null}, buffer : StoreIds \cup {Null},
                temp : StoreIds \cup {Null}, frozen : BOOLEAN]

\* The group that takes buffer_temp over as its buffer.
LEMMA OnArrayFacts ==
  ASSUME NEW s \in StoreIds, NEW g, group[g].temp \in StoreIds
  PROVE  /\ OnArray(s, g) \in GroupRecord
         /\ OnArray(s, g).data = s /\ OnArray(s, g).buffer = group[g].temp
         /\ OnArray(s, g).temp = Null
  BY DEF OnArray, NoGroup, GroupRecord

\* The new group of a compaction or a merge is made in this way.
LEMMA MakeGroupStep ==
  ASSUME IInv, Still, MakeGroup
  PROVE  IInv'
<1> DEFINE a == NewGroup(1)
           d == NewStore(1)
           t == group[job.old[1]].temp
           r == RefsTo(Keys)
<1>0. Typed /\ TypedIndex /\ TypedStore /\ plan \in Scenarios /\ plan' = plan
  BY DEF IInv, Typed, TypedIndex, Still
<1>1. bpc = "collect" /\ job.kind # "split" /\ job.kind \in {"compact", "merge"}
  BY DEF MakeGroup, IInv, Shape, Jobs
<1>2. a \in GroupIds \ galloc /\ d \in StoreIds \ salloc
  <2>1. Room(1, 0) /\ Room(0, 1)
    BY <1>0, <1>1, LessRoom DEF IInv, Space
  <2> QED
    BY <1>0, <2>1, NewIds
<1>3. t \in salloc \ Sources /\ salloc \subseteq StoreIds /\ Sources \subseteq salloc
  BY <1>0, <1>1, SourceFacts DEF IInv, Handed, TypedIndex
<1>4. job.old[1] \in JobGroups
  BY <1>1, JobFacts DEF IInv, JobGroups
<1>5. r \in [Keys -> Record] /\ \A k \in Keys : r[k].st = "ptr" => r[k].x \in Sources
  BY <1>1, RefsFacts
<1>6. /\ group' = [group EXCEPT ![a] = OnArray(d, job.old[1])]
      /\ store' = [store EXCEPT ![d] = r]
      /\ galloc' = galloc \cup {a} /\ salloc' = salloc \cup {d}
      /\ job' = [job EXCEPT !.new = <<a>>]
      /\ refs' = {} /\ bpc' = "publish" /\ UNCHANGED <<wait, dir, todo>>
  BY DEF MakeGroup
<1>7. /\ OnArray(d, job.old[1]) \in GroupRecord
      /\ OnArray(d, job.old[1]).data = d /\ OnArray(d, job.old[1]).buffer = t
      /\ OnArray(d, job.old[1]).temp = Null
  <2> HIDE DEF d
  <2> QED
    BY <1>2, <1>3, OnArrayFacts
<1> HIDE DEF a, d, t, r
<1>8. /\ group'[a].data = d /\ group'[a].buffer = t /\ group'[a].temp = Null
      /\ \A g \in GroupIds \ {a} : group'[g] = group[g]
      /\ group' \in [GroupIds -> GroupRecord]
  <2>1. group \in [GroupIds -> GroupRecord]
    BY <1>0 DEF TypedIndex, GroupRecord
  <2> QED
    BY <1>2, <1>6, <1>7, <2>1
<1>9. /\ TypedStore' /\ \A s \in StoreIds \ {d} : store'[s] = store[s]
      /\ store'[d] = r
  BY <1>0, <1>2, <1>5, <1>6 DEF TypedStore
<1>10. TypedIndex'
  BY <1>0, <1>2, <1>6, <1>8 DEF TypedIndex, GroupRecord
<1>11. /\ job' \in Jobs /\ job'.kind = job.kind /\ job'.old = job.old /\ job'.mid = job.mid
       /\ Len(job'.new) = 1 /\ job'.new[1] = a
       /\ Old' = Old /\ Mid' = Mid /\ New' = {a}
  <2> DEFINE n == <<a>>
  <2>1. n \in Seq(GroupIds) /\ Len(n) = 1 /\ n[1] = a /\ Elements(n) = {a}
    BY <1>2, TupleFacts
  <2>2. job' = [job EXCEPT !.new = n] /\ job \in Jobs
    BY <1>6 DEF IInv, Shape
  <2> HIDE DEF n
  <2> QED
    BY <2>1, <2>2 DEF Jobs, Old, Mid, New
<1>12. Shape'
  <2>1. a \notin Old /\ a \notin Mid
    BY <1>2 DEF IInv, InMemory, JobGroups
  <2> QED
    BY <1>1, <1>6, <1>11, <2>1 DEF IInv, Shape, Replacing
<1>13. d \in NewData'
  BY <1>8, <1>11 DEF NewData
<1> DEFINE N == {a}
           D == {d}
<1>14. /\ N \in SUBSET (GroupIds \ galloc) /\ D \in SUBSET (StoreIds \ salloc)
       /\ New' = N /\ galloc' = galloc \cup N /\ salloc' = salloc \cup D
       /\ \A g \in GroupIds \ N : group'[g] = group[g]
       /\ \A s \in StoreIds \ D : store'[s] = store[s]
       /\ \A s \in D : s \in NewData'
  BY <1>2, <1>6, <1>8, <1>9, <1>11, <1>13
<1>15. \A n \in N : /\ group'[n].data \in D /\ group'[n].temp = Null
                    /\ group'[n].buffer \in salloc \ Sources
                    /\ \E h \in JobGroups : group'[n].buffer = group[h].temp
  BY <1>3, <1>4, <1>8 DEF t
<1>16. \A m, n \in N : m # n => /\ group'[m].data # group'[n].data
                                /\ group'[m].buffer # group'[n].buffer
  OBVIOUS
<1>17. \A s \in D, k \in Keys : store'[s][k].st = "ptr" => store'[s][k].x \in Sources
  BY <1>5, <1>9
<1> HIDE DEF N, D
<1>18. Makes(N, D)
  BY <1>1, <1>6, <1>9, <1>10, <1>11, <1>12, <1>14, <1>15, <1>16, <1>17 DEF Makes
<1> QED
  BY <1>18, MakeKeeps

\* So are the two new groups of a split.
LEMMA MakeGroupsStep ==
  ASSUME IInv, Still, MakeGroups
  PROVE  IInv'
<1> DEFINE a == NewGroup(1)
           b == NewGroup(2)
           d == NewStore(1)
           e == NewStore(2)
           t == group[job.mid[1]].temp
           u == group[job.mid[2]].temp
           r == RefsTo(KeysOf(job.mid[1]))
           q == RefsTo(KeysOf(job.mid[2]))
<1>0. Typed /\ TypedIndex /\ TypedStore /\ plan \in Scenarios /\ plan' = plan
  BY DEF IInv, Typed, TypedIndex, Still
<1>1. bpc = "collect" /\ job.kind = "split"
  BY DEF MakeGroups
<1>2. /\ a \in GroupIds \ galloc /\ d \in StoreIds \ salloc
      /\ b \in GroupIds \ galloc /\ e \in StoreIds \ salloc
      /\ a # b /\ d # e
  <2>1. Room(1, 0) /\ Room(0, 1) /\ Room(2, 0) /\ Room(0, 2)
    BY <1>0, <1>1, LessRoom DEF IInv, Space
  <2> QED
    BY <1>0, <2>1, NewIds
<1>3. /\ t \in salloc \ Sources /\ u \in salloc \ Sources /\ t # u
      /\ salloc \subseteq StoreIds /\ Sources \subseteq salloc
  BY <1>0, <1>1, SourceFacts DEF IInv, Handed, TypedIndex
<1>4. job.mid[1] \in JobGroups /\ job.mid[2] \in JobGroups
  BY <1>1, JobFacts DEF IInv, JobGroups
<1>5. /\ r \in [Keys -> Record] /\ \A k \in Keys : r[k].st = "ptr" => r[k].x \in Sources
      /\ q \in [Keys -> Record] /\ \A k \in Keys : q[k].st = "ptr" => q[k].x \in Sources
  BY <1>1, RefsFacts
<1>6. /\ group' = [group EXCEPT ![a] = OnArray(d, job.mid[1]), ![b] = OnArray(e, job.mid[2])]
      /\ store' = [store EXCEPT ![d] = r, ![e] = q]
      /\ galloc' = galloc \cup {a, b} /\ salloc' = salloc \cup {d, e}
      /\ job' = [job EXCEPT !.new = <<a, b>>]
      /\ refs' = {} /\ bpc' = "publish" /\ UNCHANGED <<wait, dir, todo>>
  BY DEF MakeGroups
<1>7. /\ OnArray(d, job.mid[1]) \in GroupRecord /\ OnArray(e, job.mid[2]) \in GroupRecord
      /\ OnArray(d, job.mid[1]).data = d /\ OnArray(d, job.mid[1]).buffer = t
      /\ OnArray(e, job.mid[2]).data = e /\ OnArray(e, job.mid[2]).buffer = u
      /\ OnArray(d, job.mid[1]).temp = Null /\ OnArray(e, job.mid[2]).temp = Null
  <2> HIDE DEF d, e
  <2> QED
    BY <1>2, <1>3, OnArrayFacts
<1> HIDE DEF a, b, d, e, t, u, r, q
<1>8. /\ group'[a].data = d /\ group'[a].buffer = t /\ group'[a].temp = Null
      /\ group'[b].data = e /\ group'[b].buffer = u /\ group'[b].temp = Null
      /\ \A g \in GroupIds \ {a, b} : group'[g] = group[g]
      /\ group' \in [GroupIds -> GroupRecord]
  <2>1. group \in [GroupIds -> GroupRecord]
    BY <1>0 DEF TypedIndex, GroupRecord
  <2> DEFINE f == OnArray(d, job.mid[1])
             g == OnArray(e, job.mid[2])
  <2>2. group' = [group EXCEPT ![a] = f, ![b] = g] /\ f \in GroupRecord /\ g \in GroupRecord
    BY <1>6, <1>7
  <2> HIDE DEF f, g
  <2>3. /\ group'[a] = f /\ group'[b] = g /\ \A h \in GroupIds \ {a, b} : group'[h] = group[h]
        /\ group' \in [GroupIds -> GroupRecord]
    BY <1>2, <2>1, <2>2
  <2> QED
    BY <1>7, <2>3 DEF f, g
<1>9. /\ TypedStore' /\ \A s \in StoreIds \ {d, e} : store'[s] = store[s]
      /\ store'[d] = r /\ store'[e] = q
  BY <1>0, <1>2, <1>5, <1>6 DEF TypedStore
<1>10. TypedIndex'
  BY <1>0, <1>2, <1>6, <1>8 DEF TypedIndex, GroupRecord
<1>11. /\ job' \in Jobs /\ job'.kind = job.kind /\ job'.old = job.old /\ job'.mid = job.mid
       /\ Len(job'.new) = 2 /\ job'.new[1] = a /\ job'.new[2] = b
       /\ Old' = Old /\ Mid' = Mid /\ New' = {a, b}
  <2> DEFINE n == <<a, b>>
  <2>1. n \in Seq(GroupIds) /\ Len(n) = 2 /\ n[1] = a /\ n[2] = b /\ Elements(n) = {a, b}
    BY <1>2 DEF Elements
  <2>2. job' = [job EXCEPT !.new = n] /\ job \in Jobs
    BY <1>6 DEF IInv, Shape
  <2> HIDE DEF n
  <2> QED
    BY <2>1, <2>2 DEF Jobs, Old, Mid, New
<1>12. Shape'
  <2>1. a \notin Old /\ a \notin Mid /\ b \notin Old /\ b \notin Mid
    BY <1>2 DEF IInv, InMemory, JobGroups
  <2> QED
    BY <1>1, <1>2, <1>6, <1>11, <2>1 DEF IInv, Shape, Replacing
<1>13. d \in NewData' /\ e \in NewData'
  BY <1>8, <1>11 DEF NewData
<1> DEFINE N == {a, b}
           D == {d, e}
<1>14. /\ N \in SUBSET (GroupIds \ galloc) /\ D \in SUBSET (StoreIds \ salloc)
       /\ New' = N /\ galloc' = galloc \cup N /\ salloc' = salloc \cup D
       /\ \A g \in GroupIds \ N : group'[g] = group[g]
       /\ \A s \in StoreIds \ D : store'[s] = store[s]
       /\ \A s \in D : s \in NewData'
  BY <1>2, <1>6, <1>8, <1>9, <1>11, <1>13
<1>15. \A n \in N : /\ group'[n].data \in D /\ group'[n].temp = Null
                    /\ group'[n].buffer \in salloc \ Sources
                    /\ \E h \in JobGroups : group'[n].buffer = group[h].temp
  BY <1>3, <1>4, <1>8 DEF t, u
<1>16. \A m, n \in N : m # n => /\ group'[m].data # group'[n].data
                                /\ group'[m].buffer # group'[n].buffer
  BY <1>2, <1>3, <1>8
<1>17. \A s \in D, k \in Keys : store'[s][k].st = "ptr" => store'[s][k].x \in Sources
  BY <1>5, <1>9
<1> HIDE DEF N, D
<1>18. Makes(N, D)
  BY <1>1, <1>6, <1>9, <1>10, <1>11, <1>12, <1>14, <1>15, <1>16, <1>17 DEF Makes
<1> QED
  BY <1>18, MakeKeeps

\* Group g is replaced by copies N of it at once, whose buffer_temps are in D or that
\* of g, and a barrier begins.
Starts(g, N, D) ==
  /\ bpc = "rest" /\ UNCHANGED <<store, todo, refs>>
  /\ Shape' /\ TypedIndex' /\ Space'
  /\ g \in Holders /\ Old' = {g} /\ New' = {}
  /\ N \in SUBSET (GroupIds \ galloc) /\ galloc' = galloc \cup N
  /\ D \in SUBSET (StoreIds \ salloc) /\ salloc' = salloc \cup D
  /\ Holders \ {g} \subseteq Holders' /\ Holders' \subseteq (Holders \ {g}) \cup N
  /\ \A h \in GroupIds \ N : group'[h] = group[h]
  /\ \A n \in N : /\ group'[n].data = group[g].data /\ group'[n].buffer = group[g].buffer
                  /\ group'[n].temp \in D \cup {group[g].temp}
  /\ \A w \in Using : w \in wait'
  /\ \/ bpc' = "discard" /\ Mid' = {} /\ D = {} /\ \E n : N = {n}
     \/ /\ bpc' = "drain" /\ Mid' = N /\ job'.kind = "split"
        /\ group'[job'.mid[1]].temp \in D /\ group'[job'.mid[2]].temp \in D
        /\ group'[job'.mid[1]].temp # group'[job'.mid[2]].temp

\* Replacing a group in this way preserves the invariant.
LEMMA StartKeeps ==
  ASSUME IInv, Still, NEW g, NEW N, NEW D, Starts(g, N, D)
  PROVE  IInv'
<1> USE DEF Starts
<1>0. Typed /\ TypedIndex /\ plan' = plan /\ Holders \subseteq galloc /\ salloc \subseteq StoreIds
      /\ Holders \subseteq GroupIds \ N /\ Holders \subseteq GroupIds
  BY DEF IInv, Typed, TypedIndex, InMemory, Still
<1>1. JobGroups = {} /\ Active = Holders
  BY JobFacts DEF IInv, Shape, JobGroups, Active, Replacing
<1>2. JobGroups' \subseteq {g} \cup N /\ NewData' = {}
  BY DEF JobGroups, NewData
<1>3. \A h \in Holders : group'[h] = group[h] /\ Stores(h)' = Stores(h) /\ Stores(h) \subseteq salloc
  BY <1>0, StoresInMemory DEF Stores
<1>4. \A n \in N : Stores(n)' \subseteq Stores(g) \cup D
  BY DEF Stores
<1>5. Sources' = {group[g].data, group[g].buffer}
  <2>1. job' \in Jobs /\ job'.old \in Seq(GroupIds) /\ Len(job'.old) = 1
    BY DEF Shape, Jobs
  <2>2. job'.old[1] = g
    BY <2>1, ElementFacts DEF Old
  <2> QED
    BY <1>3, <2>1, <2>2 DEF Sources, SourcesOf
<1>6. TypedWorkers' /\ Putting' /\ cur' \in [Workers -> Cursor] /\ Using' = Using
  BY StillKeeps DEF IInv
<1>7. TypedStore'
  BY <1>0 DEF Typed, TypedStore
<1>8. InMemory'
  <2>1. \A h \in Holders : /\ group[h].data \in salloc /\ group[h].buffer \in salloc
                         /\ group[h].temp \in salloc \cup {Null}
    BY DEF IInv, InMemory
  <2> QED
    BY <1>0, <1>2, <1>3, <2>1 DEF InMemory
<1>9. Retired'
  BY <1>0, <1>2 DEF Retired, Shape
<1>10. Apart'
  <2> SUFFICES ASSUME NEW x \in Holders' \ JobGroups', NEW y \in Active', x # y
               PROVE  Stores(x)' \cap Stores(y)' = {}
    BY DEF Apart
  <2>1. g \in JobGroups' /\ Active' \subseteq Holders \cup N
    BY <1>2 DEF JobGroups, Active
  <2>2. \A h, i \in Holders : h # i => Stores(h) \cap Stores(i) = {}
    BY <1>1 DEF IInv, Apart
  <2>3. CASE x \in Holders \ {g} /\ y \in Holders
    BY <1>3, <2>2, <2>3
  <2>4. CASE x \in Holders \ {g} /\ y \in N
    BY <1>3, <1>4, <2>2, <2>4
  <2>5. CASE x \in N
    <3>1. bpc' = "discard"
      BY <2>5 DEF JobGroups
    <3>2. y \in Holders \ {g}
      BY <2>5, <3>1 DEF Active
    <3> QED
      BY <1>3, <1>4, <2>2, <2>5, <3>1, <3>2
  <2> QED
    BY <2>1, <2>3, <2>4, <2>5
<1>11. Handed'
  <2>1. {group[g].data, group[g].buffer} \subseteq salloc
    BY DEF IInv, InMemory
  <2> QED
    BY <1>5, <2>1 DEF Handed, Replacing
<1>12. Arrays' /\ Collected'
  BY <1>2 DEF IInv, Arrays, Collected
<1>13. Pointers' /\ Following'
  BY DEF IInv, Pointers, Following, Still, wvars
<1>14. Placed'
  <2>1. \A w \in Using : gp[w] \in Holders
    BY DEF IInv, Placed
  <2> QED
    BY <1>6, <2>1 DEF Placed, Still, wvars
<1>15. Scanning'
  <2>1. \A w \in Workers : pc[w] \in {"fetch", "follow"} =>
           gp[w] \in Holders /\ group'[gp[w]] = group[gp[w]]
    BY <1>3 DEF IInv, Placed, Using
  <2>2. \A w \in Workers : pc[w] \in {"fetch", "follow"} => Ahead(w, 1)' = Ahead(w, 1)
    BY <2>1 DEF Ahead, Levels, Still, wvars
  <2> QED
    BY <2>1, <2>2 DEF IInv, Scanning, Still, wvars
<1> QED
  BY <1>6, <1>7, <1>8, <1>9, <1>10, <1>11, <1>12, <1>13, <1>14, <1>15 DEF IInv, Typed

\* The start of a split: the two intermediate groups are copies of the old one.
LEMMA BeginSplitStep ==
  ASSUME IInv, Still, BeginSplit
  PROVE  IInv'
<1> DEFINE a == NewGroup(1)
           b == NewGroup(2)
           t == NewStore(1)
           u == NewStore(2)
<1>0. Typed /\ TypedIndex /\ plan \in Scenarios /\ plan' = plan /\ Holders \subseteq galloc
      /\ galloc \subseteq GroupIds
  BY DEF IInv, Typed, TypedIndex, InMemory, Still
<1>1. bpc = "rest" /\ bpc' = "drain" /\ Room(4, 4) /\ UNCHANGED <<store, todo, refs>>
      /\ galloc' = galloc \cup {a, b} /\ salloc' = salloc \cup {t, u}
  BY DEF BeginSplit, Barrier
<1>2. /\ a \in GroupIds \ galloc /\ t \in StoreIds \ salloc
      /\ b \in GroupIds \ galloc /\ u \in StoreIds \ salloc
      /\ a # b /\ t # u
      /\ Cardinality(plan.stores \ (salloc \cup {t, u})) >= 2
      /\ Cardinality(plan.groups \ (galloc \cup {a, b})) >= 2
  <2>1. Room(1, 0) /\ Room(0, 1) /\ Room(2, 0) /\ Room(0, 2)
    BY <1>0, <1>1, LessRoom
  <2> QED
    BY <1>0, <1>1, <2>1, NewIds DEF Room
<1>3. PICK g \in Holders :
        /\ job' = [NoJob EXCEPT !.kind = "split", !.old = <<g>>, !.mid = <<a, b>>]
        /\ group' = [group EXCEPT ![a] = [group[g] EXCEPT !.frozen = TRUE, !.temp = t],
                                  ![b] = [group[g] EXCEPT !.frozen = TRUE, !.temp = u]]
        /\ dir' = [k \in Keys |-> IF k \notin KeysOf(g) THEN dir[k]
                                  ELSE IF k < Pivot(g) THEN a ELSE b]
  BY DEF BeginSplit
<1>4. g \in GroupIds /\ g # a /\ g # b
  BY <1>0, <1>2, <1>3
<1> HIDE DEF a, b, t, u
<1>5. /\ job' \in Jobs /\ job'.kind = "split" /\ job'.mid[1] = a /\ job'.mid[2] = b
      /\ Len(job'.old) = 1 /\ Len(job'.mid) = 2 /\ Len(job'.new) = 0
      /\ Old' = {g} /\ Mid' = {a, b} /\ New' = {}
  <2> DEFINE o == <<g>>
             m == <<a, b>>
             n == <<>>
  <2>1. job' = [kind |-> "split", old |-> o, mid |-> m, new |-> n]
    BY <1>3 DEF NoJob
  <2>2. o \in Seq(GroupIds) /\ Len(o) = 1 /\ Elements(o) = {g}
    BY <1>4, TupleFacts
  <2>3. m \in Seq(GroupIds) /\ Len(m) = 2 /\ Elements(m) = {a, b} /\ m[1] = a /\ m[2] = b
    BY <1>2 DEF Elements
  <2>4. n \in Seq(GroupIds) /\ Len(n) = 0 /\ Elements(n) = {}
    BY DEF Elements
  <2> HIDE DEF o, m, n
  <2>5. /\ job' \in Jobs /\ job'.kind = "split" /\ job'.old = o /\ job'.mid = m /\ job'.new = n
        /\ Old' = Elements(o) /\ Mid' = Elements(m) /\ New' = Elements(n)
    BY <2>1, <2>2, <2>3, <2>4, NewJob
  <2> QED
    BY <2>2, <2>3, <2>4, <2>5
<1>6. Shape'
  BY <1>1, <1>2, <1>4, <1>5 DEF Shape, Replacing
<1>7. /\ group'[a].data = group[g].data /\ group'[a].buffer = group[g].buffer /\ group'[a].temp = t
      /\ group'[b].data = group[g].data /\ group'[b].buffer = group[g].buffer /\ group'[b].temp = u
      /\ \A h \in GroupIds \ {a, b} : group'[h] = group[h]
      /\ group' \in [GroupIds -> GroupRecord]
  <2>1. group \in [GroupIds -> GroupRecord] /\ group[g] \in GroupRecord
    BY <1>0, <1>4 DEF TypedIndex, GroupRecord
  <2> DEFINE f == [group[g] EXCEPT !.frozen = TRUE, !.temp = t]
             h == [group[g] EXCEPT !.frozen = TRUE, !.temp = u]
  <2>2. /\ f \in GroupRecord /\ f.data = group[g].data /\ f.buffer = group[g].buffer /\ f.temp = t
        /\ h \in GroupRecord /\ h.data = group[g].data /\ h.buffer = group[g].buffer /\ h.temp = u
    BY <1>2, <2>1 DEF GroupRecord
  <2>3. group' = [group EXCEPT ![a] = f, ![b] = h]
    BY <1>3
  <2> HIDE DEF f, h
  <2> QED
    BY <1>2, <2>1, <2>2, <2>3
<1>8. dir' \in [Keys -> GroupIds] /\ Holders \ {g} \subseteq Holders'
      /\ Holders' \subseteq (Holders \ {g}) \cup {a, b}
  BY <1>0, <1>2, <1>3 DEF TypedIndex, Holders, KeysOf
<1>9. TypedIndex'
  BY <1>0, <1>1, <1>2, <1>7, <1>8 DEF TypedIndex, GroupRecord
<1>10. Space'
  BY <1>0, <1>1, <1>2, <1>5 DEF Space, Room
<1>11. \A w \in Using : w \in wait'
  BY DEF BeginSplit, Barrier, Using
<1>12. Starts(g, {a, b}, {t, u})
  BY <1>1, <1>2, <1>3, <1>5, <1>6, <1>7, <1>8, <1>9, <1>10, <1>11 DEF Starts
<1> QED
  BY <1>12, StartKeeps

\* split_model and merge_model: one copy.
LEMMA BeginModelStep ==
  ASSUME IInv, Still, BeginModel
  PROVE  IInv'
<1> DEFINE a == NewGroup(1)
<1>0. Typed /\ TypedIndex /\ plan \in Scenarios /\ plan' = plan /\ Holders \subseteq galloc
      /\ galloc \subseteq GroupIds
  BY DEF IInv, Typed, TypedIndex, InMemory, Still
<1>1. bpc = "rest" /\ bpc' = "discard" /\ Room(1, 0) /\ UNCHANGED <<store, salloc, todo, refs>>
      /\ galloc' = galloc \cup {a}
  BY DEF BeginModel, Barrier
<1>2. a \in GroupIds \ galloc
  BY <1>0, <1>1, NewIds
<1>3. PICK g \in Holders :
        /\ job' = [NoJob EXCEPT !.kind = "model", !.old = <<g>>]
        /\ group' = [group EXCEPT ![a] = [group[g] EXCEPT !.frozen = FALSE]]
        /\ Redirect(KeysOf(g), a)
  BY DEF BeginModel
<1>4. g \in GroupIds /\ g # a
  BY <1>0, <1>2, <1>3
<1> HIDE DEF a
<1>5. /\ job' \in Jobs /\ job'.kind = "model"
      /\ Len(job'.old) = 1 /\ Len(job'.mid) = 0 /\ Len(job'.new) = 0
      /\ Old' = {g} /\ Mid' = {} /\ New' = {}
  <2> DEFINE o == <<g>>
             n == <<>>
  <2>1. job' = [kind |-> "model", old |-> o, mid |-> n, new |-> n]
    BY <1>3 DEF NoJob
  <2>2. o \in Seq(GroupIds) /\ Len(o) = 1 /\ Elements(o) = {g}
    BY <1>4, TupleFacts
  <2>3. n \in Seq(GroupIds) /\ Len(n) = 0 /\ Elements(n) = {}
    BY DEF Elements
  <2> HIDE DEF o, n
  <2>4. /\ job' \in Jobs /\ job'.kind = "model" /\ job'.old = o /\ job'.mid = n /\ job'.new = n
        /\ Old' = Elements(o) /\ Mid' = Elements(n) /\ New' = Elements(n)
    BY <2>1, <2>2, <2>3, NewJob
  <2> QED
    BY <2>2, <2>3, <2>4
<1>6. Shape'
  BY <1>1, <1>4, <1>5 DEF Shape, Replacing
<1>7. /\ group'[a].data = group[g].data /\ group'[a].buffer = group[g].buffer
      /\ group'[a].temp = group[g].temp
      /\ \A h \in GroupIds \ {a} : group'[h] = group[h]
      /\ group' \in [GroupIds -> GroupRecord]
  <2>1. group \in [GroupIds -> GroupRecord] /\ group[g] \in GroupRecord
    BY <1>0, <1>4 DEF TypedIndex, GroupRecord
  <2> DEFINE f == [group[g] EXCEPT !.frozen = FALSE]
  <2>2. /\ f \in GroupRecord /\ f.data = group[g].data /\ f.buffer = group[g].buffer
        /\ f.temp = group[g].temp
    BY <2>1 DEF GroupRecord
  <2>3. group' = [group EXCEPT ![a] = f]
    BY <1>3
  <2> HIDE DEF f
  <2> QED
    BY <1>2, <2>1, <2>2, <2>3
<1>8. dir' \in [Keys -> GroupIds] /\ Holders \ {g} \subseteq Holders'
      /\ Holders' \subseteq (Holders \ {g}) \cup {a}
  BY <1>0, <1>2, <1>3 DEF TypedIndex, Holders, KeysOf, Redirect
<1>9. TypedIndex'
  BY <1>0, <1>1, <1>2, <1>7, <1>8 DEF TypedIndex, GroupRecord
<1>10. Space'
  BY <1>1 DEF Space
<1>11. \A w \in Using : w \in wait'
  BY DEF BeginModel, Barrier, Using
<1>12. Starts(g, {a}, {})
  BY <1>1, <1>2, <1>3, <1>5, <1>6, <1>7, <1>8, <1>9, <1>10, <1>11 DEF Starts
<1> QED
  BY <1>12, StartKeeps

\* The slots of the groups in R are pointed at new groups; the barrier begins when no
\* old or intermediate group has a slot.
Publishes(R) ==
  /\ bpc = "publish" /\ UNCHANGED <<store, group, galloc, salloc, job, todo, refs>>
  /\ dir' \in [Keys -> GroupIds] /\ R \subseteq Old \cup Mid
  /\ Holders \ R \subseteq Holders' /\ Holders' \subseteq (Holders \ R) \cup New
  /\ \/ /\ bpc' = "quiesce" /\ Holders' \cap (Old \cup Mid) = {}
        /\ \A w \in Using : w \in wait'
     \/ bpc' = "publish" /\ job.kind = "merge" /\ R = {job.old[1]}

\* Publishing in this way preserves the invariant.
LEMMA PublishKeeps ==
  ASSUME IInv, Still, NEW R, Publishes(R)
  PROVE  IInv'
<1> USE DEF Publishes
<1>0. Typed /\ TypedIndex /\ plan' = plan
  BY DEF IInv, Typed, Still
<1>1. /\ Old' = Old /\ Mid' = Mid /\ New' = New /\ JobGroups' = JobGroups /\ Sources' = Sources
      /\ NewData' = NewData /\ \A g : Stores(g)' = Stores(g)
  BY DEF Old, Mid, New, JobGroups, Sources, SourcesOf, NewData, Stores
<1>2. Holders' \subseteq Holders \cup JobGroups
  BY DEF JobGroups
<1>3. TypedWorkers' /\ Putting' /\ cur' \in [Workers -> Cursor] /\ Using' = Using
  BY StillKeeps DEF IInv
<1>4. Typed'
  BY <1>0, <1>3 DEF Typed, TypedIndex, TypedStore
<1>5. Shape'
  BY <1>1 DEF IInv, Shape, Replacing
<1>6. InMemory' /\ Arrays'
  BY <1>1, <1>2 DEF IInv, InMemory, Arrays
<1>7. Retired'
  BY <1>1 DEF IInv, Retired, Shape
<1>8. Apart'
  BY <1>1, <1>2 DEF IInv, Apart, Active
<1>9. Handed'
  BY <1>1 DEF IInv, Handed, Replacing
<1>10. Space' /\ Collected'
  BY DEF IInv, Space, Collected
<1>11. Pointers' /\ Following'
  BY <1>1 DEF IInv, Pointers, Following, Still, wvars
<1>12. Placed'
  <2>1. \A w \in Using : gp[w] \in Holders \/ (job.kind = "merge" /\ gp[w] = job.old[1])
    BY DEF IInv, Placed
  <2>2. job.kind = "merge" => job.old[1] \in Old
    BY JobFacts DEF IInv
  <2> QED
    BY <1>1, <1>3, <2>1, <2>2 DEF Placed, Still, wvars
<1>13. Scanning'
  BY DEF IInv, Scanning, Ahead, Levels, Still, wvars
<1> QED
  BY <1>3, <1>4, <1>5, <1>6, <1>7, <1>8, <1>9, <1>10, <1>11, <1>12, <1>13 DEF IInv

\* Every kind of job publishes its groups in this way.
LEMMA PublishStep ==
  ASSUME IInv, Still, Publish
  PROVE  IInv'
<1>0. dir \in [Keys -> GroupIds] /\ bpc = "publish" /\ bpc \in Replacing
      /\ UNCHANGED <<store, group, galloc, salloc, job, todo, refs>>
  BY DEF IInv, Typed, TypedIndex, Publish, Replacing
<1>1. /\ New \subseteq GroupIds /\ Old \cap New = {} /\ Mid \cap New = {}
      /\ job.kind = "split" => Holders \cap Old = {}
  BY JobFacts DEF IInv, Shape, Retired, JobGroups
<1>2. /\ job.kind # "split" => job.new[1] \in New /\ Mid = {}
      /\ job.kind = "compact" => Old = {job.old[1]}
      /\ job.kind = "merge" => Old = {job.old[1], job.old[2]}
      /\ job.kind = "split" => /\ job.new[1] \in New /\ job.new[2] \in New
                               /\ Mid = {job.mid[1], job.mid[2]}
  BY <1>0, JobFacts DEF IInv
<1>3. ASSUME NEW g, NEW n \in New, Redirect(KeysOf(g), n)
      PROVE  /\ dir' \in [Keys -> GroupIds] /\ Holders \ {g} \subseteq Holders'
             /\ Holders' \subseteq (Holders \ {g}) \cup New
  BY <1>0, <1>1, <1>3 DEF Redirect, KeysOf, Holders
<1>4. ASSUME Barrier("quiesce")
      PROVE  bpc' = "quiesce" /\ \A w \in Using : w \in wait'
  BY <1>4 DEF Barrier, Using
<1>5. CASE job.kind = "compact" /\ Redirect(KeysOf(job.old[1]), job.new[1]) /\ Barrier("quiesce")
  <2>1. Publishes({job.old[1]})
    BY <1>0, <1>1, <1>2, <1>3, <1>4, <1>5 DEF Publishes
  <2> QED
    BY <2>1, PublishKeeps
<1>6. CASE /\ job.kind = "split"
           /\ dir' = [k \in Keys |-> IF dir[k] = job.mid[1] THEN job.new[1]
                                     ELSE IF dir[k] = job.mid[2] THEN job.new[2]
                                     ELSE dir[k]]
           /\ Barrier("quiesce")
  <2>1. /\ dir' \in [Keys -> GroupIds] /\ Holders \ Mid \subseteq Holders'
        /\ Holders' \subseteq (Holders \ Mid) \cup New
    BY <1>0, <1>1, <1>2, <1>6 DEF Holders
  <2>2. Publishes(Mid)
    BY <1>0, <1>1, <1>2, <1>4, <1>6, <2>1 DEF Publishes
  <2> QED
    BY <2>2, PublishKeeps
<1>7. CASE /\ job.kind = "merge" /\ job.old[1] \in Holders
           /\ Redirect(KeysOf(job.old[1]), job.new[1]) /\ UNCHANGED <<bpc, wait>>
  <2>1. Publishes({job.old[1]})
    BY <1>0, <1>1, <1>2, <1>3, <1>7 DEF Publishes
  <2> QED
    BY <2>1, PublishKeeps
<1>8. CASE /\ job.kind = "merge" /\ job.old[1] \notin Holders
           /\ Redirect(KeysOf(job.old[2]), job.new[1]) /\ Barrier("quiesce")
  <2>1. Publishes({job.old[2]})
    BY <1>0, <1>1, <1>2, <1>3, <1>4, <1>8 DEF Publishes
  <2> QED
    BY <2>1, PublishKeeps
<1> QED
  BY <1>5, <1>6, <1>7, <1>8 DEF Publish

\* replace_pointer: no pointer leads from the record any more.
LEMMA ReplacePointerStep ==
  ASSUME IInv, Still, ReplacePointer
  PROVE  IInv'
<1>0. Typed /\ TypedIndex /\ TypedStore /\ plan' = plan
  BY DEF IInv, Typed, Still
<1>1. PICK t \in todo : /\ todo' = todo \ {t}
                        /\ store' = [store EXCEPT ![t[1]][t[2]] = Replaced(t[1], t[2])]
  BY DEF ReplacePointer
<1>2. bpc = "replace" /\ UNCHANGED <<wait, dir, group, galloc, salloc, bpc, job, refs>>
  BY DEF ReplacePointer
<1>3. t[1] \in StoreIds /\ t[2] \in Keys /\ t = <<t[1], t[2]>>
  BY <1>0, <1>1 DEF TypedIndex
<1>4. Replaced(t[1], t[2]) \in Record /\ Replaced(t[1], t[2]).st \in {"live", "removed"}
  <2>1. CASE IsLive(t[1], t[2])
    <3> DEFINE s == Target(t[1], t[2])
    <3>1. s \in StoreIds /\ store[s][t[2]].st = "live"
      BY <1>3, <2>1, TargetFacts DEF IsLive, IInv
    <3> HIDE DEF s
    <3>2. store[s][t[2]] \in Record
      BY <1>0, <1>3, <3>1 DEF TypedStore
    <3>3. store[s][t[2]].x \in Vals
      BY <3>1, <3>2, LiveRecord
    <3>4. Replaced(t[1], t[2]) = Live(store[s][t[2]].x)
      BY <2>1 DEF Replaced, ValueAt, s
    <3> QED
      BY <3>3, <3>4, RecordFacts
  <2>2. CASE ~IsLive(t[1], t[2])
    BY <2>2, RecordFacts DEF Replaced
  <2> QED
    BY <2>1, <2>2
<1>5. StoreStep
  BY <1>0, <1>1, <1>4, PutStep
<1>6. /\ Holders' = Holders /\ Old' = Old /\ Mid' = Mid /\ New' = New /\ JobGroups' = JobGroups
      /\ Sources' = Sources /\ NewData' = NewData /\ Active' = Active
      /\ \A g : Stores(g)' = Stores(g)
  BY <1>2
     DEF Holders, Old, Mid, New, JobGroups, Sources, SourcesOf, NewData, Active, Stores
<1>7. TypedWorkers' /\ Putting' /\ cur' \in [Workers -> Cursor] /\ Using' = Using
  BY StillKeeps DEF IInv
<1>8. Typed'
  BY <1>0, <1>1, <1>2, <1>5, <1>7 DEF Typed, TypedIndex, StoreStep
<1>9. Shape' /\ InMemory' /\ Retired' /\ Apart' /\ Arrays'
  BY <1>2, <1>6 DEF IInv, Shape, InMemory, Retired, Apart, Arrays
<1>10. Handed'
  BY <1>2, <1>6 DEF IInv, Handed
<1>11. Space' /\ Collected'
  BY <1>2 DEF IInv, Space, Collected
<1>12. Pointers'
  <2> SUFFICES ASSUME NEW s \in StoreIds, NEW k \in Keys, store'[s][k].st = "ptr"
               PROVE  store'[s][k].x \in Sources /\ s \in NewData /\ <<s, k>> \in todo'
    BY <1>2, <1>6 DEF Pointers
  <2>1. store'[s][k] = store[s][k]
    BY <1>5 DEF StoreStep
  <2>2. store[s][k].x \in Sources /\ s \in NewData /\ <<s, k>> \in todo
    BY <1>2, <2>1 DEF IInv, Pointers
  <2>3. <<s, k>> # t
    <3>1. SUFFICES ASSUME <<s, k>> = t PROVE FALSE
      OBVIOUS
    <3>2. t[1] = s /\ t[2] = k
      BY <3>1
    <3>3. store'[s][k] = Replaced(t[1], t[2])
      BY <1>0, <1>1, <3>2 DEF TypedStore
    <3> QED
      BY <1>4, <3>3
  <2> QED
    BY <1>1, <2>1, <2>2, <2>3
<1>13. Placed' /\ Following'
  BY <1>2, <1>6, <1>7 DEF IInv, Placed, Following, Still, wvars
<1>14. Scanning'
  <2>1. ASSUME NEW v \in Workers, pc[v] = "follow"
        PROVE  Ahead(v, 1)' # {}
    <3>1. group[gp[v]].data \in StoreIds
      BY <2>1, PlaceFacts DEF IInv, Using
    <3>2. PICK k \in Keys : k > cur[v].pos[1] /\ store[group[gp[v]].data][k].st # "none"
      BY <2>1 DEF IInv, Scanning, Ahead, Levels
    <3>3. store'[group[gp[v]].data][k].st # "none"
      BY <1>5, <3>1, <3>2 DEF StoreStep
    <3> QED
      BY <1>2, <3>2, <3>3 DEF Ahead, Levels, Still, wvars
  <2> QED
    BY <1>2, <2>1 DEF IInv, Scanning, Still, wvars
<1> QED
  BY <1>7, <1>8, <1>9, <1>10, <1>11, <1>12, <1>13, <1>14 DEF IInv

\* The job is over: its old and intermediate groups are deleted, and the levels F, which
\* no group of the index has, are freed.
Ends(F) ==
  /\ bpc \in {"settle", "discard"} /\ wait = {} /\ UNCHANGED <<wait, dir, todo, refs>>
  /\ bpc' = "rest" /\ job' = NoJob /\ galloc' = galloc \ (Old \cup Mid)
  /\ group' = [g \in GroupIds |-> IF g \in Old \cup Mid THEN NoGroup ELSE group[g]]
  /\ salloc' = salloc \ F
  /\ store' = [s \in StoreIds |-> IF s \in F THEN Empty ELSE store[s]]
  /\ \A g \in Holders : Stores(g) \cap F = {}

\* Ending a job in this way preserves the invariant.
LEMMA EndKeeps ==
  ASSUME IInv, Still, NEW F, Ends(F)
  PROVE  IInv'
<1> USE DEF Ends
<1>0. Typed /\ TypedIndex /\ TypedStore /\ plan' = plan /\ Holders \subseteq GroupIds
  BY DEF IInv, Typed, Still, Holders, TypedIndex
<1>1. /\ Holders' = Holders /\ Holders \cap (Old \cup Mid) = {}
      /\ Holders \subseteq galloc'
  BY DEF Holders, IInv, Retired, InMemory
<1>2. /\ job' \in Jobs /\ job'.kind = "none"
      /\ Len(job'.old) = 0 /\ Len(job'.mid) = 0 /\ Len(job'.new) = 0
      /\ Old' = {} /\ Mid' = {} /\ New' = {}
  <2> DEFINE e == <<>>
  <2>1. job' = [kind |-> "none", old |-> e, mid |-> e, new |-> e]
    BY DEF NoJob
  <2>2. e \in Seq(GroupIds) /\ Len(e) = 0 /\ Elements(e) = {}
    BY DEF Elements
  <2> HIDE DEF e
  <2>3. /\ job' \in Jobs /\ job'.kind = "none" /\ job'.old = e /\ job'.mid = e /\ job'.new = e
        /\ Old' = Elements(e) /\ Mid' = Elements(e) /\ New' = Elements(e)
    BY <2>1, <2>2, NewJob
  <2> QED
    BY <2>2, <2>3
<1>3. JobGroups' = {} /\ NewData' = {}
  BY <1>2 DEF JobGroups, NewData
<1>4. \A g \in Holders : group'[g] = group[g] /\ Stores(g)' = Stores(g)
  BY <1>0, <1>1 DEF Stores
<1>5. \A g \in Holders : /\ group[g].data \in salloc' /\ group[g].buffer \in salloc'
                         /\ group[g].temp \in salloc' \cup {Null}
                         /\ store'[group[g].data] = store[group[g].data]
  <2> SUFFICES ASSUME NEW g \in Holders
               PROVE  <1>5!(g)
    OBVIOUS
  <2>1. /\ group[g].data \in salloc /\ group[g].buffer \in salloc
        /\ group[g].temp \in salloc \cup {Null} /\ salloc \subseteq StoreIds
    BY <1>0 DEF IInv, InMemory, TypedIndex
  <2>2. Null \notin salloc
    BY <2>1, ConstantFacts
  <2> QED
    BY <2>1, <2>2 DEF Stores
<1>6. TypedWorkers' /\ Putting' /\ cur' \in [Workers -> Cursor] /\ Using' = Using
  BY StillKeeps DEF IInv
<1>7. TypedStore'
  BY <1>0, RecordFacts DEF TypedStore, Empty
<1>8. TypedIndex'
  <2>1. NoGroup \in GroupRecord
    BY DEF NoGroup, GroupRecord
  <2>2. group' \in [GroupIds -> GroupRecord]
    BY <1>0, <2>1 DEF TypedIndex, GroupRecord
  <2> QED
    BY <1>0, <2>2 DEF TypedIndex, GroupRecord
<1>9. Shape' /\ Retired'
  BY <1>2 DEF Shape, Retired, Replacing
<1>10. InMemory' /\ Arrays'
  BY <1>1, <1>3, <1>4, <1>5 DEF InMemory, Arrays
<1>11. Apart'
  <2> SUFFICES ASSUME NEW g \in Holders, NEW h \in Holders, g # h
               PROVE  Stores(g) \cap Stores(h) = {}
    BY <1>1, <1>3, <1>4 DEF Apart, Active
  <2>1. CASE g \notin JobGroups \/ h \notin JobGroups
    BY <2>1 DEF IInv, Apart, Active
  <2>2. CASE g \in JobGroups /\ h \in JobGroups
    <3>1. g \in New /\ h \in New
      BY <1>1, <2>2 DEF JobGroups
    <3>2. bpc \in Replacing
      BY <3>1, JobFacts DEF IInv
    <3> QED
      BY <3>1, <3>2 DEF IInv, Handed
  <2> QED
    BY <2>1, <2>2
<1>12. Handed' /\ Space' /\ Collected'
  BY DEF IInv, Handed, Space, Collected, Replacing
<1>13. Pointers'
  <2>1. \A s \in StoreIds, k \in Keys : store[s][k].st # "ptr"
    BY DEF IInv, Pointers
  <2>2. \A s \in StoreIds, k \in Keys : store'[s][k].st # "ptr"
    BY <2>1, RecordFacts DEF Empty
  <2> QED
    BY <2>2 DEF Pointers
<1>14. \A w \in Using : gp[w] \in Holders
  BY DEF IInv, Placed
<1>15. \A w \in Workers : pc[w] \notin {"deref", "follow"}
  BY DEF IInv, Following
<1>16. Placed' /\ Following'
  BY <1>1, <1>6, <1>14, <1>15 DEF Placed, Following, Still, wvars
<1>17. Scanning'
  <2>1. \A w \in Workers : pc[w] = "fetch" => group'[gp[w]] = group[gp[w]]
    BY <1>4, <1>14 DEF Using
  <2> QED
    BY <1>15, <2>1 DEF IInv, Scanning, Still, wvars
<1> QED
  BY <1>0, <1>6, <1>7, <1>8, <1>9, <1>10, <1>11, <1>12, <1>13, <1>16, <1>17
     DEF IInv, Typed

\* free_data, free_buffer and delete behind the last barrier: by Apart and Handed the old
\* levels belong to no group of the index.
LEMMA FreeStep ==
  ASSUME IInv, Still, Free
  PROVE  IInv'
<1>1. \A g \in Holders : Stores(g) \cap Sources = {}
  <2> SUFFICES ASSUME NEW g \in Holders
               PROVE  Stores(g) \cap Sources = {}
    OBVIOUS
  <2>0. bpc = "settle" /\ bpc \in Replacing /\ g \notin Old \cup Mid
    BY DEF Free, Replacing, IInv, Retired
  <2>1. CASE g \in New
    BY <2>0, <2>1 DEF IInv, Handed
  <2>2. CASE g \notin New
    <3>1. \A h \in Old : Stores(g) \cap Stores(h) = {}
      BY <2>0, <2>2 DEF IInv, Apart, Active, JobGroups
    <3>2. Sources = {group[h].data : h \in Old} \cup {group[h].buffer : h \in Old}
      BY SourceFacts DEF IInv
    <3>3. Null \notin Stores(g)
      BY DEF Stores
    <3>4. \A h \in Old : group[h].data \notin Stores(g) /\ group[h].buffer \notin Stores(g)
      BY <3>1, <3>3 DEF Stores
    <3> QED
      BY <3>2, <3>4
  <2> QED
    BY <2>1, <2>2
<1>2. Ends(Sources)
  BY <1>1 DEF Free, Delete, Ends, Old, Mid, Elements
<1> QED
  BY <1>2, EndKeeps

\* A model change frees no level.
LEMMA EndModelStep ==
  ASSUME IInv, Still, EndModel
  PROVE  IInv'
<1>1. job.kind = "model"
  BY DEF EndModel, IInv, Shape
<1>2. Old = {job.old[1]} /\ Mid = {}
  BY <1>1, JobFacts DEF IInv
<1>3. store' = [s \in StoreIds |-> IF s \in {} THEN Empty ELSE store[s]]
  BY DEF EndModel, IInv, Typed, TypedStore
<1>4. Ends({})
  BY <1>2, <1>3 DEF EndModel, Delete, Ends
<1> QED
  BY <1>4, EndKeeps

-----------------------------------------------------------------------------
(* The theorems.                                                            *)

\* The loaded index: groups 1 and 2 with a level each for array and buffer.
LEMMA InitInv ==
  ASSUME Init
  PROVE  IInv /\ Seen
<1>1. /\ plan \in Scenarios /\ plan.slot0 \in [Keys -> {1, 2}]
      /\ {1, 2} \subseteq GroupIds /\ {1, 2, 3, 4} \subseteq StoreIds
  BY GroupAssumption, ZenonT(40) DEF Init
<1>2. /\ galloc \subseteq {1, 2} /\ Holders = galloc /\ galloc \subseteq GroupIds
      /\ salloc = galloc \cup {g + 2 : g \in galloc} /\ salloc \subseteq StoreIds
  <2>0. dir = plan.slot0 /\ galloc = {plan.slot0[k] : k \in Keys}
    BY DEF Init
  <2>1. Holders = galloc /\ galloc \subseteq {1, 2}
    BY <1>1, <2>0 DEF Holders
  <2>2. salloc = galloc \cup {g + 2 : g \in galloc}
    BY DEF Init
  <2>3. \A g \in galloc : g + 2 \in {3, 4}
    BY <2>1
  <2> QED
    BY <1>1, <2>1, <2>2, <2>3
<1>3. /\ \A g \in galloc : /\ group[g].data = g /\ group[g].buffer = g + 2
                           /\ group[g].temp = Null
      /\ group \in [GroupIds -> GroupRecord]
  <2>1. NoGroup \in GroupRecord
    BY DEF NoGroup, GroupRecord
  <2>2. \A g \in galloc : g \in StoreIds /\ g + 2 \in StoreIds
    BY <1>2
  <2> DEFINE f(g) == [NoGroup EXCEPT !.data = g, !.buffer = g + 2]
  <2>3. \A g \in galloc : /\ f(g) \in GroupRecord /\ f(g).data = g /\ f(g).buffer = g + 2
                          /\ f(g).temp = Null
    BY <2>2 DEF NoGroup, GroupRecord
  <2>4. group = [g \in GroupIds |-> IF g \in galloc THEN f(g) ELSE NoGroup]
    BY DEF Init
  <2> HIDE DEF f
  <2> QED
    BY <1>2, <2>1, <2>3, <2>4
<1>4. /\ job = NoJob /\ bpc = "rest" /\ todo = {} /\ refs = {} /\ wait = {}
      /\ pc = [w \in Workers |-> "idle"] /\ Using = {}
  BY DEF Init, Using
<1>5. /\ job \in Jobs /\ job.kind = "none"
      /\ Len(job.old) = 0 /\ Len(job.mid) = 0 /\ Len(job.new) = 0
      /\ Old = {} /\ Mid = {} /\ New = {}
  <2> DEFINE e == <<>>
  <2>1. job = [kind |-> "none", old |-> e, mid |-> e, new |-> e]
    BY <1>4 DEF NoJob
  <2>2. e \in Seq(GroupIds) /\ Len(e) = 0 /\ Elements(e) = {}
    BY DEF Elements
  <2> HIDE DEF e
  <2>3. /\ job \in Jobs /\ job.kind = "none" /\ job.old = e /\ job.mid = e /\ job.new = e
    BY <2>1, <2>2 DEF Jobs
  <2> QED
    BY <2>2, <2>3 DEF Old, Mid, New
<1>6. JobGroups = {} /\ NewData = {} /\ Active = Holders
  BY <1>4, <1>5 DEF JobGroups, NewData, Active
<1>7. TypedStore /\ \A s \in StoreIds, k \in Keys : store[s][k].st # "ptr"
  <2>1. PICK loaded \in [Keys -> Vals \cup {Absent}] :
          store = [s \in StoreIds |-> [k \in Keys |->
                     IF s = plan.slot0[k] /\ loaded[k] # Absent
                     THEN Live(loaded[k]) ELSE None]]
    BY DEF Init
  <2> DEFINE r(s, k) == IF s = plan.slot0[k] /\ loaded[k] # Absent
                        THEN Live(loaded[k]) ELSE None
  <2>2. \A s \in StoreIds, k \in Keys : r(s, k) \in Record /\ r(s, k).st # "ptr"
    BY <2>1, RecordFacts
  <2>3. store = [s \in StoreIds |-> [k \in Keys |-> r(s, k)]]
    BY <2>1
  <2> HIDE DEF r
  <2> QED
    BY <2>2, <2>3 DEF TypedStore
<1>8. TypedWorkers /\ Putting
  BY DEF Init, TypedWorkers, Putting, Places, Map!Quiet, Map!NoCall
<1>9. cur \in [Workers -> Cursor]
  BY ScanFacts DEF Init
<1>10. TypedIndex
  <2>1. dir = plan.slot0
    BY DEF Init
  <2>2. dir \in [Keys -> GroupIds]
    BY <1>1, <2>1
  <2> QED
    BY <1>1, <1>2, <1>3, <1>4, <2>2 DEF TypedIndex, GroupRecord
<1>11. Shape /\ Retired
  BY <1>4, <1>5 DEF Shape, Retired, Replacing
<1>12. InMemory /\ Arrays
  BY <1>2, <1>3, <1>6 DEF InMemory, Arrays
<1>13. Apart
  <2>1. \A g, h \in galloc : g # h => {g, g + 2} \cap {h, h + 2} = {}
    BY <1>2
  <2>2. \A g \in galloc : Stores(g) \subseteq {g, g + 2}
    BY <1>3 DEF Stores
  <2> QED
    BY <1>2, <1>6, <2>1, <2>2 DEF Apart
<1>14. Handed /\ Space /\ Collected /\ Pointers
  BY <1>4, <1>7 DEF Handed, Space, Collected, Pointers, Replacing
<1>15. Placed /\ Following /\ Scanning
  BY <1>4 DEF Placed, Following, Scanning
<1>16. Seen
  BY DEF Init, Seen
<1> QED
  BY <1>7, <1>8, <1>9, <1>10, <1>11, <1>12, <1>13, <1>14, <1>15, <1>16 DEF IInv, Typed

\* Every step preserves the invariant.
LEMMA StepInv ==
  ASSUME IInv, [Next]_vars
  PROVE  IInv'
<1>1. CASE \E w \in Workers : Begin(w) \/ Continue(w)
  <2>1. PICK w \in Workers : Begin(w) \/ Continue(w)
    BY <1>1
  <2>2. WorkerStep(w)
    BY <2>1, CallSteps, ScanSteps DEF Continue
  <2> QED
    BY <2>2, WorkersKeep
<1>2. CASE BeginRound
  <2>1. Still
    BY <1>2, BackgroundStill DEF IInv
  <2> QED
    BY <1>2, <2>1, BeginSteps, BeginSplitStep, BeginModelStep DEF BeginRound
<1>3. CASE ContinueRound
  <2>1. Still
    BY <1>3, BackgroundStill DEF IInv
  <2> QED
    BY <1>3, <2>1, FramedSteps, NewTempStep, ShareTempStep, MakeGroupStep, MakeGroupsStep,
       PublishStep, ReplacePointerStep, FreeStep, EndModelStep DEF ContinueRound
<1>4. CASE UNCHANGED vars
  <2>1. Framed /\ UNCHANGED <<plan, wvars, cur, bvars, ret, store, wait>>
    BY <1>4 DEF vars, Framed, bvars
  <2>2. /\ Holders' = Holders /\ Old' = Old /\ Mid' = Mid /\ New' = New
        /\ JobGroups' = JobGroups /\ Sources' = Sources /\ NewData' = NewData
        /\ Active' = Active /\ Using' = Using
        /\ \A g : Stores(g)' = Stores(g)
    BY <2>1
       DEF bvars, wvars, Holders, Old, Mid, New, JobGroups, Sources, SourcesOf, NewData,
       Active, Using, Stores
  <2>3. Typed'
    BY <2>1 DEF IInv, Typed, TypedWorkers, TypedStore, TypedIndex, wvars, bvars
  <2>4. Shape' /\ InMemory' /\ Retired' /\ Apart' /\ Arrays'
    BY <2>1, <2>2 DEF IInv, Shape, InMemory, Retired, Apart, Arrays, bvars
  <2>5. Handed' /\ Space' /\ Collected'
    BY <2>1, <2>2 DEF IInv, Handed, Space, Room, Collected, bvars
  <2>6. Pointers' /\ Placed' /\ Following' /\ Putting'
    BY <2>1, <2>2 DEF IInv, Pointers, Placed, Following, Putting, bvars, wvars
  <2>7. Scanning'
    BY <2>1 DEF IInv, Scanning, Ahead, Levels, bvars, wvars
  <2> QED
    BY <2>3, <2>4, <2>5, <2>6, <2>7 DEF IInv
<1> QED
  BY <1>1, <1>2, <1>3, <1>4 DEF Next

\* The inductive invariant holds whatever the workers call and in whatever order the
\* background thread compacts, merges and splits groups (xindex_root_impl.h:364-492).
THEOREM GroupInvariant == Spec => []IInv
<1>1. Init => IInv
  BY InitInv
<1>2. IInv /\ [Next]_vars => IInv'
  BY StepInv
<1> QED
  BY <1>1, <1>2, PTL DEF Spec

\* A live record holds a value, directly or through a pointer.
LEMMA LiveValue ==
  ASSUME IInv, NEW s \in StoreIds \cup {Null}, NEW k \in Keys, IsLive(s, k)
  PROVE  ValueAt(s, k) \in Vals
<1>1. s \in StoreIds /\ Target(s, k) \in StoreIds
  BY TargetFacts DEF IsLive, IInv
<1>2. store[Target(s, k)][k] \in Record
  BY <1>1 DEF IInv, Typed, TypedStore
<1> QED
  BY <1>2, LiveRecord DEF IsLive, ValueAt

\* A get finds a value or nothing.
LEMMA LookupTyped == IInv => \A k \in Keys : Lookup(k) \in Vals \cup {Absent}
<1> SUFFICES ASSUME IInv, NEW k \in Keys
             PROVE  Lookup(k) \in Vals \cup {Absent}
  OBVIOUS
<1>1. dir[k] \in GroupIds
  BY DEF IInv, Typed, TypedIndex
<1>2. /\ group[dir[k]].data \in StoreIds \cup {Null}
      /\ group[dir[k]].buffer \in StoreIds \cup {Null}
      /\ group[dir[k]].temp \in StoreIds \cup {Null}
  BY <1>1 DEF IInv, Typed, TypedIndex
<1> QED
  BY <1>2, LiveValue DEF Lookup

\* What calls may return stays so.
LEMMA SeenKept ==
  ASSUME IInv, IInv', Seen, [Next]_vars,
         \A k \in Keys : Lookup(k)' \in Vals \cup {Absent}
  PROVE  Seen'
<1> DEFINE m == [k \in Keys |-> Lookup(k)']
<1>1. CASE UNCHANGED vars
  BY <1>1 DEF vars, wvars, Seen
<1>2. CASE Next
  <2>1. Map!Observe(m)
    <3>1. CASE \E w \in Workers : Begin(w) \/ Continue(w)
      BY ZenonT(40), <3>1
         DEF Begin, Continue, Locate, GetArray, GetDeref, GetBuffer, GetTemp, GetLevel,
         PutArray, PutWhich, PutFrozen, PutUpdate, PutInsert, ChangeLevel, RemoveArray,
         RemoveBuffer, RemoveTemp, ScanOpen, ScanFetch, ScanFollow, ScanExhaust, ScanMerge,
         ScanEnd, Watch, Noticed
    <3>2. CASE BeginRound
      BY <3>2 DEF BeginRound, BeginCompact, BeginMerge, BeginSplit, BeginModel, Unnoticed,
         Watch, Noticed
    <3>3. CASE ContinueRound
      BY <3>3 DEF ContinueRound, Freeze, NewTemp, ShareTemp, SplitDrained, CollectRef,
         MakeGroup, MakeGroups, Publish, BeginReplace, ReplacePointer, EndReplace, Free,
         EndModel, Unnoticed, Watch, Noticed
    <3> QED
      BY <1>2, <3>1, <3>2, <3>3 DEF Next
  <2> SUFFICES ASSUME NEW w \in Workers, call'[w].op # "scan"
               PROVE  seen'[w] \subseteq Vals \cup {Absent}
    BY DEF Seen
  <2>2. call'[w] \in Map!Calls \cup {Map!NoCall}
    BY DEF IInv, Typed, TypedWorkers
  <2>3. Map!Now(call'[w], m) \subseteq Vals \cup {Absent}
    <3>1. CASE call'[w].op \in {"get", "remove", "update"}
      <4>1. call'[w].key \in Keys
        BY <2>2, <3>1, CallFacts
      <4> QED
        BY <3>1, <4>1 DEF Map!Now
    <3>2. CASE call'[w].op \notin {"get", "remove", "update"}
      BY <3>2 DEF Map!Now
    <3> QED
      BY <3>1, <3>2
  <2> HIDE DEF m
  <2>4. seen'[w] = (IF call'[w] = call[w] THEN seen[w] ELSE {}) \cup Map!Now(call'[w], m)
    BY <2>1 DEF Map!Observe
  <2> QED
    BY <2>3, <2>4 DEF Seen
<1> QED
  BY <1>1, <1>2

\* Types: what get, put, remove and scan read, write and return, and what maintenance
\* keeps of a job, has its type in every reachable state.
THEOREM GroupTyped == Spec => []TypeOK
<1>1. Init => Seen
  BY InitInv
<1>2. Seen /\ IInv /\ IInv' /\ (\A k \in Keys : Lookup(k) \in Vals \cup {Absent})' /\ [Next]_vars
        => Seen'
  BY SeenKept
<1>3. IInv /\ Seen => TypeOK
  BY DEF IInv, Typed, TypedWorkers, TypedStore, TypedIndex, Cursor, Seen, Places, TypeOK
<1> QED
  BY <1>1, <1>2, <1>3, LookupTyped, GroupInvariant, PTL DEF Spec

\* Everything reachable from a group of the index or of the job is allocated.
LEMMA ReachInMemory ==
  ASSUME IInv, NEW g \in Holders \cup JobGroups
  PROVE  g \in galloc /\ Reach(g) \subseteq salloc
<1>1. g \in galloc /\ {Levels(g)[l] : l \in 1..3} \ {Null} \subseteq salloc
  BY DEF IInv, InMemory, Levels
<1>2. salloc \subseteq StoreIds /\ Sources \subseteq salloc
  BY SourceFacts DEF IInv, Typed, TypedIndex
<1>3. \A s \in salloc, k \in Keys : Target(s, k) \in salloc
  BY <1>2, TargetFacts DEF IInv
<1> DEFINE S == {Levels(g)[l] : l \in 1..3} \ {Null}
<1>4. Reach(g) = S \cup {Target(d, k) : d \in S, k \in Keys}
  BY DEF Reach
<1> HIDE DEF S
<1>5. S \subseteq salloc
  BY <1>1 DEF S
<1> QED
  BY <1>1, <1>3, <1>4, <1>5

\* No get, put, remove or scan reaches a group, an array, a buffer or a record behind a
\* pointer that the background thread has freed: the barriers of do_adjustment
\* (xindex_root_impl.h:418-492) are in the right places for any number of workers.
THEOREM NothingDangles == Spec => []NoDangling
<1>1. IInv => NoDangling
  <2> SUFFICES ASSUME IInv
               PROVE  NoDangling
    OBVIOUS
  <2>1. \A w \in Using : gp[w] \in Holders \cup JobGroups
    BY PlaceFacts DEF IInv
  <2>2. \A w \in Workers : pc[w] \in {"deref", "follow"} => ref[w] \in salloc
    BY SourceFacts DEF IInv, Following
  <2> QED
    BY <2>1, <2>2, ReachInMemory DEF NoDangling
<1> QED
  BY <1>1, GroupInvariant, PTL
=============================================================================
