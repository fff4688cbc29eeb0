----------------------------- MODULE XIndexRoot -----------------------------
(***************************************************************************)
(* The root of XIndex and its background threads (competitors/xindex,      *)
(* xindex_root_impl.h and xindex_impl.h).                                  *)
(*                                                                         *)
(* The root is an array of slots, each with a pivot key and a group; a     *)
(* group may be followed by a chain of groups.  A model guesses the slot   *)
(* of a key, a search corrects the guess.  A master thread starts rounds;  *)
(* in a round every adjuster thread goes through its share of the slots    *)
(* and replaces, splits and merges groups.  A split leaves a chain and a   *)
(* merge an empty slot; after the round the master flattens both into a    *)
(* new root.  Workers go through root, slots and chains meanwhile, without *)
(* locks: what they may still hold is freed behind rcu_barrier.            *)
(*                                                                         *)
(* What a group stores is the set of keys its array holds and the set of   *)
(* keys it is responsible for; records are the subject of XIndexGroup.     *)
(***************************************************************************)
EXTENDS Searches, FiniteSets, SequencesExt

CONSTANTS
  Workers,
  Keys,        \* a finite set of integers
  BgNum,       \* number of adjusters, bg_num
  Pool,        \* bound: groups that one thread has in memory at a time
  RootIds,     \* bound: roots in memory at a time
  Scenarios    \* groups loaded, maintenance that may happen, calls, search

VARIABLES
  plan,                        \* the scenario
  wk,                          \* every worker: place, call, what it holds
  root, roots, ralloc,         \* XIndex::root, the roots in memory
  group, galloc,               \* the groups in memory
  models,                      \* roots whose array rmi_2nd_stage is allocated
  adj,                         \* every adjuster: place, slot, group, job
  started, finished, update,   \* the flags of BGInfo
  running, bg_running,         \* BGInfo::running, XIndex::bg_running
  mpc, new_root,               \* the master
  wait                         \* workers that each thread's barrier waits for

heap == <<root, roots, ralloc, group, galloc, models>>
flags == <<started, finished, update, running, bg_running>>
vars == <<plan, wk, heap, adj, flags, mpc, new_root, wait>>

Null == 0
Bg == 0..(BgNum - 1)
GroupIds == 1..((BgNum + 1) * Pool)
PoolOf(t) == (t * Pool + 1)..((t + 1) * Pool)

ASSUME RootAssumption ==
  /\ BgNum \in Nat \ {0} /\ Pool \in Nat \ {0}
  /\ Keys \subseteq Nat \ {0} /\ IsFiniteSet(Keys)
  /\ RootIds \subseteq Nat \ {Null} /\ 1 \in RootIds /\ RootIds # {1}
  /\ \A s \in Scenarios : /\ s.groups \in Seq([pivot : Keys, keys : SUBSET Keys])
                         /\ Len(s.groups) \in 1..Pool /\ s.class \in SearchClasses

Sorted(S) == [n \in 1..Cardinality(S) |->
                CHOOSE x \in S : Cardinality({y \in S : y < x}) = n - 1]

\* array: keys in the array; held: keys in the array and the buffers; span: keys
\* that locate_group leads here; temp: buffer_temp is set.
NoGroup == [pivot |-> 0, next |-> Null, array |-> {}, held |-> {}, span |-> {},
            frozen |-> FALSE, temp |-> FALSE]
NoRoot == [pivots |-> <<>>, slots |-> <<>>]
Asleep == [pc |-> "poll", r |-> Null, i |-> 0, end |-> 0, tried |-> FALSE,
           loc |-> <<"slot", 0>>, nloc |-> <<"slot", 0>>, kind |-> "none",
           old |-> <<>>, mid |-> <<>>, new |-> <<>>]
Idle == [pc |-> "idle", op |-> "none", key |-> 0, end |-> 0, r |-> Null, i |-> 0,
         g |-> Null, latest |-> 0, out |-> <<>>]

WorkerPlaces == {"idle", "root", "predict", "slot", "chain", "use", "next", "scan"}
AdjusterPlaces == {"poll", "slot", "group", "discard", "drain", "publish",
                   "second", "quiesce", "settle", "exit"}

TypeOK ==
  /\ \A w \in Workers :
       /\ wk[w].pc \in WorkerPlaces
       /\ wk[w].r \in RootIds \cup {Null} /\ wk[w].g \in GroupIds \cup {Null}
       /\ wk[w].out \in Seq(Keys)
  /\ root \in RootIds /\ ralloc \subseteq RootIds /\ models \subseteq RootIds
  /\ \A r \in ralloc : /\ roots[r].pivots \in Seq(Keys)
                       /\ roots[r].slots \in Seq(GroupIds \cup {Null})
                       /\ Len(roots[r].slots) = Len(roots[r].pivots)
  /\ galloc \subseteq GroupIds
  /\ \A g \in galloc : /\ group[g].pivot \in Keys
                       /\ group[g].next \in GroupIds \cup {Null}
                       /\ group[g].span \subseteq group[g].held
  /\ \A b \in Bg : adj[b].pc \in AdjusterPlaces
  /\ started \subseteq Bg /\ finished \subseteq Bg /\ update \subseteq Bg
  /\ running \in BOOLEAN /\ bg_running \in BOOLEAN
  /\ mpc \in {"round", "wait", "create", "train", "swap", "trim", "last",
              "join", "exit"}
  /\ wait \in [0..BgNum -> SUBSET Workers]

\* Root::init, Group::init and start_bg.  Keys below the pivot of the first group
\* have been put since and are in its buffer.
Init ==
  /\ plan \in Scenarios
  /\ LET n == Len(plan.groups)
         id(i) == BgNum * Pool + i
     IN  /\ galloc = {id(i) : i \in 1..n}
         /\ group = [g \in GroupIds |-> IF g \notin galloc THEN NoGroup
              ELSE LET l == plan.groups[g - BgNum * Pool]
                   IN  [NoGroup EXCEPT !.pivot = l.pivot, !.held = l.keys,
                          !.span = l.keys,
                          !.array = {k \in l.keys : k >= l.pivot}]]
         /\ roots = [r \in RootIds |-> IF r # 1 THEN NoRoot
              ELSE [pivots |-> [i \in 1..n |-> plan.groups[i].pivot],
                    slots |-> [i \in 1..n |-> id(i)]]]
  /\ root = 1 /\ ralloc = {1} /\ models = {1}
  /\ wk = [w \in Workers |-> Idle]
  /\ adj = [b \in Bg |-> Asleep]
  /\ started = {} /\ finished = {} /\ update = {}
  /\ running = TRUE /\ bg_running = TRUE
  /\ mpc = "round" /\ new_root = Null
  /\ wait = [t \in 0..BgNum |-> {}]

-----------------------------------------------------------------------------
(* Workers.                                                                 *)

Goto(w, l) == wk' = [wk EXCEPT ![w].pc = l]
Shared == UNCHANGED <<plan, heap, adj, flags, mpc, new_root>>

\* Get(k), Put(k) and Scan(k, e) are calls; remove takes the way of get.
Get(k) == [op |-> "get", key |-> k, end |-> k]
Put(k) == [op |-> "put", key |-> k, end |-> k]
Scan(k, e) == [op |-> "scan", key |-> k, end |-> e]

\* rcu_progress.  No call begins once the index is being deleted.
Begin(w) ==
  /\ wk[w].pc = "idle" /\ bg_running
  /\ \E c \in plan.calls :
       wk' = [wk EXCEPT ![w] = [Idle EXCEPT !.pc = "root", !.op = c.op,
                                            !.key = c.key, !.end = c.end]]
  /\ Shared /\ UNCHANGED wait

ReadRoot(w) ==
  /\ wk[w].pc = "root"
  /\ wk' = [wk EXCEPT ![w].pc = "predict", ![w].r = root]
  /\ Shared /\ UNCHANGED wait

\* The slot of the last pivot that is not greater than the key.  The pivot of
\* the first group counts as minus infinity: slot 0 when there is none.
SlotOf(r, key, guess) ==
  LET p == roots[r].pivots
      i == SearchFrom(plan.class, {j \in 0..(Len(p) - 1) : p[j + 1] <= key},
                      Len(p), guess) - 1
  IN  IF i < 0 THEN 0 ELSE i

\* locate_group_pt1 up to the search: predict may guess any slot.
Predict(w) ==
  /\ wk[w].pc = "predict"
  /\ \E guess \in 0..(Len(roots[wk[w].r].slots) - 1) :
       wk' = [wk EXCEPT ![w].pc = "slot",
                        ![w].i = SlotOf(wk[w].r, wk[w].key, guess)]
  /\ Shared /\ UNCHANGED wait

\* The rest of it: back to a slot that is not null.
ReadSlot(w) ==
  LET g == roots[wk[w].r].slots[wk[w].i + 1]
  IN  /\ wk[w].pc = "slot"
      /\ wk' = IF g = Null /\ wk[w].i > 0 THEN [wk EXCEPT ![w].i = @ - 1]
               ELSE [wk EXCEPT ![w].pc = "chain", ![w].g = g]
      /\ Shared /\ UNCHANGED wait

\* Fault: the chain that hangs off the slot is not followed.
NoChain(w) == wk[w].pc = "chain" /\ Goto(w, "use") /\ Shared /\ UNCHANGED wait

\* locate_group_pt2.
Chain(w) ==
  LET next == group[wk[w].g].next
  IN  /\ wk[w].pc = "chain"
      /\ IF next # Null /\ group[next].pivot <= wk[w].key
         THEN wk' = [wk EXCEPT ![w].g = next] ELSE Goto(w, "use")
      /\ Shared /\ UNCHANGED wait

\* The call is over and no longer holds back a barrier.
Return(w) ==
  /\ wk' = [wk EXCEPT ![w] = Idle]
  /\ wait' = [t \in 0..BgNum |-> wait[t] \ {w}]

\* Fault: a put that meets a frozen buffer does not report progress.
RetryInPlace(w) ==
  /\ wk' = [wk EXCEPT ![w].pc = "root", ![w].r = Null, ![w].g = Null]
  /\ UNCHANGED wait

\* result_t::retry in XIndex::put.
Retry(w) ==
  /\ wk' = [wk EXCEPT ![w].pc = "root", ![w].r = Null, ![w].g = Null]
  /\ wait' = [t \in 0..BgNum |-> wait[t] \ {w}]

\* Group::get, put or remove on the group that was found.
Use(w) ==
  LET g == group[wk[w].g]
  IN  /\ wk[w].pc = "use" /\ wk[w].op \in {"get", "put"}
      /\ IF wk[w].op = "put" /\ g.frozen /\ ~g.temp THEN Retry(w) ELSE Return(w)
      /\ Shared

\* Group::range_scan of group g; all keys from the start of its array on when
\* the scan has left the group of its first key behind.
Found(w, g, from) ==
  Sorted({k \in group[g].held : k >= from /\ k <= wk[w].end})

Visit(w, from) ==
  wk' = [wk EXCEPT ![w].pc = "next",
                   ![w].out = @ \o Found(w, wk[w].g, from),
                   ![w].latest = group[wk[w].g].pivot]

\* Root::range_scan: the group of the first key, unconditionally.
FirstVisit(w) ==
  /\ wk[w].pc = "use" /\ wk[w].op = "scan"
  /\ Visit(w, wk[w].key)
  /\ Shared /\ UNCHANGED wait

\* Fault: groups on the array of the previous one are not passed over.
EveryNext(w) ==
  /\ wk[w].pc = "next"
  /\ wk' = [wk EXCEPT ![w].g = group[wk[w].g].next, ![w].pc = "scan"]
  /\ Shared /\ UNCHANGED wait

\* do { prev = group; group = group->next; } while (prev->equal_data(group))
\* Arrays are not empty, so two groups in a row have the same array exactly when
\* it holds the same keys.
ScanNext(w) ==
  LET next == group[wk[w].g].next
  IN  /\ wk[w].pc = "next"
      /\ wk' = [wk EXCEPT ![w].g = next,
                  ![w].pc = IF next # Null /\ group[next].array = group[wk[w].g].array
                            THEN "next" ELSE "scan"]
      /\ Shared /\ UNCHANGED wait

\* The next group of the chain if it is not behind the scan, or else the group
\* of the next slot.  is_begin holds from the first greater pivot on.
ScanGroup(w) ==
  LET g == wk[w].g
      ahead == g # Null /\ group[g].pivot > wk[w].latest
      is_end == ahead /\ group[g].pivot > wk[w].end
      i == wk[w].i + 1
      n == Len(roots[wk[w].r].slots)
  IN  /\ wk[w].pc = "scan"
      /\ \/ /\ ahead /\ ~is_end
            /\ Visit(w, IF group[g].pivot > wk[w].key THEN 0 ELSE wk[w].key)
            /\ UNCHANGED wait
         \/ /\ ~ahead /\ i <= n - 1
            /\ wk' = [wk EXCEPT ![w].i = i, ![w].g = roots[wk[w].r].slots[i + 1]]
            /\ UNCHANGED wait
         \/ /\ is_end \/ (~ahead /\ i > n - 1)
            /\ Return(w)
      /\ Shared

-----------------------------------------------------------------------------
(* Adjusters: do_adjustment.                                                *)

BgFrame == UNCHANGED <<plan, wk, root, ralloc, models, running, bg_running, mpc,
                       new_root>>
Unsignalled == UNCHANGED <<started, finished, update>>

\* Fault: the barrier waits for nobody.
NoBarrier(t) == wait' = [wait EXCEPT ![t] = {}]

\* rcu_barrier of thread t, passed when wait[t] is empty; adjusters are the
\* threads of Bg, the master is thread BgNum.
Barrier(t) == wait' = [wait EXCEPT ![t] = {w \in Workers : wk[w].pc # "idle"}]
Passed(t) == wait[t] = {}

Room(b, n) == Cardinality(PoolOf(b) \ galloc) >= n
Fresh(b, n) == Sorted(PoolOf(b) \ galloc)[n]

\* A pointer to a group is a slot of the adjuster's root or a group's next.
Deref(r, loc) == IF loc[1] = "slot" THEN roots[r].slots[loc[2] + 1]
                                    ELSE group[loc[2]].next
Here(b) == Deref(adj[b].r, adj[b].loc)

\* *loc = g, when the groups are otherwise those of G.
Point(b, loc, g, G) ==
  IF loc[1] = "slot"
  THEN /\ roots' = [roots EXCEPT ![adj[b].r].slots[loc[2] + 1] = g]
       /\ group' = G
  ELSE /\ group' = [G EXCEPT ![loc[2]].next = g]
       /\ UNCHANGED roots

Delete(G) ==
  /\ galloc' = galloc \ G
  /\ group' = [g \in GroupIds |-> IF g \in G THEN NoGroup ELSE group[g]]

RangeBegin(b, n) == (b * n) \div BgNum

RangeEnd(b, n) == IF b = BgNum - 1 THEN n ELSE ((b + 1) * n) \div BgNum

AdjBegin(b) ==
  LET n == Len(roots[root].slots)
  IN  /\ adj[b].pc = "poll" /\ running /\ b \in started
      /\ started' = started \ {b}
      /\ adj' = [adj EXCEPT ![b] = [Asleep EXCEPT !.pc = "slot", !.r = root,
                                      !.i = RangeBegin(b, n), !.end = RangeEnd(b, n)]]
      /\ BgFrame /\ UNCHANGED <<roots, group, galloc, finished, update, wait>>

AdjExit(b) ==
  /\ adj[b].pc = "poll" /\ ~running
  /\ adj' = [adj EXCEPT ![b].pc = "exit"]
  /\ BgFrame /\ Unsignalled /\ UNCHANGED <<roots, group, galloc, wait>>

NextSlot(b) ==
  /\ adj[b].pc = "slot"
  /\ IF adj[b].i < adj[b].end
     THEN /\ adj' = [adj EXCEPT ![b].pc = "group", ![b].tried = FALSE,
                                ![b].loc = <<"slot", adj[b].i>>]
          /\ UNCHANGED finished
     ELSE adj' = [adj EXCEPT ![b] = Asleep] /\ finished' = finished \cup {b}
  /\ BgFrame /\ UNCHANGED <<roots, group, galloc, started, update, wait>>

\* The pointer group is local to the visit of a slot.
EndChain(b) ==
  /\ adj[b].pc = "group" /\ Here(b) = Null
  /\ adj' = [adj EXCEPT ![b].pc = "slot", ![b].i = @ + 1, ![b].loc = <<"slot", 0>>]
  /\ BgFrame /\ Unsignalled /\ UNCHANGED <<roots, group, galloc, wait>>

\* The adjuster after it is done with the group that loc leads to.
Onward(b, g) == [adj[b] EXCEPT !.pc = "group", !.loc = <<"next", g>>,
                   !.tried = FALSE, !.kind = "none", !.nloc = <<"slot", 0>>,
                   !.old = <<>>, !.mid = <<>>, !.new = <<>>]

AtGroup(b) == adj[b].pc = "group" /\ Here(b) # Null

\* Neither errors nor sizes call for anything.
Skip(b) ==
  /\ AtGroup(b)
  /\ adj' = [adj EXCEPT ![b] = Onward(b, Here(b))]
  /\ BgFrame /\ Unsignalled /\ UNCHANGED <<roots, group, galloc, wait>>

\* split_model or merge_model, at most once on a visit.
BeginModel(b) ==
  LET g == Here(b)
      c == Fresh(b, 1)
  IN  /\ AtGroup(b) /\ "model" \in plan.kinds /\ ~adj[b].tried /\ Room(b, 1)
      /\ Point(b, adj[b].loc, c,
               [group EXCEPT ![c] = [group[g] EXCEPT !.frozen = FALSE]])
      /\ galloc' = galloc \cup {c}
      /\ adj' = [adj EXCEPT ![b].pc = "discard", ![b].old = <<g>>,
                            ![b].tried = TRUE]
      /\ Barrier(b)
      /\ BgFrame /\ Unsignalled

EndModel(b) ==
  /\ adj[b].pc = "discard" /\ Passed(b)
  /\ Delete({adj[b].old[1]})
  /\ adj' = [adj EXCEPT ![b].pc = "group", ![b].old = <<>>]
  /\ BgFrame /\ Unsignalled /\ UNCHANGED <<roots, wait>>

\* compact_phase_1 up to its barrier.
BeginCompact(b) ==
  /\ AtGroup(b) /\ "compact" \in plan.kinds /\ Room(b, 1)
  /\ group' = [group EXCEPT ![Here(b)].frozen = TRUE]
  /\ adj' = [adj EXCEPT ![b].pc = "drain", ![b].kind = "compact",
                        ![b].old = <<Here(b)>>]
  /\ Barrier(b)
  /\ BgFrame /\ Unsignalled /\ UNCHANGED <<roots, galloc>>

\* Fault: the next slot may belong to the next adjuster.
MergePastRange(b) ==
  LET slots == roots[adj[b].r].slots
      i == adj[b].i
  IN  IF group[Here(b)].next # Null THEN {<<"next", Here(b)>>}
      ELSE IF i # Len(slots) - 1 /\ slots[i + 2] # Null THEN {<<"slot", i + 1>>}
      ELSE {}

\* next_group: where the group to merge with hangs, if there is one.
MergeWith(b) ==
  LET slots == roots[adj[b].r].slots
      i == adj[b].i
  IN  IF group[Here(b)].next # Null THEN {<<"next", Here(b)>>}
      ELSE IF i # adj[b].end - 1 /\ slots[i + 2] # Null THEN {<<"slot", i + 1>>}
      ELSE {}

\* merge_group up to its barrier.
BeginMerge(b) ==
  /\ AtGroup(b) /\ "merge" \in plan.kinds /\ Room(b, 1)
  /\ \E nl \in MergeWith(b) :
       LET g == Here(b)
           h == Deref(adj[b].r, nl)
       IN  /\ group' = [group EXCEPT ![g].frozen = TRUE, ![h].frozen = TRUE]
           /\ adj' = [adj EXCEPT ![b].pc = "drain", ![b].kind = "merge",
                                 ![b].old = <<g, h>>, ![b].nloc = nl]
  /\ Barrier(b)
  /\ BgFrame /\ Unsignalled /\ UNCHANGED <<roots, galloc>>

\* split_group_pt1: the pivot of the second part is the median of the array.
\* Two records at least are supposed: with one, the first part may be empty.
Median(g) == LET a == Sorted(group[g].array) IN a[Len(a) \div 2 + 1]

BeginSplit(b) ==
  LET g == Here(b)
      p == Median(g)
      m == <<Fresh(b, 1), Fresh(b, 2)>>
      mid == [group[g] EXCEPT !.frozen = TRUE, !.temp = TRUE]
  IN  /\ AtGroup(b) /\ "split" \in plan.kinds /\ Room(b, 4)
      /\ Cardinality(group[g].array) > 1
      /\ Point(b, adj[b].loc, m[1],
               [group EXCEPT ![m[1]] = [mid EXCEPT !.next = m[2],
                                          !.span = {k \in @ : k < p}],
                             ![m[2]] = [mid EXCEPT !.pivot = p,
                                          !.span = {k \in @ : k >= p}]])
      /\ galloc' = galloc \cup {m[1], m[2]}
      /\ adj' = [adj EXCEPT ![b].pc = "drain", ![b].kind = "split",
                            ![b].old = <<g>>, ![b].mid = m]
      /\ Barrier(b)
      /\ BgFrame /\ Unsignalled

\* Fault: the keys of the buffer are left out of the new array.
MadeOfArray(g, K, next) == [NoGroup EXCEPT !.pivot = group[g].pivot,
  !.next = next, !.array = K \cap group[g].array,
  !.held = K \cap group[g].array, !.span = K]

\* A new group with the pivot of group g and an array of the keys in K.
Made(g, K, next) == [NoGroup EXCEPT !.pivot = group[g].pivot, !.next = next,
                                    !.array = K, !.held = K, !.span = K]

\* The rest of compact_phase_1 and merge_group, and split_group_pt2.
Drain(b) ==
  LET a == adj[b]
      n == <<Fresh(b, 1), Fresh(b, 2)>>
  IN  /\ a.pc = "drain" /\ Passed(b)
      /\ \/ /\ a.kind = "compact"
            /\ group' = [group EXCEPT ![a.old[1]].temp = TRUE,
                 ![n[1]] = Made(a.old[1], group[a.old[1]].held,
                                group[a.old[1]].next)]
            /\ galloc' = galloc \cup {n[1]}
            /\ adj' = [adj EXCEPT ![b].pc = "publish", ![b].new = <<n[1]>>]
         \/ /\ a.kind = "merge"
            /\ group' = [group EXCEPT ![a.old[1]].temp = TRUE,
                 ![a.old[2]].temp = TRUE,
                 ![n[1]] = Made(a.old[1],
                                group[a.old[1]].held \cup group[a.old[2]].held,
                                group[a.old[2]].next)]
            /\ galloc' = galloc \cup {n[1]}
            /\ adj' = [adj EXCEPT ![b].pc = "publish", ![b].new = <<n[1]>>]
         \/ /\ a.kind = "split"
            /\ group' = [group EXCEPT
                 ![n[1]] = Made(a.mid[1], group[a.mid[1]].span, n[2]),
                 ![n[2]] = Made(a.mid[2], group[a.mid[2]].span,
                                group[a.mid[2]].next)]
            /\ galloc' = galloc \cup {n[1], n[2]}
            /\ adj' = [adj EXCEPT ![b].pc = "publish", ![b].new = n]
      /\ BgFrame /\ Unsignalled /\ UNCHANGED <<roots, wait>>

\* *group = new_group.
Publish(b) ==
  /\ adj[b].pc = "publish"
  /\ Point(b, adj[b].loc, adj[b].new[1], group)
  /\ IF adj[b].kind = "merge"
     THEN adj' = [adj EXCEPT ![b].pc = "second"] /\ UNCHANGED wait
     ELSE adj' = [adj EXCEPT ![b].pc = "quiesce"] /\ Barrier(b)
  /\ BgFrame /\ Unsignalled /\ UNCHANGED galloc

\* *next_group = new_group, after a merge.
PublishSecond(b) ==
  /\ adj[b].pc = "second"
  /\ Point(b, adj[b].nloc, adj[b].new[1], group)
  /\ adj' = [adj EXCEPT ![b].pc = "quiesce"]
  /\ Barrier(b)
  /\ BgFrame /\ Unsignalled /\ UNCHANGED galloc

\* Fault: the slot or chain of the second group still leads to the new group.
QuiesceKeepsNext(b) ==
  /\ adj[b].pc = "quiesce" /\ Passed(b)
  /\ adj' = [adj EXCEPT ![b].pc = "settle"]
  /\ Barrier(b)
  /\ BgFrame /\ Unsignalled /\ UNCHANGED <<roots, group, galloc>>

\* compact_phase_2 and, after a merge, *next_group = nullptr.
Quiesce(b) ==
  /\ adj[b].pc = "quiesce" /\ Passed(b)
  /\ IF adj[b].kind = "merge" THEN Point(b, adj[b].nloc, Null, group)
                              ELSE UNCHANGED <<roots, group>>
  /\ adj' = [adj EXCEPT ![b].pc = "settle"]
  /\ Barrier(b)
  /\ BgFrame /\ Unsignalled /\ UNCHANGED galloc

\* The old groups are deleted.  After a split the second part is passed over.
Settle(b) ==
  LET a == adj[b]
  IN  /\ a.pc = "settle" /\ Passed(b)
      /\ Delete(Range(a.old) \cup Range(a.mid))
      /\ adj' = [adj EXCEPT ![b] = Onward(b, a.new[Len(a.new)])]
      /\ update' = IF a.kind = "compact" THEN update ELSE update \cup {b}
      /\ BgFrame /\ UNCHANGED <<roots, started, finished, wait>>

AdjStep(b) ==
  \/ AdjBegin(b) \/ AdjExit(b) \/ NextSlot(b) \/ EndChain(b) \/ Skip(b)
  \/ BeginModel(b) \/ EndModel(b) \/ BeginCompact(b) \/ BeginMerge(b)
  \/ BeginSplit(b) \/ Drain(b) \/ Publish(b) \/ PublishSecond(b) \/ Quiesce(b)
  \/ Settle(b)

-----------------------------------------------------------------------------
(* The master: background.                                                  *)

MasterFrame == UNCHANGED <<plan, wk, adj>>

\* Fault: bg_running is not looked at.
StartAlways ==
  /\ mpc = "round"
  /\ started' = Bg
  /\ mpc' = "wait"
  /\ MasterFrame
  /\ UNCHANGED <<heap, finished, update, running, bg_running, new_root, wait>>

StartRound ==
  /\ mpc = "round" /\ bg_running
  /\ started' = Bg
  /\ mpc' = "wait"
  /\ MasterFrame
  /\ UNCHANGED <<heap, finished, update, running, bg_running, new_root, wait>>

StopRounds ==
  /\ mpc = "round" /\ ~bg_running
  /\ running' = FALSE
  /\ mpc' = "join"
  /\ MasterFrame
  /\ UNCHANGED <<heap, started, finished, update, bg_running, new_root, wait>>

\* Fault: finished is not reset.
CollectKeeps ==
  /\ mpc = "wait" /\ finished = Bg
  /\ update' = {}
  /\ IF update # {} THEN mpc' = "create" /\ UNCHANGED wait
                    ELSE mpc' = "last" /\ Barrier(BgNum)
  /\ MasterFrame
  /\ UNCHANGED <<heap, started, finished, running, bg_running, new_root>>

\* All adjusters have finished.
Collect ==
  /\ mpc = "wait" /\ finished = Bg
  /\ finished' = {} /\ update' = {}
  /\ IF update # {} THEN mpc' = "create" /\ UNCHANGED wait
                    ELSE mpc' = "last" /\ Barrier(BgNum)
  /\ MasterFrame
  /\ UNCHANGED <<heap, started, running, bg_running, new_root>>

\* The group of every slot with the chain that hangs off it, in this order.
Listing(r) ==
  LET chain[g \in GroupIds \cup {Null}] ==
        IF g = Null THEN <<>> ELSE <<g>> \o chain[group[g].next]
  IN  FlattenSeq([i \in 1..Len(roots[r].slots) |-> chain[roots[r].slots[i]]])

CreateRoot ==
  LET l == Listing(root)
  IN  /\ mpc = "create"
      /\ new_root' = CHOOSE r \in RootIds : r \notin ralloc
      /\ ralloc' = ralloc \cup {new_root'}
      /\ roots' = [roots EXCEPT ![new_root'] =
                     [pivots |-> [i \in 1..Len(l) |-> group[l[i]].pivot],
                      slots |-> l]]
      /\ mpc' = "train"
      /\ MasterFrame /\ UNCHANGED <<root, group, galloc, models, flags, wait>>

\* adjust_rmi: train_rmi deletes the array that the old root still points to.
Train ==
  /\ mpc = "train"
  /\ models' = (models \ {root}) \cup {new_root}
  /\ mpc' = "swap"
  /\ MasterFrame
  /\ UNCHANGED <<root, roots, ralloc, group, galloc, flags, new_root, wait>>

SwapRoot ==
  /\ mpc = "swap"
  /\ root' = new_root
  /\ mpc' = "trim"
  /\ Barrier(BgNum)
  /\ MasterFrame
  /\ UNCHANGED <<roots, ralloc, group, galloc, models, flags, new_root>>

\* trim_root: chains are cut, slot after slot.
Untrimmed == {i \in 1..Len(roots[root].slots) :
                group[roots[root].slots[i]].next # Null}

Trim ==
  /\ mpc = "trim" /\ Passed(BgNum)
  /\ \E i \in Untrimmed :
       /\ \A j \in Untrimmed : i <= j
       /\ group' = [group EXCEPT ![roots[root].slots[i]].next = Null]
  /\ MasterFrame
  /\ UNCHANGED <<root, roots, ralloc, galloc, models, flags, mpc, new_root, wait>>

DeleteRoot ==
  /\ mpc = "trim" /\ Passed(BgNum) /\ Untrimmed = {}
  /\ ralloc' = {root} /\ new_root' = Null
  /\ roots' = [r \in RootIds |-> IF r = root THEN roots[r] ELSE NoRoot]
  /\ mpc' = "last"
  /\ Barrier(BgNum)
  /\ MasterFrame /\ UNCHANGED <<root, group, galloc, models, flags>>

EndRound ==
  /\ mpc = "last" /\ Passed(BgNum)
  /\ mpc' = "round"
  /\ MasterFrame /\ UNCHANGED <<heap, flags, new_root, wait>>

Join ==
  /\ mpc = "join" /\ \A b \in Bg : adj[b].pc = "exit"
  /\ mpc' = "exit"
  /\ MasterFrame /\ UNCHANGED <<heap, flags, new_root, wait>>

MasterStep ==
  \/ StartRound \/ StopRounds \/ Collect \/ CreateRoot \/ Train \/ SwapRoot
  \/ Trim \/ DeleteRoot \/ EndRound \/ Join

\* terminate_bg, called when no call is in progress; it also sets exited, which
\* lets barriers pass that have nobody to wait for here.
Terminate ==
  /\ bg_running /\ \A w \in Workers : wk[w].pc = "idle"
  /\ bg_running' = FALSE
  /\ MasterFrame
  /\ UNCHANGED <<heap, started, finished, update, running, mpc, new_root, wait>>

\* The destructor has joined the master and frees the index.
Ended == mpc = "exit" /\ UNCHANGED vars

-----------------------------------------------------------------------------
Continue(w) ==
  \/ ReadRoot(w) \/ Predict(w) \/ ReadSlot(w) \/ Chain(w) \/ Use(w)
  \/ FirstVisit(w) \/ ScanNext(w) \/ ScanGroup(w)

Next ==
  \/ \E w \in Workers : Begin(w) \/ Continue(w)
  \/ \E b \in Bg : AdjStep(b)
  \/ MasterStep \/ Terminate \/ Ended

\* Threads that can run are scheduled; nobody has to call or to terminate.
Spec ==
  /\ Init /\ [][Next]_vars
  /\ \A w \in Workers : WF_vars(Continue(w))
  /\ \A b \in Bg : WF_vars(AdjStep(b))
  /\ WF_vars(MasterStep)

-----------------------------------------------------------------------------
(* Properties.                                                              *)

\* A call reaches the group that is responsible for its key, whichever root and
\* groups it meets on the way and whatever the model guesses (locate_group_pt1
\* and pt2, xindex_root_impl.h:703-780).
LocateRight ==
  \A w \in Workers : wk[w].pc = "use" => wk[w].key \in group[wk[w].g].span

\* Nobody holds a root that was deleted: neither a worker between any two steps
\* of a call, nor an adjuster on its way through the slots (xindex_impl.h:181-185).
Working(b) == adj[b].pc \notin {"poll", "exit"}
RootsInMemory ==
  /\ root \in ralloc
  /\ \A w \in Workers : wk[w].r \in ralloc \cup {Null}
  /\ \A b \in Bg : Working(b) => adj[b].r \in ralloc

\* Nobody holds a group that was deleted (xindex_root_impl.h:372-492).
GroupsInMemory ==
  /\ \A w \in Workers : wk[w].g \in galloc \cup {Null}
  /\ \A b \in Bg : Working(b) /\ adj[b].loc[1] = "next" => adj[b].loc[2] \in galloc

\* Adjusters work on the root that is published, and only while the master
\* waits for them: no handshake of started and finished lets one run into the
\* next (xindex_impl.h:145-178, xindex_root_impl.h:327-334).
RoundOnCurrentRoot ==
  \A b \in Bg : Working(b) => mpc = "wait" /\ adj[b].r = root

\* Two adjusters never maintain the same group: the ranges are disjoint and no
\* merge leaves them (xindex_root_impl.h:334-337, 405-411).
Exclusive ==
  \A b, c \in Bg : b # c => Range(adj[b].old) \cap Range(adj[c].old) = {}

\* Between the work of the adjusters the root lists every key once, in groups
\* whose pivots ascend (from the second on), and chains lead to the next slot:
\* what create_new_root and trim_root assert (xindex_root_impl.h:544, 562).
RootInOrder ==
  LET s == roots[root].slots
      g == Listing(root)
  IN  mpc \in {"round", "last"} =>
        /\ \A i \in 1..Len(s) : s[i] # Null
        /\ \A k \in Keys : Cardinality({i \in 1..Len(g) : k \in group[g[i]].span}) = 1
        /\ \A i \in 2..(Len(g) - 1) : group[g[i]].pivot < group[g[i + 1]].pivot
        /\ \A i \in 1..(Len(s) - 1) : group[s[i]].next \in {Null, s[i + 1]}

\* A range scan returns the loaded keys of its range in order, each of them once,
\* although roots, slots and chains change under it (xindex_root_impl.h:264-303).
ScanComplete ==
  [][\A w \in Workers :
       wk[w].pc = "scan" /\ wk'[w].pc = "idle" =>
         wk[w].out = Sorted({k \in Keys : wk[w].key <= k /\ k <= wk[w].end})]_vars

\* The models a worker predicts with are in memory (xindex_root_impl.h:681).
ModelsAlive == \A w \in Workers : wk[w].pc = "predict" => wk[w].r \in models

\* Every round ends, although puts spin on frozen buffers that an adjuster will
\* only release behind a barrier, and the master waits for the adjusters.
RoundEnds == (mpc = "wait") ~> (mpc = "round")

\* terminate_bg returns, whenever it is called: the master leaves its loop and
\* every adjuster sees running and ends (xindex_impl.h:206-217).
TerminateEnds == (~bg_running) ~> (mpc = "exit")
=============================================================================
