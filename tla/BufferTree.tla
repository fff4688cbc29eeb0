----------------------------- MODULE BufferTree -----------------------------
(***************************************************************************)
(* AltBtreeBuffer (competitors/xindex/xindex_buffer_impl.h), the B+-tree   *)
(* behind the buffers of a group.                                          *)
(*                                                                         *)
(* Every node has a lock and a version.  Writers lock a leaf and, from     *)
(* there upwards, the parents that a split reaches; they move the version  *)
(* before they unlock what they changed.  Readers take no lock: they read, *)
(* look at the lock and then at the version, and start over when either    *)
(* says that the node was changed under them.  A leaf that was found under *)
(* an older version is left to the right, along the list of leaves.        *)
(*                                                                         *)
(* While a node is rewritten, what a reader finds in it is arbitrary (the  *)
(* field torn).  Records are atomic cells: see AtomicVal.                  *)
(***************************************************************************)
EXTENDS Integers, FiniteSets, SequencesExt

CONSTANTS
  Workers, Vals, Absent,
  Keys,        \* a finite set of integers
  Removed,     \* a record that was logically removed
  Capacity,    \* node_capacity, an odd number
  Scenarios    \* trees to begin with and the calls of every worker

VARIABLES
  node, root,       \* nodes in the order of their allocation; AltBtreeBuffer::root
  th,               \* every worker: place and local variables
  todo,             \* calls that each worker still makes
  call, seen, ret   \* callers' view, see ConcurrentMap

tree == <<node, root>>
vars == <<tree, th, todo, call, seen, ret>>

Null == 0

\* torn is empty unless the node is being rewritten; then it holds the children
\* that a reader may find (Null in a leaf).
Leaf(keys, vals, next, parent) ==
  [leaf |-> TRUE, keys |-> keys, vals |-> vals, kids |-> <<>>, next |-> next,
   parent |-> parent, ver |-> 0, locked |-> FALSE, torn |-> {}]
Internal(keys, kids, parent) ==
  [leaf |-> FALSE, keys |-> keys, vals |-> <<>>, kids |-> kids, next |-> Null,
   parent |-> parent, ver |-> 0, locked |-> FALSE, torn |-> {}]

Idle == [pc |-> "idle", n |-> Null, ver |-> 0, kid |-> Null, kver |-> 0,
         slot |-> 0, res |-> Absent, first |-> TRUE, next |-> Null, part |-> <<>>,
         out |-> <<>>, sib |-> Null, split |-> 0, parent |-> Null, held |-> <<>>]

Leaves == {n \in DOMAIN node : node[n].leaf}

\* The value of every key, wherever a split under way has put its record.
Contents ==
  LET live == {r \in Leaves \X (1..Capacity) :
                 r[2] <= Len(node[r[1]].keys) /\ node[r[1]].vals[r[2]] # Removed}
      at(k) == {r \in live : node[r[1]].keys[r[2]] = k}
  IN  [k \in Keys |-> IF at(k) = {} THEN Absent
                      ELSE LET r == CHOOSE r \in at(k) : TRUE
                           IN  node[r[1]].vals[r[2]]]

Map == INSTANCE ConcurrentMap WITH map <- Contents

Nodes == [leaf : BOOLEAN, keys : Seq(Keys), vals : Seq(Vals \cup {Removed}),
          kids : Seq(Nat), next : Nat, parent : Nat, ver : Nat, locked : BOOLEAN,
          torn : SUBSET Nat]

\* The nodes have room for their records, and point to nodes of the right kind.
Linked(nodes) ==
  LET leaves == {n \in DOMAIN nodes : nodes[n].leaf}
  IN  \A n \in DOMAIN nodes :
        /\ Len(nodes[n].keys) <= Capacity
        /\ nodes[n].parent \in (DOMAIN nodes \ leaves) \cup {Null}
        /\ nodes[n].leaf => /\ Len(nodes[n].vals) = Len(nodes[n].keys)
                            /\ nodes[n].next \in leaves \cup {Null}
        /\ ~nodes[n].leaf => /\ Len(nodes[n].kids) = Len(nodes[n].keys) + 1
                             /\ nodes[n].kids \in Seq(DOMAIN nodes)

\* h is an upper bound of k; 0 stands for no bound.
Below(k, h) == h = 0 \/ k < h

\* The bounds of what belongs below every node, by its place under its parent.
Ranges(nodes) ==
  LET place(n) == CHOOSE i \in 1..Len(nodes[nodes[n].parent].kids) :
                    nodes[nodes[n].parent].kids[i] = n
      from[n \in DOMAIN nodes] ==
        LET p == nodes[n].parent
        IN  IF p = Null THEN 0 ELSE IF place(n) = 1 THEN from[p]
            ELSE nodes[p].keys[place(n) - 1]
      upto[n \in DOMAIN nodes] ==
        LET p == nodes[n].parent
        IN  IF p = Null THEN 0 ELSE IF place(n) > Len(nodes[p].keys) THEN upto[p]
            ELSE nodes[p].keys[place(n)]
  IN  [lo |-> from, hi |-> upto]

\* The tree with these nodes is in order, with range lo[n] to hi[n] below node n.
InOrder(nodes, lo, hi) ==
  \A n \in DOMAIN nodes :
    LET r == nodes[n]
        m == Len(r.keys)
    IN  /\ \A i, j \in 1..m : i < j => r.keys[i] < r.keys[j]
        /\ \A i \in 1..m : lo[n] <= r.keys[i] /\ Below(r.keys[i], hi[n])
        /\ IF r.parent = Null THEN lo[n] = 0 /\ hi[n] = 0
           ELSE n \in Range(nodes[r.parent].kids)
        /\ IF r.leaf
           THEN /\ r.kids = <<>>
                /\ IF r.next = Null THEN hi[n] = 0 ELSE hi[n] # 0 /\ hi[n] = lo[r.next]
                /\ lo[n] # 0 => m > 0 /\ r.keys[1] = lo[n]
           ELSE /\ \A i \in 1..m : lo[n] < r.keys[i]
                /\ \A i \in 1..(m + 1) :
                     /\ nodes[r.kids[i]].parent = n
                     /\ lo[r.kids[i]] = IF i = 1 THEN lo[n] ELSE r.keys[i - 1]
                     /\ hi[r.kids[i]] = IF i > m THEN hi[n] ELSE r.keys[i]

\* node_capacity is 15; at first nobody is at work on the tree.
ASSUME TreeAssumption ==
  /\ Keys \subseteq Nat \ {0} /\ IsFiniteSet(Keys)
  /\ Capacity \in Nat /\ Capacity % 2 = 1 /\ Capacity > 1
  /\ {Absent, Removed} \cap Vals = {}
  /\ \A s \in Scenarios :
       /\ s.nodes \in Seq(Nodes) /\ Linked(s.nodes) /\ s.root \in DOMAIN s.nodes
       /\ \A n \in DOMAIN s.nodes : ~s.nodes[n].locked /\ s.nodes[n].torn = {}
       /\ s.script \in [Workers -> Seq(Map!Calls)]

\* The trees are such as inserts make.
ASSUME OrderAssumption ==
  \A s \in Scenarios :
    LET r == Ranges(s.nodes)
    IN  /\ r.lo \in [DOMAIN s.nodes -> Nat] /\ r.hi \in [DOMAIN s.nodes -> Nat]
        /\ InOrder(s.nodes, r.lo, r.hi) /\ s.nodes[s.root].parent = Null

TypeOK ==
  /\ node \in Seq(Nodes) /\ Linked(node) /\ root \in DOMAIN node
  /\ \A w \in Workers : th[w].n \in DOMAIN node \cup {Null}

Init ==
  /\ \E s \in Scenarios : node = s.nodes /\ root = s.root /\ todo = s.script
  /\ th = [w \in Workers |-> Idle]
  /\ call = [w \in Workers |-> Map!NoCall]
  /\ seen = [w \in Workers |-> {}]
  /\ ret = Map!Quiet

-----------------------------------------------------------------------------
Key(w) == call[w].key
N(w) == node[th[w].n]

\* A step that callers do not notice.
Silent == ret' = Map!Quiet /\ UNCHANGED <<call, todo, seen>>
Goto(w, l) == th' = [th EXCEPT ![w].pc = l]
Step(w, l) == Goto(w, l) /\ UNCHANGED tree /\ Silent

Return(w, r) ==
  /\ Map!Return(w, r)
  /\ th' = [th EXCEPT ![w] = Idle]
  /\ UNCHANGED todo /\ Map!Observe(Contents')

Begin(w) ==
  /\ call[w] = Map!NoCall /\ todo[w] # <<>>
  /\ call' = [call EXCEPT ![w] = Head(todo[w])]
  /\ todo' = [todo EXCEPT ![w] = Tail(@)]
  /\ th' = [th EXCEPT ![w] = [Idle EXCEPT !.pc = "root"]]
  /\ ret' = Map!Quiet
  /\ UNCHANGED tree /\ Map!Observe(Contents')

-----------------------------------------------------------------------------
(* locate_leaf.                                                             *)

ReadRoot(w) ==
  /\ th[w].pc = "root"
  /\ th' = [th EXCEPT ![w].pc = "rootver", ![w].n = root]
  /\ UNCHANGED tree /\ Silent

ReadRootVersion(w) ==
  /\ th[w].pc = "rootver"
  /\ th' = [th EXCEPT ![w].pc = "isroot", ![w].ver = N(w).ver]
  /\ UNCHANGED tree /\ Silent

IsRoot(w) ==
  /\ th[w].pc = "isroot"
  /\ Step(w, IF N(w).parent # Null THEN "root" ELSE "child")

\* What a call does with the leaf it has found.
AtLeaf(w) ==
  CASE call[w].op = "get" -> "search"
    [] call[w].op = "scan" -> "copy"
    [] OTHER -> "lock"

FoundLeaf(w) == th[w].pc = "child" /\ N(w).leaf /\ Step(w, AtLeaf(w))

\* find_first_larger_than_or_equal_to and find_first_larger_than.
FirstAtLeast(keys, k) == Cardinality({i \in 1..Len(keys) : keys[i] < k})
FirstLarger(keys, k) == Cardinality({i \in 1..Len(keys) : keys[i] <= k})

\* find_child.
ChildOf(n, k) == node[n].kids[FirstLarger(node[n].keys, k) + 1]

FindChild(w) ==
  /\ th[w].pc = "child" /\ ~N(w).leaf
  /\ \E c \in IF N(w).torn # {} THEN N(w).torn
              ELSE {ChildOf(th[w].n, Key(w))} :
       th' = [th EXCEPT ![w].pc = "childver", ![w].kid = c]
  /\ UNCHANGED tree /\ Silent

ReadChildVersion(w) ==
  /\ th[w].pc = "childver"
  /\ th' = [th EXCEPT ![w].pc = "nodelock", ![w].kver = node[th[w].kid].ver]
  /\ UNCHANGED tree /\ Silent

CheckNodeLock(w) ==
  /\ th[w].pc = "nodelock"
  /\ Step(w, IF N(w).locked THEN "root" ELSE "nodever")

CheckNodeVersion(w) ==
  /\ th[w].pc = "nodever"
  /\ th' = IF N(w).ver # th[w].ver THEN [th EXCEPT ![w].pc = "root"]
           ELSE [th EXCEPT ![w].pc = "child", ![w].n = th[w].kid,
                           ![w].ver = th[w].kver]
  /\ UNCHANGED tree /\ Silent

\* The leaf is not the one it was: its version, then its next, and so on.
Reread(w) ==
  /\ th[w].pc = "moved"
  /\ th' = [th EXCEPT ![w].pc = "next", ![w].ver = N(w).ver]
  /\ UNCHANGED tree /\ Silent

FollowNext(w) ==
  LET m == N(w).next
  IN  /\ th[w].pc = "next"
      /\ th' = IF m # Null /\ node[m].keys[1] <= Key(w)
               THEN [th EXCEPT ![w].pc = "moved", ![w].n = m]
               ELSE [th EXCEPT ![w].pc = AtLeaf(w)]
      /\ UNCHANGED tree /\ Silent

-----------------------------------------------------------------------------
(* get, and the DataSource of a scan.                                       *)

\* The slot of the key, 0 if it is not in the leaf.
SlotOf(n, k) ==
  LET i == FirstAtLeast(node[n].keys, k) + 1
  IN  IF i <= Len(node[n].keys) /\ node[n].keys[i] = k THEN i ELSE 0

Search(w) ==
  /\ th[w].pc = "search"
  /\ \E s \in IF N(w).torn # {} THEN 0..Capacity ELSE {SlotOf(th[w].n, Key(w))} :
       th' = [th EXCEPT ![w].pc = "read", ![w].slot = s]
  /\ UNCHANGED tree /\ Silent

\* read_ignoring_ptr; the leaf may have been rewritten since the search.
Read(w) ==
  LET s == th[w].slot
  IN  /\ th[w].pc = "read"
      /\ \E v \in IF s = 0 THEN {Removed}
                  ELSE IF N(w).torn # {} \/ s > Len(N(w).vals)
                  THEN Vals \cup {Removed} ELSE {N(w).vals[s]} :
           th' = [th EXCEPT ![w].pc = "leaflock",
                            ![w].res = IF v = Removed THEN Absent ELSE v]
      /\ UNCHANGED tree /\ Silent

\* The live records from the first key of the scan on.
LiveIn(n, from) ==
  LET keep(i) == node[n].keys[i] >= from /\ node[n].vals[i] # Removed
      slots == SelectSeq([i \in 1..Len(node[n].keys) |-> i], keep)
  IN  [j \in 1..Len(slots) |-> <<node[n].keys[slots[j]], node[n].vals[slots[j]]>>]

\* A leaf that is rewritten is copied in part.
Copy(w) ==
  /\ th[w].pc = "copy"
  /\ \E part \in {LiveIn(th[w].n, IF th[w].first THEN Key(w) ELSE 0)}
                   \cup (IF N(w).torn # {} THEN {<<>>} ELSE {}) :
       th' = [th EXCEPT ![w].pc = "copynext", ![w].part = part]
  /\ UNCHANGED tree /\ Silent

CopyNext(w) ==
  /\ th[w].pc = "copynext"
  /\ th' = [th EXCEPT ![w].pc = "leaflock", ![w].next = N(w).next]
  /\ UNCHANGED tree /\ Silent

\* After the first leaf a scan reads the same leaf again, without going right.
Again(w) == IF call[w].op = "get" \/ th[w].first THEN "moved" ELSE "leafver"

\* Fault: the lock is not looked at.
IgnoreLeafLock(w) == th[w].pc = "leaflock" /\ Step(w, "leafcheck")

CheckLeafLock(w) ==
  /\ th[w].pc = "leaflock"
  /\ Step(w, IF N(w).locked THEN Again(w) ELSE "leafcheck")

CheckLeafVersion(w) ==
  /\ th[w].pc = "leafcheck"
  /\ UNCHANGED tree
  /\ \/ N(w).ver # th[w].ver /\ Goto(w, Again(w)) /\ Silent
     \/ N(w).ver = th[w].ver /\ call[w].op = "get" /\ Return(w, th[w].res)
     \/ /\ N(w).ver = th[w].ver /\ call[w].op = "scan"
        /\ IF th[w].next = Null THEN Return(w, th[w].out \o th[w].part)
           ELSE /\ th' = [th EXCEPT ![w].pc = "leafver", ![w].n = th[w].next,
                            ![w].out = @ \o th[w].part, ![w].first = FALSE]
                /\ Silent

\* advance_to_next_valid at the beginning of a leaf.
ReadLeafVersion(w) ==
  /\ th[w].pc = "leafver"
  /\ th' = [th EXCEPT ![w].pc = "copy", ![w].ver = N(w).ver]
  /\ UNCHANGED tree /\ Silent

-----------------------------------------------------------------------------
(* update, insert and remove.                                               *)

\* locate_leaf_locked.
Lock(w) ==
  /\ th[w].pc = "lock" /\ ~N(w).locked
  /\ node' = [node EXCEPT ![th[w].n].locked = TRUE]
  /\ Goto(w, "locked")
  /\ UNCHANGED root /\ Silent

CheckLocked(w) ==
  /\ th[w].pc = "locked"
  /\ IF N(w).ver # th[w].ver
     THEN node' = [node EXCEPT ![th[w].n].locked = FALSE] /\ Goto(w, "moved")
     ELSE UNCHANGED node /\ Goto(w, "apply")
  /\ UNCHANGED root /\ Silent

\* The call takes effect with result r; the locks in held are released next, in
\* this order, from place l on.
TakeEffect(w, r, l, held) ==
  /\ call' = [call EXCEPT ![w] = Map!Done(r)]
  /\ th' = [th EXCEPT ![w].pc = l, ![w].held = held]
  /\ ret' = Map!Quiet
  /\ UNCHANGED <<root, todo>> /\ Map!Observe(Contents')

\* update_ignoring_ptr and remove_ignoring_ptr, also as part of insert_leaf.
ChangeRecord(w) ==
  LET n == th[w].n
      s == SlotOf(n, Key(w))
      live == s # 0 /\ node[n].vals[s] # Removed
  IN  /\ th[w].pc = "apply" /\ (call[w].op # "put" \/ live)
      /\ node' = IF ~live THEN node
                 ELSE [node EXCEPT ![n].vals[s] =
                         IF call[w].op = "remove" THEN Removed ELSE call[w].val]
      /\ TakeEffect(w, IF live THEN "ok" ELSE "failed", "unlock", <<n>>)

\* insert_leaf over a removed record.
Overwrite(w) ==
  LET n == th[w].n
      s == SlotOf(n, Key(w))
  IN  /\ th[w].pc = "apply" /\ call[w].op = "put"
      /\ s # 0 /\ node[n].vals[s] = Removed
      /\ node' = [node EXCEPT ![n].vals[s] = call[w].val, ![n].torn = {Null}]
      /\ TakeEffect(w, "ok", "bump", <<n>>)

\* Fault: one key too many fits.
FullTooLate(n) == Len(node[n].keys) = Capacity + 1

IsFull(n) == Len(node[n].keys) = Capacity

\* insert_leaf into a leaf that is not full.
Insert(w) ==
  LET n == th[w].n
      i == FirstAtLeast(node[n].keys, Key(w)) + 1
  IN  /\ th[w].pc = "apply" /\ call[w].op = "put"
      /\ SlotOf(n, Key(w)) = 0 /\ ~IsFull(n)
      /\ node' = [node EXCEPT ![n].keys = InsertAt(@, i, Key(w)),
                              ![n].vals = InsertAt(@, i, call[w].val),
                              ![n].torn = {Null}]
      /\ TakeEffect(w, "ok", "bump", <<n>>)

\* split_n_insert_leaf: how many of the records stay, counting the new one.
\* slot counts from zero, as there.
LeafCut(slot) ==
  LET half == Capacity \div 2
      mid == IF slot = Capacity THEN Capacity
             ELSE IF slot >= half /\ half < Capacity - half THEN half + 1
             ELSE half
  IN  IF slot >= mid THEN mid ELSE mid + 1

SplitLeaf(w) ==
  LET n == th[w].n
      slot == FirstAtLeast(node[n].keys, Key(w))
      keys == InsertAt(node[n].keys, slot + 1, Key(w))
      vals == InsertAt(node[n].vals, slot + 1, call[w].val)
      cut == LeafCut(slot)
      sib == [Leaf(SubSeq(keys, cut + 1, Capacity + 1),
                   SubSeq(vals, cut + 1, Capacity + 1), Null, Null)
                EXCEPT !.locked = TRUE]
  IN  /\ th[w].pc = "apply" /\ call[w].op = "put"
      /\ SlotOf(n, Key(w)) = 0 /\ IsFull(n)
      /\ node' = Append([node EXCEPT ![n].keys = SubSeq(keys, 1, cut),
                                     ![n].vals = SubSeq(vals, 1, cut),
                                     ![n].torn = {Null}], sib)
      /\ call' = [call EXCEPT ![w] = Map!Done("ok")]
      /\ th' = [th EXCEPT ![w].pc = "link", ![w].sib = Len(node) + 1,
                          ![w].split = keys[cut + 1]]
      /\ ret' = Map!Quiet
      /\ UNCHANGED <<root, todo>> /\ Map!Observe(Contents')

Link(w) ==
  LET n == th[w].n
  IN  /\ th[w].pc = "link"
      /\ node' = [node EXCEPT ![th[w].sib].next = node[n].next,
                              ![n].next = th[w].sib]
      /\ Goto(w, "parent")
      /\ UNCHANGED root /\ Silent

\* Lock the right parent.
ReadParent(w) ==
  /\ th[w].pc = "parent"
  /\ th' = [th EXCEPT ![w].parent = N(w).parent,
                      ![w].pc = IF N(w).parent = Null THEN "newroot" ELSE "lockparent"]
  /\ UNCHANGED tree /\ Silent

LockParent(w) ==
  /\ th[w].pc = "lockparent" /\ ~node[th[w].parent].locked
  /\ node' = [node EXCEPT ![th[w].parent].locked = TRUE]
  /\ Goto(w, "checkparent")
  /\ UNCHANGED root /\ Silent

\* Fault: the lock of the wrong parent is kept.
CheckParentKeepsLock(w) ==
  /\ th[w].pc = "checkparent"
  /\ Goto(w, IF th[w].parent # N(w).parent THEN "parent" ELSE "insertparent")
  /\ UNCHANGED tree /\ Silent

CheckParent(w) ==
  /\ th[w].pc = "checkparent"
  /\ IF th[w].parent # N(w).parent
     THEN node' = [node EXCEPT ![th[w].parent].locked = FALSE] /\ Goto(w, "parent")
     ELSE UNCHANGED node /\ Goto(w, "insertparent")
  /\ UNCHANGED root /\ Silent

\* A root above the two halves: first the parents, then the root.
NewRoot(w) ==
  LET n == th[w].n
      p == Len(node) + 1
  IN  /\ th[w].pc = "newroot"
      /\ node' = Append([node EXCEPT ![n].parent = p, ![th[w].sib].parent = p],
                        [Internal(<<th[w].split>>, <<n, th[w].sib>>, Null)
                           EXCEPT !.locked = TRUE])
      /\ th' = [th EXCEPT ![w].pc = "setroot", ![w].parent = p]
      /\ UNCHANGED root /\ Silent

\* Fault: root is left as it is.
SetNoRoot(w) ==
  /\ th[w].pc = "setroot"
  /\ th' = [th EXCEPT ![w].pc = "bump",
                      ![w].held = <<th[w].parent, th[w].n, th[w].sib>>]
  /\ UNCHANGED tree /\ Silent

SetRoot(w) ==
  /\ th[w].pc = "setroot"
  /\ root' = th[w].parent
  /\ th' = [th EXCEPT ![w].pc = "bump",
                      ![w].held = <<th[w].parent, th[w].n, th[w].sib>>]
  /\ UNCHANGED node /\ Silent

InsertParent(w) ==
  LET p == th[w].parent
      i == FirstLarger(node[p].keys, th[w].split) + 1
  IN  /\ th[w].pc = "insertparent" /\ ~IsFull(p)
      /\ node' = [node EXCEPT ![p].keys = InsertAt(@, i, th[w].split),
                              ![p].kids = InsertAt(@, i + 1, th[w].sib),
                              ![p].torn = Range(node[p].kids) \cup {th[w].sib},
                              ![th[w].sib].parent = p]
      /\ th' = [th EXCEPT ![w].pc = "bump", ![w].held = <<p, th[w].n, th[w].sib>>]
      /\ UNCHANGED root /\ Silent

\* How many keys stay in a parent that is split, counting the new one.
ParentCut(slot) ==
  LET half == Capacity \div 2
      mid == IF slot = Capacity THEN Capacity - 1
             ELSE IF slot < half /\ half > Capacity - (half + 1) THEN half - 1
             ELSE half
  IN  IF slot >= mid THEN mid ELSE mid + 1

\* Fault: children that move keep their parent.
SplitParentKeepsParents(w) ==
  LET p == th[w].parent
      q == Len(node) + 1
      slot == FirstLarger(node[p].keys, th[w].split)
      keys == InsertAt(node[p].keys, slot + 1, th[w].split)
      kids == InsertAt(node[p].kids, slot + 2, th[w].sib)
      cut == ParentCut(slot)
      right == SubSeq(kids, cut + 2, Capacity + 2)
  IN  /\ th[w].pc = "insertparent" /\ IsFull(p)
      /\ node' = Append(
           [node EXCEPT ![p].keys = SubSeq(keys, 1, cut),
                        ![p].kids = SubSeq(kids, 1, cut + 1),
                        ![p].torn = Range(kids), ![th[w].sib].parent = p],
           [Internal(SubSeq(keys, cut + 2, Capacity + 1), right, Null)
              EXCEPT !.locked = TRUE])
      /\ th' = [th EXCEPT ![w].pc = "bump", ![w].held = <<th[w].n, th[w].sib>>,
                          ![w].n = p, ![w].sib = q, ![w].split = keys[cut + 1]]
      /\ UNCHANGED root /\ Silent

\* The recursive split: the parent becomes the node to split, the two halves
\* below it are released first.
SplitParent(w) ==
  LET p == th[w].parent
      q == Len(node) + 1
      slot == FirstLarger(node[p].keys, th[w].split)
      keys == InsertAt(node[p].keys, slot + 1, th[w].split)
      kids == InsertAt(node[p].kids, slot + 2, th[w].sib)
      cut == ParentCut(slot)
      right == SubSeq(kids, cut + 2, Capacity + 2)
      adopted == [c \in DOMAIN node |->
                    IF c \in Range(right) THEN [node[c] EXCEPT !.parent = q]
                    ELSE IF c = th[w].sib THEN [node[c] EXCEPT !.parent = p]
                    ELSE node[c]]
  IN  /\ th[w].pc = "insertparent" /\ IsFull(p)
      /\ node' = Append(
           [adopted EXCEPT ![p].keys = SubSeq(keys, 1, cut),
                           ![p].kids = SubSeq(kids, 1, cut + 1),
                           ![p].torn = Range(kids)],
           [Internal(SubSeq(keys, cut + 2, Capacity + 1), right, Null)
              EXCEPT !.locked = TRUE])
      /\ th' = [th EXCEPT ![w].pc = "bump", ![w].held = <<th[w].n, th[w].sib>>,
                          ![w].n = p, ![w].sib = q, ![w].split = keys[cut + 1]]
      /\ UNCHANGED root /\ Silent

\* Fault: the version of the last of the nodes is forgotten.
BumpAllButOne(w) ==
  /\ th[w].pc = "bump"
  /\ node' = [m \in DOMAIN node |->
       IF m \in Range(Front(th[w].held))
       THEN [node[m] EXCEPT !.ver = @ + 1, !.torn = {}]
       ELSE IF m \in Range(th[w].held) THEN [node[m] EXCEPT !.torn = {}] ELSE node[m]]
  /\ Goto(w, "unlock")
  /\ UNCHANGED root /\ Silent

\* version++ of all nodes that were changed, still under their locks.
Bump(w) ==
  /\ th[w].pc = "bump"
  /\ node' = [m \in DOMAIN node |->
       IF m \in Range(th[w].held)
       THEN [node[m] EXCEPT !.ver = @ + 1, !.torn = {}] ELSE node[m]]
  /\ Goto(w, "unlock")
  /\ UNCHANGED root /\ Silent

\* With the last lock the call returns, unless a parent is still to be done.
Unlock(w) ==
  LET n == Head(th[w].held)
  IN  /\ th[w].pc = "unlock"
      /\ node' = [node EXCEPT ![n].locked = FALSE]
      /\ IF Len(th[w].held) > 1
         THEN th' = [th EXCEPT ![w].held = Tail(@)] /\ Silent
         ELSE IF th[w].sib \notin {Null, n}
         THEN th' = [th EXCEPT ![w].pc = "parent", ![w].held = <<>>] /\ Silent
         ELSE Return(w, call[w].val)
      /\ UNCHANGED root

-----------------------------------------------------------------------------
Continue(w) ==
  \/ ReadRoot(w) \/ ReadRootVersion(w) \/ IsRoot(w) \/ FoundLeaf(w) \/ FindChild(w)
  \/ ReadChildVersion(w) \/ CheckNodeLock(w) \/ CheckNodeVersion(w)
  \/ Reread(w) \/ FollowNext(w)
  \/ Search(w) \/ Read(w) \/ Copy(w) \/ CopyNext(w) \/ CheckLeafLock(w)
  \/ CheckLeafVersion(w) \/ ReadLeafVersion(w)
  \/ Lock(w) \/ CheckLocked(w) \/ ChangeRecord(w) \/ Overwrite(w) \/ Insert(w)
  \/ SplitLeaf(w) \/ Link(w) \/ ReadParent(w) \/ LockParent(w) \/ CheckParent(w)
  \/ NewRoot(w) \/ SetRoot(w) \/ InsertParent(w) \/ SplitParent(w)
  \/ Bump(w) \/ Unlock(w)

Finished ==
  /\ \A w \in Workers : call[w] = Map!NoCall /\ todo[w] = <<>>
  /\ UNCHANGED vars

Next == (\E w \in Workers : Begin(w) \/ Continue(w)) \/ Finished

\* Threads are scheduled.
Spec == Init /\ [][Next]_vars /\ \A w \in Workers : WF_vars(Continue(w))

-----------------------------------------------------------------------------
(* Properties.                                                              *)

KeysIn(n) == Range(node[n].keys)

\* What split_n_insert_leaf asserts of the tree (xindex_buffer_impl.h:304-391,
\* 482-521), for every node that nobody has locked: its keys ascend, its children
\* lie between them and have it as their parent.  All leaves are in one list,
\* in ascending order, once the split that made them has linked them.
TreeInOrder ==
  /\ \A n \in DOMAIN node : ~node[n].locked =>
       /\ \A i \in 1..(Len(node[n].keys) - 1) : node[n].keys[i] < node[n].keys[i + 1]
       /\ \A i \in 1..Len(node[n].kids) :
            LET c == node[n].kids[i]
            IN  /\ node[c].parent = n
                /\ i > 1 => \A k \in KeysIn(c) : k >= node[n].keys[i - 1]
                /\ i <= Len(node[n].keys) => \A k \in KeysIn(c) : k < node[n].keys[i]
  /\ \A n \in Leaves : node[n].next # Null =>
       \A j \in KeysIn(n), k \in KeysIn(node[n].next) : j < k

\* The nodes that worker w has to unlock: the leaf, or the halves of a split and
\* the parent they go to, until they are released one by one.
Holds(w) ==
  LET halves == {th[w].n, th[w].sib}
      held == Range(th[w].held)
  IN  CASE th[w].pc \in {"locked", "apply"} -> {th[w].n}
        [] th[w].pc \in {"link", "parent", "lockparent", "newroot"} -> halves
        [] th[w].pc \in {"checkparent", "insertparent", "setroot"} ->
             halves \cup {th[w].parent}
        [] th[w].pc \in {"bump", "unlock"} ->
             held \cup (IF th[w].sib \in held \cup {Null} THEN {} ELSE halves)
        [] OTHER -> {}

\* A node is locked while exactly one worker has it to unlock, however many nodes
\* a split reaches and whoever waits for them: no node stays locked behind a call,
\* and none is unlocked by a worker while another one rewrites it
\* (xindex_buffer_impl.h:194-209, 257-480, 570-581).
LocksOwned ==
  /\ \A n \in DOMAIN node :
       node[n].locked <=> \E w \in Workers : n \in Holds(w)
  /\ \A v, w \in Workers : v # w => Holds(v) \cap Holds(w) = {}

\* A reader that finds a node unlocked, and of the version it read before it looked
\* into the node, has gone to the child that holds its key, and in a leaf to the
\* slot of its key, whatever was inserted and split meanwhile: writers move the
\* version of every node they rewrite before they unlock it
\* (xindex_buffer_impl.h:57-72, 158-184).
ReadersRight ==
  \A w \in Workers :
    LET valid == ~N(w).locked /\ N(w).ver = th[w].ver
    IN  /\ th[w].pc \in {"childver", "nodelock", "nodever"} /\ valid =>
             th[w].kid = ChildOf(th[w].n, Key(w))
        /\ th[w].pc \in {"read", "leaflock", "leafcheck"} /\ call[w].op = "get" /\ valid =>
             th[w].slot = SlotOf(th[w].n, Key(w))

\* The buffer is a map with atomic get, insert, update and remove, whatever
\* splits readers meet on their way down and to the right; a scan returns every
\* key in order with a value it had during the scan, and leaves out none that
\* was there throughout (xindex_buffer_impl.h:54-255, 700-790).
ImplementsMap == Map!Spec

\* No call hangs: writers that wait for each other's locks, from the leaf upwards,
\* and readers that start over, get on until no call is left.
CallsReturn == []<>(\A w \in Workers : call[w] = Map!NoCall)
=============================================================================
