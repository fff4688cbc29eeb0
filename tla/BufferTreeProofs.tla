-------------------------- MODULE BufferTreeProofs --------------------------
(***************************************************************************)
(* Theorems about AltBtreeBuffer (see BufferTree), for every capacity, any *)
(* number of workers and any tree to begin with.                           *)
(*                                                                         *)
(* TypeOK and LocksOwned follow from the inductive invariant IInv: what    *)
(* the nodes look like, and what a worker knows at each place of its call. *)
(* A step is seen as one worker's (WorkerStep): nodes only grow in number, *)
(* the worker arrives at a place whose conditions hold, and it takes only  *)
(* free locks.  StepKeeps says that this is enough, and there is one lemma *)
(* per action to say that it is such a step.                               *)
(*                                                                         *)
(* ReadersRight follows from a second invariant, VInv, about the versions: *)
(* its steps (KeepsReaders) use the first one.                             *)
(***************************************************************************)
EXTENDS BufferTree, FiniteSetTheorems, TLAPS

\* The fields of a worker's record.
Fields == {"pc", "n", "ver", "kid", "kver", "slot", "res", "first", "next", "part",
           "out", "sib", "split", "parent", "held"}

\* Before a call has taken effect: where it has no leaf yet, reads one and locks one.
Descending == {"rootver", "isroot", "child", "childver", "nodelock", "nodever"}
Reading == {"moved", "next", "search", "read", "copy", "copynext", "leaflock",
            "leafcheck", "leafver"}
Writing == {"lock", "locked", "apply"}

\* Afterwards: where a split goes up the tree, and where locks are released.
Splitting == {"link", "parent", "lockparent", "checkparent", "insertparent", "newroot",
              "setroot"}
Releasing == {"bump", "unlock"}

\* A record of the tree, given its nodes and its leaves.
NodeFine(r, nodes, leaves) ==
  /\ r \in Nodes /\ Len(r.keys) <= Capacity
  /\ r.parent \in (nodes \ leaves) \cup {Null}
  /\ r.leaf => /\ Len(r.vals) = Len(r.keys) /\ r.next \in leaves \cup {Null}
               /\ r.torn \subseteq nodes \cup {Null}
  /\ ~r.leaf => /\ Len(r.kids) = Len(r.keys) + 1 /\ r.kids \in Seq(nodes)
                /\ r.torn \subseteq nodes

TreeFine ==
  /\ node \in Seq(Nodes) /\ root \in DOMAIN node
  /\ \A n \in DOMAIN node : NodeFine(node[n], DOMAIN node, Leaves)

Threads ==
  /\ DOMAIN th = Workers /\ \A w \in Workers : DOMAIN th[w] = Fields
  /\ call \in [Workers -> Map!Calls \cup {Map!NoCall, Map!Done("ok"), Map!Done("failed")}]
  /\ todo \in [Workers -> Seq(Map!Calls)]

\* What worker w knows of the tree at each place.
Knows(w) ==
  /\ th[w].n \in DOMAIN node \cup {Null} /\ th[w].next \in Leaves \cup {Null}
  /\ th[w].pc \in {"idle", "root"} \cup Descending \cup Reading \cup Writing
                    \cup Splitting \cup Releasing
  /\ th[w].pc \in {"root"} \cup Descending \cup Reading \cup Writing =>
       call[w] \in Map!Calls
  /\ th[w].pc \in {"idle", "root"} \cup Descending \cup Reading \cup Writing =>
       th[w].sib = Null
  /\ th[w].pc \in Descending => th[w].n \in DOMAIN node
  /\ th[w].pc \in {"childver", "nodelock", "nodever"} => th[w].kid \in DOMAIN node
  /\ th[w].pc \in Reading \cup Writing => th[w].n \in Leaves
  /\ th[w].pc \in Writing => call[w].op \notin {"get", "scan"}
  /\ th[w].pc \in Splitting \cup Releasing => call[w].op = "done"

\* The two halves of a split, the key between them, and the parent they go to.
Splits(w) ==
  /\ th[w].sib # Null => /\ th[w].n \in DOMAIN node /\ th[w].sib \in DOMAIN node
                         /\ th[w].n # th[w].sib /\ th[w].split \in Keys
  /\ th[w].pc \in Splitting => th[w].sib # Null
  /\ th[w].pc = "link" => th[w].n \in Leaves /\ th[w].sib \in Leaves
  /\ th[w].pc \in {"lockparent", "checkparent", "insertparent", "setroot"} =>
       th[w].parent \in DOMAIN node \ Leaves
  /\ th[w].pc \in {"checkparent", "insertparent", "setroot"} =>
       th[w].parent \notin {th[w].n, th[w].sib}

Distinct(s) == \A i, j \in 1..Len(s) : i # j => s[i] # s[j]

\* The locks left to release.
Releases(w) ==
  LET held == th[w].held
  IN  th[w].pc \in Releasing =>
        /\ held \in Seq(DOMAIN node) /\ Len(held) > 0
        /\ Distinct(held)
        /\ \/ th[w].sib = Null \/ th[w].sib = held[Len(held)]
           \/ th[w].n \notin Range(held) /\ th[w].sib \notin Range(held)

Placed(w) == Knows(w) /\ Splits(w) /\ Releases(w)

IInv == TreeFine /\ Threads /\ (\A w \in Workers : Placed(w)) /\ LocksOwned
-----------------------------------------------------------------------------
(* Sequences, ranks and cuts.                                               *)

\* Keys are numbers, and the capacity is that of a node that can be split.
LEMMA ConstantFacts ==
  /\ Keys \subseteq Nat /\ Capacity \in Nat /\ Capacity > 2 /\ Capacity % 2 = 1
  /\ 0 \notin Keys
<1>1. Capacity \in Nat /\ Capacity % 2 = 1 /\ Capacity > 1
  BY TreeAssumption
<1>2. Capacity > 2
  BY <1>1
<1> QED
  BY <1>1, <1>2, TreeAssumption

\* A sequence of fewer elements, and of more.
LEMMA SubSeqFacts ==
  ASSUME NEW S, NEW s \in Seq(S), NEW a \in Nat \ {0}, NEW b \in 0..Len(s), a <= b + 1
  PROVE  SubSeq(s, a, b) \in Seq(S) /\ Len(SubSeq(s, a, b)) = b - a + 1
OBVIOUS

\* One element is inserted.
LEMMA InsertFacts ==
  ASSUME NEW S, NEW s \in Seq(S), NEW i \in 1..Len(s) + 1, NEW e \in S
  PROVE  InsertAt(s, i, e) \in Seq(S) /\ Len(InsertAt(s, i, e)) = Len(s) + 1
<1> DEFINE a == SubSeq(s, 1, i - 1)
           b == SubSeq(s, i, Len(s))
<1>1. a \in Seq(S) /\ Len(a) = i - 1
  <2>1. i - 1 \in 0..Len(s) /\ i - 1 - 1 + 1 = i - 1
    OBVIOUS
  <2> QED
    BY <2>1, SubSeqFacts
<1>2. b \in Seq(S) /\ Len(b) = Len(s) - i + 1
  BY SubSeqFacts
<1>3. InsertAt(s, i, e) = a \o <<e>> \o b
  BY DEF InsertAt
<1> HIDE DEF a, b
<1>4. a \o <<e>> \in Seq(S) /\ Len(a \o <<e>>) = i
  BY <1>1
<1>5. (a \o <<e>>) \o b \in Seq(S) /\ Len((a \o <<e>>) \o b) = Len(s) + 1
  <2> DEFINE c == a \o <<e>>
  <2>1. c \in Seq(S) /\ Len(c) = i
    BY <1>4
  <2> HIDE DEF c
  <2>2. c \o b \in Seq(S) /\ Len(c \o b) = Len(s) + 1
    BY <1>2, <2>1
  <2> QED
    BY <2>2 DEF c
<1> QED
  BY <1>3, <1>5

\* The elements of a sequence.
LEMMA RangeFacts ==
  ASSUME NEW S, NEW s \in Seq(S)
  PROVE  Range(s) \subseteq S /\ Range(s) = {s[i] : i \in 1..Len(s)}
BY DEF Range

\* find_first_larger_than and its variant return a place among the keys.
LEMMA RankFacts ==
  ASSUME NEW s \in Seq(Keys), NEW k
  PROVE  FirstAtLeast(s, k) \in 0..Len(s) /\ FirstLarger(s, k) \in 0..Len(s)
<1>0. Len(s) \in Nat
  OBVIOUS
<1>1. IsFiniteSet(1..Len(s)) /\ Cardinality(1..Len(s)) = Len(s)
  <2>1. /\ IsFiniteSet(1..Len(s))
        /\ Cardinality(1..Len(s)) = IF 1 > Len(s) THEN 0 ELSE Len(s) - 1 + 1
    <3>1. 1 \in Int /\ Len(s) \in Int
      BY <1>0
    <3> QED
      BY <3>1, FS_Interval, Zenon
  <2> QED
    BY <1>0, <2>1
<1>2. ASSUME NEW T \in SUBSET (1..Len(s))
      PROVE  Cardinality(T) \in 0..Len(s)
  <2>1. IsFiniteSet(T) /\ Cardinality(T) <= Cardinality(1..Len(s))
    BY <1>1, FS_Subset, Zenon
  <2>2. Cardinality(T) \in Nat
    BY <2>1, FS_CardinalityType, Zenon
  <2> QED
    BY <1>0, <1>1, <2>1, <2>2
<1>3. {i \in 1..Len(s) : s[i] < k} \in SUBSET (1..Len(s))
      /\ {i \in 1..Len(s) : s[i] <= k} \in SUBSET (1..Len(s))
  OBVIOUS
<1> QED
  BY <1>2, <1>3 DEF FirstAtLeast, FirstLarger

\* Both halves of a split get something.
LEMMA CutFacts ==
  ASSUME NEW i \in 0..Capacity
  PROVE  LeafCut(i) \in 1..Capacity /\ ParentCut(i) \in 1..Capacity - 1
<1> DEFINE half == Capacity \div 2
<1>1. Capacity \in Nat /\ Capacity > 2 /\ Capacity % 2 = 1
  BY ConstantFacts
<1>2. half \in Nat /\ Capacity = 2 * half + 1 /\ half >= 1
  BY <1>1
<1> HIDE DEF half
<1>3. LeafCut(i) = LET mid == IF i = Capacity THEN Capacity
                              ELSE IF i >= half /\ half < Capacity - half THEN half + 1
                              ELSE half
                   IN  IF i >= mid THEN mid ELSE mid + 1
  BY DEF LeafCut, half
<1>4. ParentCut(i) = LET mid == IF i = Capacity THEN Capacity - 1
                                ELSE IF i < half /\ half > Capacity - (half + 1) THEN half - 1
                                ELSE half
                     IN  IF i >= mid THEN mid ELSE mid + 1
  BY DEF ParentCut, half
<1>5. LeafCut(i) \in 1..Capacity
  BY <1>1, <1>2, <1>3
<1>6. ParentCut(i) \in 1..Capacity - 1
  BY <1>1, <1>2, <1>4
<1> QED
  BY <1>5, <1>6

\* The slot of a key is a place of the leaf.
LEMMA SlotFacts ==
  ASSUME TreeFine, NEW n \in Leaves, NEW k
  PROVE  SlotOf(n, k) \in 0..Len(node[n].vals)
<1>1. node[n].keys \in Seq(Keys) /\ Len(node[n].vals) = Len(node[n].keys)
  BY DEF TreeFine, NodeFine, Leaves, Nodes
<1>2. FirstAtLeast(node[n].keys, k) \in 0..Len(node[n].keys)
  BY <1>1, RankFacts
<1> QED
  BY <1>1, <1>2 DEF SlotOf

\* The fields of a call.
LEMMA CallFacts ==
  ASSUME NEW c \in Map!Calls
  PROVE  /\ c.key \in Keys /\ c.op \in {"get", "scan", "remove", "put", "update"}
         /\ c.op \in {"put", "update"} => c.val \in Vals
BY DEF Map!Calls, Map!Get, Map!Put, Map!Remove, Map!Update, Map!Scan

-----------------------------------------------------------------------------
(* Steps, as far as the invariant is concerned.                             *)

\* A new record of the tree stays one when the tree grows.
LEMMA FineGrows ==
  ASSUME NEW r, NEW d, NEW l, NEW e, NEW m, NodeFine(r, d, l), d \subseteq e, l \subseteq m,
         d \ l \subseteq e \ m
  PROVE  NodeFine(r, e, m)
<1>1. ~r.leaf => r.kids \in Seq(e)
  <2>1. ASSUME NEW s \in Seq(d) PROVE s \in Seq(e)
    OBVIOUS
  <2> QED
    BY <2>1 DEF NodeFine
<1> QED
  BY <1>1 DEF NodeFine

\* Nodes stay what they are, and new ones may come.
Grows ==
  /\ TreeFine' /\ DOMAIN node \subseteq DOMAIN node'
  /\ \A n \in DOMAIN node : node'[n].leaf = node[n].leaf

\* The locks that worker w takes were free, and those it gives away it had.
LockStep(w) ==
  /\ \A n \in DOMAIN node : n \notin Holds(w) \cup Holds(w)' =>
       node'[n].locked = node[n].locked
  /\ \A n \in Holds(w)' : /\ n \in DOMAIN node' /\ node'[n].locked
                          /\ n \in DOMAIN node /\ node[n].locked => n \in Holds(w)
  /\ \A n \in Holds(w) \ Holds(w)' : ~node'[n].locked
  /\ \A n \in DOMAIN node' \ DOMAIN node : node'[n].locked => n \in Holds(w)'

\* The other workers stay where they are.
Others(w) == \A v \in Workers \ {w} : th'[v] = th[v] /\ call'[v] = call[v]

WorkerStep(w) ==
  Grows /\ Threads' /\ Others(w) /\ Placed(w)' /\ LockStep(w)

\* A worker's locks are on nodes.
LEMMA HoldsNodes ==
  ASSUME NEW w \in Workers, Threads, Placed(w)
  PROVE  Holds(w) \subseteq DOMAIN node
<1>1. CASE th[w].pc \in Writing
  BY <1>1 DEF Holds, Placed, Knows, Writing, Leaves
<1>2. CASE th[w].pc \in Splitting
  BY <1>2 DEF Holds, Placed, Splits, Splitting
<1>3. CASE th[w].pc \in Releasing
  <2>1. Range(th[w].held) \subseteq DOMAIN node
    BY <1>3, RangeFacts DEF Placed, Releases
  <2> QED
    BY <1>3, <2>1 DEF Holds, Placed, Splits, Releasing
<1>4. CASE th[w].pc \notin Writing \cup Splitting \cup Releasing
  BY <1>4 DEF Holds, Writing, Splitting, Releasing
<1> QED
  BY <1>1, <1>2, <1>3, <1>4

\* Such a step preserves the invariant.
LEMMA StepKeeps ==
  ASSUME IInv, NEW w \in Workers, WorkerStep(w)
  PROVE  IInv'
<1>1. /\ Leaves \subseteq Leaves' /\ DOMAIN node \subseteq DOMAIN node'
      /\ DOMAIN node \ Leaves \subseteq DOMAIN node' \ Leaves'
  BY DEF WorkerStep, Grows, Leaves
<1>2. ASSUME NEW v \in Workers \ {w}
      PROVE  Placed(v)' /\ Holds(v)' = Holds(v)
  <2>1. th'[v] = th[v] /\ call'[v] = call[v]
    BY DEF WorkerStep, Others
  <2>2. Knows(v) /\ Splits(v) /\ Releases(v)
    BY DEF IInv, Placed
  <2>3. Knows(v)'
    BY <1>1, <2>1, <2>2 DEF Knows
  <2>4. Splits(v)'
    BY <1>1, <2>1, <2>2 DEF Splits
  <2>5. Releases(v)'
    <3>1. ASSUME NEW s \in Seq(DOMAIN node) PROVE s \in Seq(DOMAIN node')
      BY <1>1
    <3> QED
      BY <2>1, <2>2, <3>1 DEF Releases
  <2> QED
    BY <2>1, <2>3, <2>4, <2>5 DEF Placed, Holds
<1>3. \A v \in Workers : Placed(v)'
  BY <1>2 DEF WorkerStep
<1>4. \A v \in Workers : Holds(v) \subseteq DOMAIN node
  BY HoldsNodes DEF IInv
<1>5. \A u, v \in Workers : u # v => Holds(u)' \cap Holds(v)' = {}
  <2>1. ASSUME NEW v \in Workers \ {w} PROVE Holds(w)' \cap Holds(v) = {}
    <3>1. \A n \in Holds(v) : n \in DOMAIN node /\ node[n].locked /\ n \notin Holds(w)
      BY <1>4 DEF IInv, LocksOwned
    <3> QED
      BY <3>1 DEF WorkerStep, LockStep
  <2>2. ASSUME NEW u \in Workers \ {w}, NEW v \in Workers \ {w}, u # v
        PROVE  Holds(u) \cap Holds(v) = {}
    BY <2>2 DEF IInv, LocksOwned
  <2> QED
    BY <1>2, <2>1, <2>2
<1>6. \A n \in DOMAIN node' : node'[n].locked <=> \E v \in Workers : n \in Holds(v)'
  <2> SUFFICES ASSUME NEW n \in DOMAIN node'
               PROVE  node'[n].locked <=> \E v \in Workers : n \in Holds(v)'
    OBVIOUS
  <2>1. CASE n \in Holds(w)'
    BY <2>1 DEF WorkerStep, LockStep
  <2>2. CASE n \in Holds(w) \ Holds(w)'
    <3>1. ~node'[n].locked
      BY <2>2 DEF WorkerStep, LockStep
    <3>2. \A v \in Workers \ {w} : n \notin Holds(v)
      BY <2>2 DEF IInv, LocksOwned
    <3> QED
      BY <1>2, <2>2, <3>1, <3>2
  <2>3. CASE n \notin Holds(w) \cup Holds(w)' /\ n \in DOMAIN node
    <3>1. node'[n].locked = node[n].locked
      BY <2>3 DEF WorkerStep, LockStep
    <3>2. node[n].locked <=> \E v \in Workers : n \in Holds(v)
      BY <2>3 DEF IInv, LocksOwned
    <3>3. (\E v \in Workers : n \in Holds(v)) <=> \E v \in Workers : n \in Holds(v)'
      BY <1>2, <2>3
    <3>4. node[n].locked \in BOOLEAN /\ node'[n].locked \in BOOLEAN
      BY <2>3 DEF WorkerStep, Grows, TreeFine, IInv, NodeFine, Nodes
    <3> QED
      BY <3>1, <3>2, <3>3, <3>4
  <2>4. CASE n \notin Holds(w)' /\ n \notin DOMAIN node
    <3>1. ~node'[n].locked
      BY <2>4 DEF WorkerStep, LockStep
    <3>2. \A v \in Workers \ {w} : n \notin Holds(v)'
      BY <1>2, <1>4, <2>4
    <3> QED
      BY <2>4, <3>1, <3>2
  <2> QED
    BY <2>1, <2>2, <2>3, <2>4
<1> QED
  BY <1>3, <1>5, <1>6 DEF IInv, WorkerStep, Grows, LocksOwned

-----------------------------------------------------------------------------
(* Steps that leave the tree alone.                                         *)

\* The places at which a worker holds no lock.
Loose == {"idle", "root", "lock"} \cup Descending \cup Reading

\* A step of one worker's variables.
LEMMA OneWorker ==
  ASSUME Threads, NEW w \in Workers, NEW r, DOMAIN r = Fields,
         th' = [th EXCEPT ![w] = r]
  PROVE  /\ th'[w] = r /\ DOMAIN th' = Workers
         /\ \A v \in Workers : DOMAIN th'[v] = Fields
         /\ \A v \in Workers \ {w} : th'[v] = th[v]
BY DEF Threads

\* A step without locks and without a change of the tree.
LEMMA LooseStep ==
  ASSUME IInv, NEW w \in Workers, UNCHANGED tree, Threads', Others(w), Placed(w)',
         th[w].pc \in Loose, th'[w].pc \in Loose
  PROVE  WorkerStep(w)
<1>1. node' = node /\ root' = root
  BY DEF tree
<1>2. Holds(w) = {} /\ Holds(w)' = {}
  BY DEF Holds, Loose, Descending, Reading
<1>3. Grows
  BY <1>1 DEF Grows, IInv, TreeFine, Leaves
<1>4. LockStep(w)
  <2>1. \A n \in DOMAIN node : node'[n].locked => node[n].locked
    BY <1>1
  <2> QED
    BY <1>1, <1>2 DEF LockStep
<1> QED
  BY <1>3, <1>4 DEF WorkerStep

\* A worker's record is that of before with other values, and no call ends.
LEMMA QuietStep ==
  ASSUME IInv, NEW w \in Workers, UNCHANGED tree, Silent, NEW r, DOMAIN r = Fields,
         th' = [th EXCEPT ![w] = r], th[w].pc \in Loose, r.pc \in Loose \ {"idle"},
         r.n \in DOMAIN node, r.next \in Leaves \cup {Null}, r.sib = Null,
         r.pc = "lock" => call[w].op \notin {"get", "scan"},
         r.pc \in {"childver", "nodelock", "nodever"} => r.kid \in DOMAIN node,
         r.pc \in Reading \cup {"lock"} => r.n \in Leaves,
         call[w] \in Map!Calls
  PROVE  WorkerStep(w)
<1>1. /\ th'[w] = r /\ DOMAIN th' = Workers
      /\ \A v \in Workers : DOMAIN th'[v] = Fields
      /\ \A v \in Workers \ {w} : th'[v] = th[v]
  BY OneWorker DEF IInv
<1>2. node' = node /\ root' = root /\ Leaves' = Leaves /\ call' = call /\ todo' = todo
  BY DEF tree, Silent, Leaves
<1>3. Threads'
  BY <1>1, <1>2 DEF IInv, Threads
<1>4. Others(w)
  BY <1>1, <1>2 DEF Others
<1>5. Knows(w)'
  BY <1>1, <1>2 DEF Knows, Loose, Descending, Reading, Writing, Splitting, Releasing
<1>6. Splits(w)'
  BY <1>1, <1>2 DEF Splits, Loose, Descending, Reading, Splitting
<1>7. Releases(w)'
  BY <1>1, <1>2 DEF Releases, Loose, Descending, Reading, Releasing
<1> QED
  BY <1>1, <1>3, <1>4, <1>5, <1>6, <1>7, LooseStep DEF Placed

\* What is known of a worker on its way to a leaf.
LEMMA LooseFacts ==
  ASSUME IInv, NEW w \in Workers
  PROVE  /\ DOMAIN th[w] = Fields /\ th[w].next \in Leaves \cup {Null}
         /\ th[w].pc \in {"root"} \cup Descending \cup Reading \cup Writing =>
              call[w] \in Map!Calls /\ th[w].sib = Null
         /\ th[w].pc \in Descending => th[w].n \in DOMAIN node
         /\ th[w].pc \in {"childver", "nodelock", "nodever"} => th[w].kid \in DOMAIN node
         /\ th[w].pc \in Reading \cup Writing => th[w].n \in Leaves /\ th[w].n \in DOMAIN node
BY DEF IInv, Threads, Placed, Knows, Leaves

\* A call goes on from a leaf according to its operation.
LEMMA AtLeafFacts ==
  ASSUME NEW w
  PROVE  /\ AtLeaf(w) \in {"search", "copy", "lock"}
         /\ AtLeaf(w) = "lock" => call[w].op \notin {"get", "scan"}
BY DEF AtLeaf

\* A node of the tree.
LEMMA NodeFacts ==
  ASSUME TreeFine, NEW n \in DOMAIN node
  PROVE  NodeFine(node[n], DOMAIN node, Leaves) /\ node[n] \in Nodes
BY DEF TreeFine, NodeFine

\* locate_leaf, down to a leaf (xindex_buffer_impl.h:158-192).
LEMMA DescentStep ==
  ASSUME IInv, NEW w \in Workers,
         \/ ReadRoot(w) \/ ReadRootVersion(w) \/ IsRoot(w) \/ FoundLeaf(w) \/ FindChild(w)
         \/ ReadChildVersion(w) \/ CheckNodeLock(w) \/ CheckNodeVersion(w)
  PROVE  WorkerStep(w)
<1> USE LooseFacts DEF Fields, Loose, Descending, Reading, Writing
<1>1. CASE ReadRoot(w)
  <2> DEFINE r == [th[w] EXCEPT !.pc = "rootver", !.n = root]
  <2>1. th[w].pc = "root" /\ UNCHANGED tree /\ Silent
    BY <1>1 DEF ReadRoot
  <2>2. th' = [th EXCEPT ![w] = r]
    BY <1>1 DEF ReadRoot, IInv, Threads
  <2>3. /\ DOMAIN r = Fields /\ r.pc = "rootver" /\ r.n = root /\ r.kid = th[w].kid
        /\ r.next = th[w].next /\ r.sib = th[w].sib
    OBVIOUS
  <2>4. root \in DOMAIN node
    BY DEF IInv, TreeFine
  <2> HIDE DEF r
  <2> QED
    BY <2>1, <2>2, <2>3, <2>4, QuietStep
<1>2. CASE ReadRootVersion(w)
  <2> DEFINE r == [th[w] EXCEPT !.pc = "isroot", !.ver = N(w).ver]
  <2>1. th[w].pc = "rootver" /\ UNCHANGED tree /\ Silent
    BY <1>2 DEF ReadRootVersion
  <2>2. th' = [th EXCEPT ![w] = r]
    BY <1>2 DEF ReadRootVersion, IInv, Threads
  <2>3. /\ DOMAIN r = Fields /\ r.pc = "isroot" /\ r.n = th[w].n /\ r.kid = th[w].kid
        /\ r.next = th[w].next /\ r.sib = th[w].sib
    OBVIOUS
  <2> HIDE DEF r
  <2> QED
    BY <2>1, <2>2, <2>3, QuietStep
<1>3. CASE IsRoot(w)
  <2> DEFINE l == IF N(w).parent # Null THEN "root" ELSE "child"
             r == [th[w] EXCEPT !.pc = l]
  <2>1. th[w].pc = "isroot" /\ UNCHANGED tree /\ Silent
    BY <1>3 DEF IsRoot, Step
  <2>2. th' = [th EXCEPT ![w] = r]
    BY <1>3 DEF IsRoot, Step, Goto, IInv, Threads
  <2>3. /\ DOMAIN r = Fields /\ r.pc = l /\ r.n = th[w].n /\ r.kid = th[w].kid
        /\ r.next = th[w].next /\ r.sib = th[w].sib
    OBVIOUS
  <2> HIDE DEF r
  <2> QED
    BY <2>1, <2>2, <2>3, QuietStep
<1>4. CASE FoundLeaf(w)
  <2> DEFINE r == [th[w] EXCEPT !.pc = AtLeaf(w)]
  <2>1. th[w].pc = "child" /\ UNCHANGED tree /\ Silent
    BY <1>4 DEF FoundLeaf, Step
  <2>2. th' = [th EXCEPT ![w] = r]
    BY <1>4 DEF FoundLeaf, Step, Goto, IInv, Threads
  <2>3. /\ DOMAIN r = Fields /\ r.pc = AtLeaf(w) /\ r.n = th[w].n /\ r.kid = th[w].kid
        /\ r.next = th[w].next /\ r.sib = th[w].sib
    OBVIOUS
  <2>4. /\ AtLeaf(w) \in {"search", "copy", "lock"}
        /\ AtLeaf(w) = "lock" => call[w].op \notin {"get", "scan"}
    BY AtLeafFacts
  <2>5. th[w].n \in Leaves
    BY <1>4 DEF FoundLeaf, Leaves, N
  <2> HIDE DEF r
  <2> QED
    BY <2>1, <2>2, <2>3, <2>4, <2>5, QuietStep
<1>5. CASE FindChild(w)
  <2> DEFINE C == IF N(w).torn # {} THEN N(w).torn
                  ELSE {ChildOf(th[w].n, Key(w))}
  <2>1. PICK c \in C : th' = [th EXCEPT ![w].pc = "childver", ![w].kid = c]
    BY <1>5 DEF FindChild
  <2>2. th[w].pc = "child" /\ ~N(w).leaf /\ UNCHANGED tree /\ Silent
    BY <1>5 DEF FindChild
  <2>3. C \subseteq DOMAIN node
    <3>1. NodeFine(N(w), DOMAIN node, Leaves) /\ N(w) \in Nodes
      BY <2>2, NodeFacts DEF IInv, N
    <3>2. FirstLarger(N(w).keys, Key(w)) \in 0..Len(N(w).keys)
      BY <3>1, RankFacts DEF Nodes
    <3>3. N(w).kids \in Seq(DOMAIN node) /\ Len(N(w).kids) = Len(N(w).keys) + 1
          /\ N(w).torn \subseteq DOMAIN node /\ Len(N(w).keys) \in Nat
      BY <2>2, <3>1 DEF NodeFine, Nodes
    <3>4. ChildOf(th[w].n, Key(w)) \in DOMAIN node
      BY <3>2, <3>3 DEF ChildOf, N
    <3> QED
      BY <3>3, <3>4
  <2> DEFINE r == [th[w] EXCEPT !.pc = "childver", !.kid = c]
  <2>4. th' = [th EXCEPT ![w] = r]
    BY <2>1 DEF IInv, Threads
  <2>5. c \in DOMAIN node
    BY <2>3
  <2>6. /\ DOMAIN r = Fields /\ r.pc = "childver" /\ r.n = th[w].n /\ r.kid = c
        /\ r.next = th[w].next /\ r.sib = th[w].sib
    OBVIOUS
  <2> HIDE DEF C, r
  <2> QED
    BY <2>2, <2>4, <2>5, <2>6, QuietStep
<1>6. CASE ReadChildVersion(w)
  <2> DEFINE r == [th[w] EXCEPT !.pc = "nodelock", !.kver = node[th[w].kid].ver]
  <2>1. th[w].pc = "childver" /\ UNCHANGED tree /\ Silent
    BY <1>6 DEF ReadChildVersion
  <2>2. th' = [th EXCEPT ![w] = r]
    BY <1>6 DEF ReadChildVersion, IInv, Threads
  <2>3. /\ DOMAIN r = Fields /\ r.pc = "nodelock" /\ r.n = th[w].n /\ r.kid = th[w].kid
        /\ r.next = th[w].next /\ r.sib = th[w].sib
    OBVIOUS
  <2> HIDE DEF r
  <2> QED
    BY <2>1, <2>2, <2>3, QuietStep
<1>7. CASE CheckNodeLock(w)
  <2> DEFINE l == IF N(w).locked THEN "root" ELSE "nodever"
             r == [th[w] EXCEPT !.pc = l]
  <2>1. th[w].pc = "nodelock" /\ UNCHANGED tree /\ Silent
    BY <1>7 DEF CheckNodeLock, Step
  <2>2. th' = [th EXCEPT ![w] = r]
    BY <1>7 DEF CheckNodeLock, Step, Goto, IInv, Threads
  <2>3. /\ DOMAIN r = Fields /\ r.pc = l /\ r.n = th[w].n /\ r.kid = th[w].kid
        /\ r.next = th[w].next /\ r.sib = th[w].sib
    OBVIOUS
  <2> HIDE DEF r
  <2> QED
    BY <2>1, <2>2, <2>3, QuietStep
<1>8. CASE CheckNodeVersion(w)
  <2>1. CASE N(w).ver # th[w].ver
    <3> DEFINE r == [th[w] EXCEPT !.pc = "root"]
    <3>1. th[w].pc = "nodever" /\ UNCHANGED tree /\ Silent
      BY <1>8, <2>1 DEF CheckNodeVersion
    <3>2. th' = [th EXCEPT ![w] = r]
      BY <1>8, <2>1 DEF CheckNodeVersion, IInv, Threads
    <3>3. /\ DOMAIN r = Fields /\ r.pc = "root" /\ r.n = th[w].n /\ r.kid = th[w].kid
          /\ r.next = th[w].next /\ r.sib = th[w].sib
      OBVIOUS
    <3> HIDE DEF r
    <3> QED
      BY <3>1, <3>2, <3>3, QuietStep
  <2>2. CASE N(w).ver = th[w].ver
    <3> DEFINE r == [th[w] EXCEPT !.pc = "child", !.n = th[w].kid, !.ver = th[w].kver]
    <3>1. th[w].pc = "nodever" /\ UNCHANGED tree /\ Silent
      BY <1>8, <2>2 DEF CheckNodeVersion
    <3>2. th' = [th EXCEPT ![w] = r]
      BY <1>8, <2>2 DEF CheckNodeVersion, IInv, Threads
    <3>3. /\ DOMAIN r = Fields /\ r.pc = "child" /\ r.n = th[w].kid /\ r.kid = th[w].kid
          /\ r.next = th[w].next /\ r.sib = th[w].sib
      OBVIOUS
    <3> HIDE DEF r
    <3> QED
      BY <3>1, <3>2, <3>3, QuietStep
  <2> QED
    BY <2>1, <2>2
<1> QED
  BY <1>1, <1>2, <1>3, <1>4, <1>5, <1>6, <1>7, <1>8

\* A leaf, and the leaves to its right.
LEMMA NextFacts ==
  ASSUME TreeFine, NEW n \in Leaves
  PROVE  node[n].next \in Leaves \cup {Null}
<1>1. n \in DOMAIN node /\ node[n].leaf
  BY DEF Leaves
<1> QED
  BY <1>1, NodeFacts DEF NodeFine

\* A call ends, and the worker's record is that of an idle worker.
LEMMA ReturnFacts ==
  ASSUME IInv, NEW w \in Workers, NEW x, Return(w, x)
  PROVE  Threads' /\ Others(w) /\ Placed(w)' /\ th'[w] = Idle
<1>1. DOMAIN Idle = Fields
  BY DEF Idle, Fields
<1>2. /\ th' = [th EXCEPT ![w] = Idle] /\ todo' = todo
      /\ call' = [call EXCEPT ![w] = Map!NoCall]
  BY DEF Return, Map!Return
<1>3. /\ th'[w] = Idle /\ DOMAIN th' = Workers
      /\ \A v \in Workers : DOMAIN th'[v] = Fields
      /\ \A v \in Workers \ {w} : th'[v] = th[v]
  BY <1>1, <1>2, OneWorker DEF IInv
<1>4. Threads' /\ Others(w)
  BY <1>2, <1>3 DEF IInv, Threads, Others
<1>5. /\ Idle.pc = "idle" /\ Idle.n = Null /\ Idle.next = Null /\ Idle.sib = Null
  BY DEF Idle
<1>6. Placed(w)'
  BY <1>3, <1>5 DEF Placed, Knows, Splits, Releases, Descending, Reading, Writing, Splitting,
                    Releasing
<1> QED
  BY <1>3, <1>4, <1>6

\* What get and scan read in a leaf, and their way to the right (54-82, 700-790).
LEMMA ReadStep ==
  ASSUME IInv, NEW w \in Workers,
         \/ Reread(w) \/ FollowNext(w) \/ Search(w) \/ Read(w) \/ Copy(w) \/ CopyNext(w)
         \/ CheckLeafLock(w) \/ CheckLeafVersion(w) \/ ReadLeafVersion(w)
  PROVE  WorkerStep(w)
<1> USE LooseFacts DEF Fields, Loose, Descending, Reading, Writing
<1>1. CASE Reread(w)
  <2> DEFINE r == [th[w] EXCEPT !.pc = "next", !.ver = N(w).ver]
  <2>1. th[w].pc = "moved" /\ UNCHANGED tree /\ Silent
    BY <1>1 DEF Reread
  <2>2. th' = [th EXCEPT ![w] = r]
    BY <1>1 DEF Reread, IInv, Threads
  <2>3. /\ DOMAIN r = Fields /\ r.pc = "next" /\ r.n = th[w].n /\ r.kid = th[w].kid
        /\ r.next = th[w].next /\ r.sib = th[w].sib
    OBVIOUS
  <2> HIDE DEF r
  <2> QED
    BY <2>1, <2>2, <2>3, QuietStep
<1>2. CASE FollowNext(w)
  <2> DEFINE m == N(w).next
  <2>1. CASE m # Null /\ node[m].keys[1] <= Key(w)
    <3> DEFINE r == [th[w] EXCEPT !.pc = "moved", !.n = m]
    <3>1. th[w].pc = "next" /\ UNCHANGED tree /\ Silent
      BY <1>2, <2>1 DEF FollowNext
    <3>2. th' = [th EXCEPT ![w] = r]
      BY <1>2, <2>1 DEF FollowNext, IInv, Threads
    <3>3. /\ DOMAIN r = Fields /\ r.pc = "moved" /\ r.n = m /\ r.kid = th[w].kid
          /\ r.next = th[w].next /\ r.sib = th[w].sib
      OBVIOUS
    <3>4. m \in Leaves /\ m \in DOMAIN node
      <4>1. m \in Leaves \cup {Null}
        BY <3>1, NextFacts DEF N, IInv
      <4> QED
        BY <2>1, <4>1 DEF Leaves
    <3> HIDE DEF r, m
    <3> QED
      BY <3>1, <3>2, <3>3, <3>4, QuietStep
  <2>2. CASE ~(m # Null /\ node[m].keys[1] <= Key(w))
    <3> DEFINE r == [th[w] EXCEPT !.pc = AtLeaf(w)]
    <3>1. th[w].pc = "next" /\ UNCHANGED tree /\ Silent
      BY <1>2, <2>2 DEF FollowNext
    <3>2. th' = [th EXCEPT ![w] = r]
      BY <1>2, <2>2 DEF FollowNext, IInv, Threads
    <3>3. /\ DOMAIN r = Fields /\ r.pc = AtLeaf(w) /\ r.n = th[w].n /\ r.kid = th[w].kid
          /\ r.next = th[w].next /\ r.sib = th[w].sib
      OBVIOUS
    <3>4. /\ AtLeaf(w) \in {"search", "copy", "lock"}
          /\ AtLeaf(w) = "lock" => call[w].op \notin {"get", "scan"}
      BY AtLeafFacts
    <3> HIDE DEF r
    <3> QED
      BY <3>1, <3>2, <3>3, <3>4, QuietStep
  <2> QED
    BY <2>1, <2>2
<1>3. CASE Search(w)
  <2>1. th[w].pc = "search" /\ UNCHANGED tree /\ Silent
    BY <1>3 DEF Search
  <2>2. PICK s : th' = [th EXCEPT ![w].pc = "read", ![w].slot = s]
    BY <1>3 DEF Search
  <2> DEFINE r == [th[w] EXCEPT !.pc = "read", !.slot = s]
  <2>3. th' = [th EXCEPT ![w] = r]
    BY <2>2 DEF IInv, Threads
  <2>4. /\ DOMAIN r = Fields /\ r.pc = "read" /\ r.n = th[w].n /\ r.kid = th[w].kid
        /\ r.next = th[w].next /\ r.sib = th[w].sib
    OBVIOUS
  <2> HIDE DEF r
  <2> QED
    BY <2>1, <2>3, <2>4, QuietStep
<1>4. CASE Read(w)
  <2>1. th[w].pc = "read" /\ UNCHANGED tree /\ Silent
    BY <1>4 DEF Read
  <2>2. PICK v : th' = [th EXCEPT ![w].pc = "leaflock",
                                ![w].res = IF v = Removed THEN Absent ELSE v]
    BY <1>4 DEF Read
  <2> DEFINE r == [th[w] EXCEPT !.pc = "leaflock",
                             !.res = IF v = Removed THEN Absent ELSE v]
  <2>3. th' = [th EXCEPT ![w] = r]
    BY <2>2 DEF IInv, Threads
  <2>4. /\ DOMAIN r = Fields /\ r.pc = "leaflock" /\ r.n = th[w].n /\ r.kid = th[w].kid
        /\ r.next = th[w].next /\ r.sib = th[w].sib
    OBVIOUS
  <2> HIDE DEF r
  <2> QED
    BY <2>1, <2>3, <2>4, QuietStep
<1>5. CASE Copy(w)
  <2>1. th[w].pc = "copy" /\ UNCHANGED tree /\ Silent
    BY <1>5 DEF Copy
  <2>2. PICK p : th' = [th EXCEPT ![w].pc = "copynext", ![w].part = p]
    BY <1>5 DEF Copy
  <2> DEFINE r == [th[w] EXCEPT !.pc = "copynext", !.part = p]
  <2>3. th' = [th EXCEPT ![w] = r]
    BY <2>2 DEF IInv, Threads
  <2>4. /\ DOMAIN r = Fields /\ r.pc = "copynext" /\ r.n = th[w].n /\ r.kid = th[w].kid
        /\ r.next = th[w].next /\ r.sib = th[w].sib
    OBVIOUS
  <2> HIDE DEF r
  <2> QED
    BY <2>1, <2>3, <2>4, QuietStep
<1>6. CASE CopyNext(w)
  <2> DEFINE r == [th[w] EXCEPT !.pc = "leaflock", !.next = N(w).next]
  <2>1. th[w].pc = "copynext" /\ UNCHANGED tree /\ Silent
    BY <1>6 DEF CopyNext
  <2>2. th' = [th EXCEPT ![w] = r]
    BY <1>6 DEF CopyNext, IInv, Threads
  <2>3. /\ DOMAIN r = Fields /\ r.pc = "leaflock" /\ r.n = th[w].n /\ r.kid = th[w].kid
        /\ r.next = N(w).next /\ r.sib = th[w].sib
    OBVIOUS
  <2>4. N(w).next \in Leaves \cup {Null}
    BY <2>1, NextFacts DEF N, IInv
  <2> HIDE DEF r
  <2> QED
    BY <2>1, <2>2, <2>3, <2>4, QuietStep
<1>7. CASE CheckLeafLock(w)
  <2> DEFINE l == IF N(w).locked THEN Again(w) ELSE "leafcheck"
             r == [th[w] EXCEPT !.pc = l]
  <2>1. th[w].pc = "leaflock" /\ UNCHANGED tree /\ Silent
    BY <1>7 DEF CheckLeafLock, Step
  <2>2. th' = [th EXCEPT ![w] = r]
    BY <1>7 DEF CheckLeafLock, Step, Goto, IInv, Threads
  <2>3. /\ DOMAIN r = Fields /\ r.pc = l /\ r.n = th[w].n /\ r.kid = th[w].kid
        /\ r.next = th[w].next /\ r.sib = th[w].sib
    OBVIOUS
  <2>4. l \in {"moved", "leafver", "leafcheck"}
    BY DEF Again
  <2> HIDE DEF r, l
  <2> QED
    BY <2>1, <2>2, <2>3, <2>4, QuietStep
<1>8. CASE CheckLeafVersion(w)
  <2>0. th[w].pc = "leafcheck" /\ UNCHANGED tree
    BY <1>8 DEF CheckLeafVersion
  <2>1. CASE Goto(w, Again(w)) /\ Silent
    <3> DEFINE r == [th[w] EXCEPT !.pc = Again(w)]
    <3>1. th' = [th EXCEPT ![w] = r]
      BY <2>1 DEF Goto, IInv, Threads
    <3>2. /\ DOMAIN r = Fields /\ r.pc = Again(w) /\ r.n = th[w].n /\ r.kid = th[w].kid
          /\ r.next = th[w].next /\ r.sib = th[w].sib
      OBVIOUS
    <3>3. Again(w) \in {"moved", "leafver"}
      BY DEF Again
    <3> HIDE DEF r
    <3> QED
      BY <2>0, <2>1, <3>1, <3>2, <3>3, QuietStep
  <2>2. CASE \E x : Return(w, x)
    <3>1. PICK x : Return(w, x)
      BY <2>2
    <3>2. Threads' /\ Others(w) /\ Placed(w)' /\ th'[w] = Idle
      BY <3>1, ReturnFacts
    <3>3. Idle.pc = "idle"
      BY DEF Idle
    <3> QED
      BY <2>0, <3>2, <3>3, LooseStep
  <2>3. CASE /\ th[w].next # Null /\ Silent
             /\ th' = [th EXCEPT ![w].pc = "leafver", ![w].n = th[w].next,
                         ![w].out = @ \o th[w].part, ![w].first = FALSE]
    <3> DEFINE r == [th[w] EXCEPT !.pc = "leafver", !.n = th[w].next,
                                 !.out = @ \o th[w].part, !.first = FALSE]
    <3>1. th' = [th EXCEPT ![w] = r]
      BY <2>3 DEF IInv, Threads
    <3>2. /\ DOMAIN r = Fields /\ r.pc = "leafver" /\ r.n = th[w].next
          /\ r.kid = th[w].kid /\ r.next = th[w].next /\ r.sib = th[w].sib
      OBVIOUS
    <3>3. th[w].next \in Leaves /\ th[w].next \in DOMAIN node
      BY <2>3 DEF Leaves
    <3> HIDE DEF r
    <3> QED
      BY <2>0, <2>3, <3>1, <3>2, <3>3, QuietStep
  <2> QED
    BY <1>8, <2>1, <2>2, <2>3 DEF CheckLeafVersion
<1>9. CASE ReadLeafVersion(w)
  <2> DEFINE r == [th[w] EXCEPT !.pc = "copy", !.ver = N(w).ver]
  <2>1. th[w].pc = "leafver" /\ UNCHANGED tree /\ Silent
    BY <1>9 DEF ReadLeafVersion
  <2>2. th' = [th EXCEPT ![w] = r]
    BY <1>9 DEF ReadLeafVersion, IInv, Threads
  <2>3. /\ DOMAIN r = Fields /\ r.pc = "copy" /\ r.n = th[w].n /\ r.kid = th[w].kid
        /\ r.next = th[w].next /\ r.sib = th[w].sib
    OBVIOUS
  <2> HIDE DEF r
  <2> QED
    BY <2>1, <2>2, <2>3, QuietStep
<1> QED
  BY <1>1, <1>2, <1>3, <1>4, <1>5, <1>6, <1>7, <1>8, <1>9

-----------------------------------------------------------------------------
(* Steps that change nodes or locks.                                        *)

\* A step in which the worker's call goes on.
LEMMA QuietThreads ==
  ASSUME IInv, NEW w \in Workers, NEW r, DOMAIN r = Fields, th' = [th EXCEPT ![w] = r],
         Silent
  PROVE  Threads' /\ Others(w) /\ th'[w] = r /\ call' = call
<1>1. /\ th'[w] = r /\ DOMAIN th' = Workers
      /\ \A v \in Workers : DOMAIN th'[v] = Fields
      /\ \A v \in Workers \ {w} : th'[v] = th[v]
  BY OneWorker DEF IInv
<1>2. call' = call /\ todo' = todo
  BY DEF Silent
<1> QED
  BY <1>1, <1>2 DEF IInv, Threads, Others

\* A step in which the call takes effect.
LEMMA EffectThreads ==
  ASSUME IInv, NEW w \in Workers, NEW r, DOMAIN r = Fields, th' = [th EXCEPT ![w] = r],
         NEW x \in {"ok", "failed"}, call' = [call EXCEPT ![w] = Map!Done(x)], todo' = todo
  PROVE  Threads' /\ Others(w) /\ th'[w] = r /\ call'[w].op = "done"
<1>1. /\ th'[w] = r /\ DOMAIN th' = Workers
      /\ \A v \in Workers : DOMAIN th'[v] = Fields
      /\ \A v \in Workers \ {w} : th'[v] = th[v]
  BY OneWorker DEF IInv
<1>2. /\ call'[w] = Map!Done(x)
      /\ call' \in [Workers -> Map!Calls \cup {Map!NoCall, Map!Done("ok"), Map!Done("failed")}]
      /\ \A v \in Workers \ {w} : call'[v] = call[v]
  BY DEF IInv, Threads
<1>3. Map!Done(x).op = "done"
  BY DEF Map!Done
<1> QED
  BY <1>1, <1>2, <1>3 DEF IInv, Threads, Others

\* Where the nodes are.
LEMMA NodeSeq ==
  ASSUME TreeFine
  PROVE  Len(node) \in Nat /\ DOMAIN node = 1..Len(node) /\ 0 \notin DOMAIN node
         /\ node = [n \in 1..Len(node) |-> node[n]]
BY DEF TreeFine

\* All nodes are rewritten where they are.
LEMMA NodesChange ==
  ASSUME TreeFine, node' = [n \in 1..Len(node) |-> node'[n]], root' \in DOMAIN node,
         \A n \in DOMAIN node : /\ NodeFine(node'[n], DOMAIN node, Leaves)
                                /\ node'[n].leaf = node[n].leaf
  PROVE  Grows /\ DOMAIN node' = DOMAIN node /\ Leaves' = Leaves
<1>1. Len(node) \in Nat /\ DOMAIN node = 1..Len(node)
  BY NodeSeq
<1>2. DOMAIN node' = 1..Len(node)
  OBVIOUS
<1>3. \A n \in 1..Len(node) : node'[n] \in Nodes
  BY <1>1 DEF NodeFine
<1>4. node' \in [1..Len(node) -> Nodes]
  BY <1>3
<1>5. node' \in Seq(Nodes)
  BY <1>1, <1>4
<1>6. Leaves' = Leaves
  BY <1>1, <1>2 DEF Leaves
<1> QED
  BY <1>1, <1>2, <1>5, <1>6 DEF Grows, TreeFine

\* One node is rewritten.
LEMMA OneNode ==
  ASSUME TreeFine, NEW n \in DOMAIN node, NEW x, NodeFine(x, DOMAIN node, Leaves),
         x.leaf = node[n].leaf, node' = [node EXCEPT ![n] = x], root' = root
  PROVE  /\ Grows /\ DOMAIN node' = DOMAIN node /\ Leaves' = Leaves /\ node'[n] = x
         /\ \A m \in DOMAIN node : m # n => node'[m] = node[m]
<1>1. DOMAIN node = 1..Len(node) /\ root' \in DOMAIN node
  BY NodeSeq DEF TreeFine
<1>2. node'[n] = x /\ \A m \in DOMAIN node : m # n => node'[m] = node[m]
  BY <1>1
<1>3. node' = [m \in 1..Len(node) |-> node'[m]]
  BY <1>1
<1>4. \A m \in DOMAIN node : /\ NodeFine(node'[m], DOMAIN node, Leaves)
                             /\ node'[m].leaf = node[m].leaf
  BY <1>2, NodeFacts
<1> QED
  BY <1>1, <1>2, <1>3, <1>4, NodesChange

\* A node is locked or unlocked.
LEMMA LockSet ==
  ASSUME TreeFine, NEW n \in DOMAIN node, NEW b \in BOOLEAN,
         node' = [node EXCEPT ![n].locked = b], root' = root
  PROVE  /\ Grows /\ DOMAIN node' = DOMAIN node /\ Leaves' = Leaves /\ node'[n].locked = b
         /\ \A m \in DOMAIN node : m # n => node'[m] = node[m]
<1> DEFINE x == [node[n] EXCEPT !.locked = b]
<1>1. node' = [node EXCEPT ![n] = x]
  OBVIOUS
<1>2. NodeFine(node[n], DOMAIN node, Leaves) /\ node[n] \in Nodes
  BY NodeFacts
<1>3. x \in Nodes /\ x.locked = b /\ x.leaf = node[n].leaf /\ x.keys = node[n].keys
      /\ x.vals = node[n].vals /\ x.kids = node[n].kids /\ x.next = node[n].next
      /\ x.parent = node[n].parent /\ x.torn = node[n].torn
  BY <1>2 DEF Nodes
<1> HIDE DEF x
<1>4. NodeFine(x, DOMAIN node, Leaves)
  BY <1>2, <1>3 DEF NodeFine
<1> QED
  BY <1>1, <1>3, <1>4, OneNode

\* A sequence with one more element.
LEMMA AppendFacts ==
  ASSUME NEW k \in Nat, NEW f, f = [n \in 1..k |-> f[n]], NEW x
  PROVE  LET g == Append(f, x)
         IN  /\ g = [n \in 1..k + 1 |-> g[n]] /\ DOMAIN g = 1..k + 1
             /\ g[k + 1] = x /\ \A n \in 1..k : g[n] = f[n]
<1> DEFINE S == {f[n] : n \in 1..k} \cup {x}
           g == Append(f, x)
<1>1. \A n \in 1..k : f[n] \in S
  OBVIOUS
<1>2. x \in S
  OBVIOUS
<1> HIDE DEF S
<1>3. f \in [1..k -> S]
  BY <1>1
<1>4. f \in Seq(S) /\ Len(f) = k
  BY <1>3
<1>5. /\ g \in Seq(S) /\ Len(g) = k + 1 /\ g[k + 1] = x /\ \A n \in 1..k : g[n] = f[n]
  BY <1>2, <1>4
<1> HIDE DEF g
<1>6. DOMAIN g = 1..k + 1 /\ g = [n \in 1..k + 1 |-> g[n]]
  BY <1>5
<1> QED
  BY <1>5, <1>6 DEF g

\* All nodes are rewritten where they are, and one is allocated.
LEMMA NodesAppend ==
  ASSUME TreeFine, root' \in DOMAIN node, node' = [n \in 1..Len(node) + 1 |-> node'[n]],
         \A n \in DOMAIN node : node'[n].leaf = node[n].leaf,
         \A n \in DOMAIN node' : NodeFine(node'[n], DOMAIN node', Leaves')
  PROVE  Grows
<1>1. Len(node) \in Nat /\ DOMAIN node = 1..Len(node) /\ DOMAIN node' = 1..Len(node) + 1
  BY NodeSeq
<1>2. \A n \in 1..Len(node) + 1 : node'[n] \in Nodes
  BY <1>1 DEF NodeFine
<1>3. node' \in [1..Len(node) + 1 -> Nodes]
  BY <1>2
<1>4. node' \in Seq(Nodes)
  <2>1. Len(node) + 1 \in Nat
    BY <1>1
  <2> QED
    BY <1>3, <2>1
<1>5. TreeFine'
  BY <1>1, <1>4 DEF TreeFine
<1> QED
  BY <1>1, <1>5 DEF Grows

\* A worker is told what it knows.
LEMMA PlacedSplitting ==
  ASSUME NEW w, call'[w].op = "done", th'[w].pc \in Splitting, th'[w].n \in DOMAIN node',
         th'[w].next \in Leaves' \cup {Null}, th'[w].sib \in DOMAIN node', th'[w].sib # Null,
         th'[w].n # th'[w].sib, th'[w].split \in Keys,
         th'[w].pc = "link" => th'[w].n \in Leaves' /\ th'[w].sib \in Leaves',
         th'[w].pc \in {"lockparent", "checkparent", "insertparent", "setroot"} =>
           th'[w].parent \in DOMAIN node' \ Leaves',
         th'[w].pc \in {"checkparent", "insertparent", "setroot"} =>
           th'[w].parent \notin {th'[w].n, th'[w].sib}
  PROVE  Placed(w)'
<1>1. Knows(w)'
  BY DEF Knows, Splitting, Descending, Reading, Writing, Releasing
<1>2. Splits(w)'
  BY DEF Splits, Splitting
<1>3. Releases(w)'
  BY DEF Releases, Releasing, Splitting
<1> QED
  BY <1>1, <1>2, <1>3 DEF Placed

\* The same of a worker that releases locks,
LEMMA PlacedReleasing ==
  ASSUME NEW w, call'[w].op = "done", th'[w].pc \in Releasing, th'[w].n \in DOMAIN node',
         th'[w].next \in Leaves' \cup {Null}, Releases(w)',
         th'[w].sib # Null => /\ th'[w].sib \in DOMAIN node' /\ th'[w].n # th'[w].sib
                              /\ th'[w].split \in Keys
  PROVE  Placed(w)'
<1>1. Knows(w)'
  BY DEF Knows, Splitting, Descending, Reading, Writing, Releasing
<1>2. Splits(w)'
  BY DEF Splits, Splitting, Releasing
<1> QED
  BY <1>1, <1>2 DEF Placed

\* and of one that has a leaf.
LEMMA PlacedLeaf ==
  ASSUME NEW w, call'[w] \in Map!Calls, th'[w].pc \in Writing \cup {"moved"},
         th'[w].n \in Leaves', th'[w].n \in DOMAIN node',
         th'[w].next \in Leaves' \cup {Null}, th'[w].sib = Null,
         call'[w].op \notin {"get", "scan"}
  PROVE  Placed(w)'
<1>1. Knows(w)'
  BY DEF Knows, Splitting, Descending, Reading, Writing, Releasing
<1>2. Splits(w)'
  BY DEF Splits, Splitting, Writing
<1>3. Releases(w)'
  BY DEF Releases, Releasing, Writing
<1> QED
  BY <1>1, <1>2, <1>3 DEF Placed

\* What a worker holds is locked.
LEMMA HeldFacts ==
  ASSUME IInv, NEW w \in Workers
  PROVE  \A n \in Holds(w) : n \in DOMAIN node /\ node[n].locked
BY HoldsNodes DEF IInv, LocksOwned

\* What is known of a worker that splits a node.
LEMMA SplitFacts ==
  ASSUME IInv, NEW w \in Workers, th[w].pc \in Splitting
  PROVE  /\ DOMAIN th[w] = Fields /\ call[w].op = "done" /\ th[w].next \in Leaves \cup {Null}
         /\ th[w].n \in DOMAIN node /\ th[w].sib \in DOMAIN node /\ th[w].n # th[w].sib
         /\ th[w].sib # Null /\ th[w].split \in Keys
         /\ th[w].n \in Holds(w) /\ th[w].sib \in Holds(w)
<1>1. Knows(w) /\ Splits(w) /\ DOMAIN th[w] = Fields
  BY DEF IInv, Placed, Threads
<1>2. th[w].n \in Holds(w) /\ th[w].sib \in Holds(w)
  BY DEF Holds, Splitting
<1>3. call[w].op = "done" /\ th[w].next \in Leaves \cup {Null}
  BY <1>1 DEF Knows
<1> QED
  BY <1>1, <1>2, <1>3 DEF Splits

\* A call begins.
LEMMA BeginStep ==
  ASSUME IInv, NEW w \in Workers, Begin(w)
  PROVE  WorkerStep(w)
<1> DEFINE r == [Idle EXCEPT !.pc = "root"]
<1>1. DOMAIN r = Fields /\ r.pc = "root" /\ r.n = Null /\ r.next = Null /\ r.sib = Null
  BY DEF Idle, Fields
<1>2. th' = [th EXCEPT ![w] = r] /\ UNCHANGED tree
  BY DEF Begin
<1> HIDE DEF r
<1>3. /\ th'[w] = r /\ DOMAIN th' = Workers
      /\ \A v \in Workers : DOMAIN th'[v] = Fields
      /\ \A v \in Workers \ {w} : th'[v] = th[v]
  BY <1>1, <1>2, OneWorker DEF IInv
<1>4. /\ call'[w] \in Map!Calls /\ todo' \in [Workers -> Seq(Map!Calls)]
      /\ call' \in [Workers -> Map!Calls \cup {Map!NoCall, Map!Done("ok"), Map!Done("failed")}]
      /\ \A v \in Workers \ {w} : call'[v] = call[v]
  <2>1. todo[w] \in Seq(Map!Calls) /\ todo[w] # <<>>
    BY DEF Begin, IInv, Threads
  <2>2. Head(todo[w]) \in Map!Calls /\ Tail(todo[w]) \in Seq(Map!Calls)
    BY <2>1
  <2> QED
    BY <2>2 DEF Begin, IInv, Threads
<1>5. Threads' /\ Others(w)
  BY <1>3, <1>4 DEF Threads, Others
<1>6. th[w].pc \in Loose
  <2>1. call[w] = Map!NoCall /\ Map!NoCall.op = "none"
    BY DEF Begin, Map!NoCall
  <2>2. call[w] \notin Map!Calls /\ call[w].op # "done"
    BY <2>1, CallFacts
  <2> QED
    BY <2>2 DEF IInv, Placed, Knows, Loose
<1>7. Leaves' = Leaves /\ node' = node
  BY <1>2 DEF tree, Leaves
<1>8. Placed(w)'
  BY <1>1, <1>3, <1>4, <1>7 DEF Placed, Knows, Splits, Releases, Descending, Reading, Writing,
                                Splitting, Releasing
<1>9. th'[w].pc \in Loose
  BY <1>1, <1>3 DEF Loose
<1> QED
  BY <1>2, <1>5, <1>6, <1>8, <1>9, LooseStep

\* locate_leaf_locked (194-209).
LEMMA LockLeafStep ==
  ASSUME IInv, NEW w \in Workers, Lock(w) \/ CheckLocked(w)
  PROVE  WorkerStep(w)
<1> DEFINE n == th[w].n
<1>0. th[w].pc \in {"lock", "locked"}
  BY DEF Lock, CheckLocked
<1>1. /\ DOMAIN th[w] = Fields /\ n \in Leaves /\ n \in DOMAIN node /\ th[w].sib = Null
      /\ th[w].next \in Leaves \cup {Null} /\ call[w] \in Map!Calls
      /\ call[w].op \notin {"get", "scan"} /\ TreeFine
  BY <1>0, LooseFacts DEF Writing, IInv, Placed, Knows
<1>2. ASSUME NEW l \in Writing \cup {"moved"}, Goto(w, l), Silent, Grows,
             Leaves' = Leaves, DOMAIN node' = DOMAIN node
      PROVE  /\ Threads' /\ Others(w) /\ Placed(w)' /\ th'[w].pc = l /\ th'[w].n = n
  <2> DEFINE r == [th[w] EXCEPT !.pc = l]
  <2>1. th' = [th EXCEPT ![w] = r]
    BY <1>2 DEF Goto, IInv, Threads
  <2>2. /\ DOMAIN r = Fields /\ r.pc = l /\ r.n = n /\ r.sib = Null /\ r.next = th[w].next
    BY <1>1 DEF Fields
  <2> HIDE DEF r
  <2>3. Threads' /\ Others(w) /\ th'[w] = r /\ call' = call
    BY <1>2, <2>1, <2>2, QuietThreads
  <2>4. Placed(w)'
    BY <1>1, <1>2, <2>2, <2>3, PlacedLeaf
  <2> QED
    BY <2>2, <2>3, <2>4
<1>3. CASE Lock(w)
  <2>1. /\ Grows /\ DOMAIN node' = DOMAIN node /\ Leaves' = Leaves /\ node'[n].locked = TRUE
        /\ \A m \in DOMAIN node : m # n => node'[m] = node[m]
    BY <1>1, <1>3, LockSet DEF Lock
  <2>2. Threads' /\ Others(w) /\ Placed(w)' /\ th'[w].pc = "locked" /\ th'[w].n = n
    BY <1>2, <1>3, <2>1 DEF Lock, Writing
  <2>3. Holds(w) = {} /\ Holds(w)' = {n}
    BY <1>3, <2>2 DEF Lock, Holds
  <2>4. ~node[n].locked
    BY <1>3 DEF Lock, N
  <2>5. LockStep(w)
    BY <1>1, <2>1, <2>3, <2>4 DEF LockStep
  <2> QED
    BY <2>1, <2>2, <2>5 DEF WorkerStep
<1>4. CASE CheckLocked(w) /\ N(w).ver # th[w].ver
  <2>1. /\ Grows /\ DOMAIN node' = DOMAIN node /\ Leaves' = Leaves /\ node'[n].locked = FALSE
        /\ \A m \in DOMAIN node : m # n => node'[m] = node[m]
    BY <1>1, <1>4, LockSet DEF CheckLocked
  <2>2. Threads' /\ Others(w) /\ Placed(w)' /\ th'[w].pc = "moved" /\ th'[w].n = n
    BY <1>2, <1>4, <2>1 DEF CheckLocked
  <2>3. Holds(w) = {n} /\ Holds(w)' = {}
    BY <1>4, <2>2 DEF CheckLocked, Holds
  <2>5. LockStep(w)
    BY <1>1, <2>1, <2>3 DEF LockStep
  <2> QED
    BY <2>1, <2>2, <2>5 DEF WorkerStep
<1>5. CASE CheckLocked(w) /\ N(w).ver = th[w].ver
  <2>1. node' = node /\ root' = root
    BY <1>5 DEF CheckLocked
  <2>2. Grows /\ DOMAIN node' = DOMAIN node /\ Leaves' = Leaves
    BY <1>1, <2>1 DEF Grows, TreeFine, Leaves
  <2>3. Threads' /\ Others(w) /\ Placed(w)' /\ th'[w].pc = "apply" /\ th'[w].n = n
    BY <1>2, <1>5, <2>2 DEF CheckLocked, Writing
  <2>4. Holds(w) = {n} /\ Holds(w)' = {n} /\ node[n].locked
    <3>1. Holds(w) = {n} /\ Holds(w)' = {n}
      BY <1>5, <2>3 DEF CheckLocked, Holds
    <3> QED
      BY <3>1, HeldFacts
  <2>5. LockStep(w)
    BY <1>1, <2>1, <2>4 DEF LockStep
  <2> QED
    BY <2>2, <2>3, <2>5 DEF WorkerStep
<1> QED
  BY <1>3, <1>4, <1>5 DEF CheckLocked

\* A worker that splits goes on to another place, with the two halves it had.
LEMMA ParentPlaced ==
  ASSUME IInv, NEW w \in Workers, th[w].pc \in Splitting, Silent, Grows,
         NEW r, DOMAIN r = Fields, th' = [th EXCEPT ![w] = r], r.pc \in Splitting \ {"link"},
         r.n = th[w].n, r.sib = th[w].sib, r.next = th[w].next, r.split = th[w].split,
         r.pc \in {"lockparent", "checkparent", "insertparent", "setroot"} =>
           r.parent \in DOMAIN node' \ Leaves',
         r.pc \in {"checkparent", "insertparent", "setroot"} => r.parent \notin {r.n, r.sib}
  PROVE  Threads' /\ Others(w) /\ Placed(w)' /\ th'[w] = r
<1>1. /\ call[w].op = "done" /\ th[w].next \in Leaves \cup {Null}
      /\ th[w].n \in DOMAIN node /\ th[w].sib \in DOMAIN node /\ th[w].n # th[w].sib
      /\ th[w].sib # Null /\ th[w].split \in Keys
  BY SplitFacts
<1>2. Threads' /\ Others(w) /\ th'[w] = r /\ call' = call
  BY QuietThreads
<1>3. Leaves \subseteq Leaves' /\ DOMAIN node \subseteq DOMAIN node'
  BY DEF Grows, Leaves
<1>4. Placed(w)'
  BY <1>1, <1>2, <1>3, PlacedSplitting
<1> QED
  BY <1>2, <1>4

\* A split looks for its parent, and allocates a root if it has none.
LEMMA ReadParentStep ==
  ASSUME IInv, NEW w \in Workers, ReadParent(w)
  PROVE  WorkerStep(w)
<1> DEFINE p == N(w).parent
           l == IF p = Null THEN "newroot" ELSE "lockparent"
<1>1. th[w].pc = "parent" /\ th[w].pc \in Splitting /\ TreeFine
  BY DEF ReadParent, Splitting, IInv
<1> DEFINE r == [th[w] EXCEPT !.parent = p, !.pc = l]
<1>2. th' = [th EXCEPT ![w] = r] /\ Silent
  BY DEF ReadParent, IInv, Threads
<1>3. node' = node /\ root' = root /\ Leaves' = Leaves
  BY DEF ReadParent, tree, Leaves
<1>4. Grows
  BY <1>1, <1>3 DEF Grows, TreeFine
<1>5. p \in (DOMAIN node \ Leaves) \cup {Null}
  BY <1>1, SplitFacts, NodeFacts DEF NodeFine, N
<1>6. l \in {"newroot", "lockparent"} /\ (l = "lockparent" => p # Null)
  OBVIOUS
<1>r. /\ DOMAIN r = Fields /\ r.pc = l /\ r.n = th[w].n /\ r.sib = th[w].sib
      /\ r.next = th[w].next /\ r.split = th[w].split /\ r.parent = p
  BY <1>1, SplitFacts DEF Fields
<1> HIDE DEF p, l, r
<1>7. Threads' /\ Others(w) /\ Placed(w)' /\ th'[w] = r
  BY <1>1, <1>2, <1>3, <1>4, <1>5, <1>6, <1>r, ParentPlaced DEF Splitting
<1>8. Holds(w)' = Holds(w)
  BY <1>1, <1>6, <1>7, <1>r DEF Holds
<1>9. LockStep(w)
  BY <1>3, <1>8, HeldFacts DEF LockStep
<1> QED
  BY <1>4, <1>7, <1>9 DEF WorkerStep

\* The lock of a parent is taken, and given back if the node has another parent by now.
LEMMA LockParentStep ==
  ASSUME IInv, NEW w \in Workers, LockParent(w) \/ CheckParent(w)
  PROVE  WorkerStep(w)
<1> DEFINE p == th[w].parent
<1>0. th[w].pc \in {"lockparent", "checkparent"} /\ th[w].pc \in Splitting
  BY DEF LockParent, CheckParent, Splitting
<1>1. p \in DOMAIN node \ Leaves /\ TreeFine /\ DOMAIN th[w] = Fields
  BY <1>0, SplitFacts DEF IInv, Placed, Splits
<1>2. ASSUME NEW l \in {"parent", "checkparent", "insertparent"}, Goto(w, l), Silent, Grows,
             Leaves' = Leaves, DOMAIN node' = DOMAIN node,
             l \in {"checkparent", "insertparent"} => p \notin {th[w].n, th[w].sib}
      PROVE  /\ Threads' /\ Others(w) /\ Placed(w)' /\ th'[w].pc = l
             /\ th'[w].n = th[w].n /\ th'[w].sib = th[w].sib /\ th'[w].parent = p
  <2> DEFINE r == [th[w] EXCEPT !.pc = l]
  <2>1. th' = [th EXCEPT ![w] = r]
    BY <1>2 DEF Goto, IInv, Threads
  <2>2. /\ DOMAIN r = Fields /\ r.pc = l /\ r.n = th[w].n /\ r.sib = th[w].sib
        /\ r.next = th[w].next /\ r.split = th[w].split /\ r.parent = p
    BY <1>1 DEF Fields
  <2> HIDE DEF r, p
  <2>3. Threads' /\ Others(w) /\ Placed(w)' /\ th'[w] = r
    BY <1>0, <1>1, <1>2, <2>1, <2>2, ParentPlaced DEF Splitting
  <2> QED
    BY <2>2, <2>3
<1>3. CASE LockParent(w)
  <2>1. /\ Grows /\ DOMAIN node' = DOMAIN node /\ Leaves' = Leaves /\ node'[p].locked = TRUE
        /\ \A m \in DOMAIN node : m # p => node'[m] = node[m]
    BY <1>1, <1>3, LockSet DEF LockParent
  <2>2. ~node[p].locked /\ th[w].pc = "lockparent"
    BY <1>3 DEF LockParent
  <2>3. p \notin Holds(w) /\ p \notin {th[w].n, th[w].sib}
    BY <1>0, <2>2, HeldFacts, SplitFacts
  <2>4. /\ Threads' /\ Others(w) /\ Placed(w)' /\ th'[w].pc = "checkparent"
        /\ th'[w].n = th[w].n /\ th'[w].sib = th[w].sib /\ th'[w].parent = p
    BY <1>2, <1>3, <2>1, <2>3 DEF LockParent
  <2>5. Holds(w)' = Holds(w) \cup {p}
    BY <2>2, <2>4 DEF Holds
  <2>6. LockStep(w)
    BY <1>1, <2>1, <2>2, <2>3, <2>5, HeldFacts DEF LockStep
  <2> QED
    BY <2>1, <2>4, <2>6 DEF WorkerStep
<1>4. CASE CheckParent(w) /\ p # N(w).parent
  <2>1. /\ Grows /\ DOMAIN node' = DOMAIN node /\ Leaves' = Leaves /\ node'[p].locked = FALSE
        /\ \A m \in DOMAIN node : m # p => node'[m] = node[m]
    BY <1>1, <1>4, LockSet DEF CheckParent
  <2>2. th[w].pc = "checkparent" /\ p \notin {th[w].n, th[w].sib}
    BY <1>4 DEF CheckParent, IInv, Placed, Splits
  <2>4. /\ Threads' /\ Others(w) /\ Placed(w)' /\ th'[w].pc = "parent"
        /\ th'[w].n = th[w].n /\ th'[w].sib = th[w].sib
    BY <1>2, <1>4, <2>1 DEF CheckParent
  <2>5. Holds(w)' = Holds(w) \ {p} /\ p \in Holds(w)
    BY <2>2, <2>4 DEF Holds
  <2>6. LockStep(w)
    BY <1>1, <2>1, <2>5, HeldFacts DEF LockStep
  <2> QED
    BY <2>1, <2>4, <2>6 DEF WorkerStep
<1>5. CASE CheckParent(w) /\ p = N(w).parent
  <2>1. node' = node /\ root' = root /\ Leaves' = Leaves
    BY <1>5 DEF CheckParent, Leaves
  <2>2. Grows
    BY <1>1, <2>1 DEF Grows, TreeFine
  <2>3. th[w].pc = "checkparent" /\ p \notin {th[w].n, th[w].sib}
    BY <1>5 DEF CheckParent, IInv, Placed, Splits
  <2>4. /\ Threads' /\ Others(w) /\ Placed(w)' /\ th'[w].pc = "insertparent"
        /\ th'[w].n = th[w].n /\ th'[w].sib = th[w].sib /\ th'[w].parent = p
    BY <1>2, <1>5, <2>1, <2>2, <2>3 DEF CheckParent
  <2>5. Holds(w)' = Holds(w)
    BY <2>3, <2>4 DEF Holds
  <2>6. LockStep(w)
    BY <2>1, <2>5, HeldFacts DEF LockStep
  <2> QED
    BY <2>2, <2>4, <2>6 DEF WorkerStep
<1> QED
  BY <1>3, <1>4, <1>5 DEF CheckParent

\* What is known of a worker that applies its call to a leaf.
LEMMA ApplyFacts ==
  ASSUME IInv, NEW w \in Workers, th[w].pc = "apply"
  PROVE  /\ DOMAIN th[w] = Fields /\ th[w].n \in Leaves /\ th[w].n \in DOMAIN node
         /\ th[w].sib = Null /\ th[w].next \in Leaves \cup {Null} /\ TreeFine
         /\ Key(w) \in Keys /\ call[w].op \in {"remove", "put", "update"}
         /\ call[w].op \in {"put", "update"} => call[w].val \in Vals
         /\ Holds(w) = {th[w].n} /\ node[th[w].n].locked
<1>1. /\ DOMAIN th[w] = Fields /\ th[w].n \in Leaves /\ th[w].n \in DOMAIN node
      /\ th[w].sib = Null /\ th[w].next \in Leaves \cup {Null} /\ TreeFine
      /\ call[w] \in Map!Calls /\ call[w].op \notin {"get", "scan"}
  BY LooseFacts DEF Writing, IInv, Placed, Knows
<1>2. Holds(w) = {th[w].n}
  BY DEF Holds
<1>3. node[th[w].n].locked
  BY <1>2, HeldFacts
<1>4. /\ call[w].key \in Keys /\ call[w].op \in {"remove", "put", "update"}
      /\ call[w].op \in {"put", "update"} => call[w].val \in Vals
  BY <1>1, CallFacts
<1> QED
  BY <1>1, <1>2, <1>3, <1>4 DEF Key

\* The leaf was rewritten, and its lock is the one left to release.
LEMMA EffectStep ==
  ASSUME IInv, NEW w \in Workers, th[w].pc = "apply", NEW x \in {"ok", "failed"},
         NEW l \in Releasing, TakeEffect(w, x, l, <<th[w].n>>), Grows, Leaves' = Leaves,
         DOMAIN node' = DOMAIN node, node'[th[w].n].locked = node[th[w].n].locked,
         \A m \in DOMAIN node : m # th[w].n => node'[m] = node[m]
  PROVE  WorkerStep(w)
<1> DEFINE n == th[w].n
           r == [th[w] EXCEPT !.pc = l, !.held = <<n>>]
<1>1. /\ DOMAIN th[w] = Fields /\ n \in DOMAIN node /\ th[w].sib = Null
      /\ th[w].next \in Leaves \cup {Null} /\ Holds(w) = {n} /\ node[n].locked
  BY ApplyFacts
<1>2. /\ th' = [th EXCEPT ![w] = r] /\ call' = [call EXCEPT ![w] = Map!Done(x)]
      /\ todo' = todo
  BY DEF TakeEffect, IInv, Threads
<1>3. /\ DOMAIN r = Fields /\ r.pc = l /\ r.n = n /\ r.sib = Null /\ r.next = th[w].next
      /\ r.held = <<n>>
  BY <1>1 DEF Fields
<1> HIDE DEF r
<1>4. Threads' /\ Others(w) /\ th'[w] = r /\ call'[w].op = "done"
  BY <1>2, <1>3, EffectThreads
<1>5. /\ <<n>> \in Seq(DOMAIN node) /\ Len(<<n>>) = 1
  BY <1>1
<1>6. Range(<<n>>) = {n}
  BY DEF Range
<1>7. Placed(w)'
  <2>1. Releases(w)'
    <3> DEFINE h == <<n>>
    <3>1. h \in Seq(DOMAIN node') /\ Len(h) = 1
      BY <1>5
    <3> HIDE DEF h
    <3>2. th'[w].held = h /\ th'[w].sib = Null
      BY <1>3, <1>4 DEF h
    <3>3. Distinct(h)
      BY <3>1 DEF Distinct
    <3>4. Len(h) > 0
      BY <3>1
    <3> QED
      BY <3>1, <3>2, <3>3, <3>4, Zenon DEF Releases
  <2> QED
    BY <1>1, <1>3, <1>4, <2>1, PlacedReleasing
<1>8. Holds(w)' = {n}
  BY <1>3, <1>4, <1>6 DEF Holds, Releasing
<1>9. LockStep(w)
  BY <1>1, <1>8 DEF LockStep
<1> QED
  BY <1>4, <1>7, <1>9 DEF WorkerStep

\* update, remove, and insert over a live record.
LEMMA ChangeRecordStep ==
  ASSUME IInv, NEW w \in Workers, ChangeRecord(w)
  PROVE  WorkerStep(w)
<1> DEFINE n == th[w].n
           s == SlotOf(n, Key(w))
           live == s # 0 /\ node[n].vals[s] # Removed
           v == IF call[w].op = "remove" THEN Removed ELSE call[w].val
           x == [node[n] EXCEPT !.vals[s] = v]
<1>1. th[w].pc = "apply" /\ root' = root
  BY DEF ChangeRecord, TakeEffect
<1>2. /\ n \in Leaves /\ n \in DOMAIN node /\ TreeFine /\ v \in Vals \cup {Removed}
  BY <1>1, ApplyFacts
<1>3. NodeFine(node[n], DOMAIN node, Leaves) /\ node[n] \in Nodes
  BY <1>2, NodeFacts
<1>4. s \in 0..Len(node[n].vals)
  BY <1>2, SlotFacts
<1>5. CASE live
  <2>1. node' = [node EXCEPT ![n] = x] /\ TakeEffect(w, "ok", "unlock", <<n>>)
    BY <1>5 DEF ChangeRecord
  <2>2. /\ x \in Nodes /\ Len(x.vals) = Len(node[n].vals)
        /\ x.locked = node[n].locked /\ x.leaf = node[n].leaf /\ x.keys = node[n].keys
        /\ x.kids = node[n].kids /\ x.next = node[n].next
        /\ x.parent = node[n].parent /\ x.torn = node[n].torn
    <3>0. s \in 1..Len(node[n].vals)
      BY <1>4, <1>5
    <3> HIDE DEF v, s
    <3> DEFINE vs == [node[n].vals EXCEPT ![s] = v]
    <3>1. vs \in Seq(Vals \cup {Removed}) /\ Len(vs) = Len(node[n].vals)
      BY <1>2, <1>3, <3>0 DEF Nodes
    <3>2. x = [node[n] EXCEPT !.vals = vs]
      OBVIOUS
    <3> HIDE DEF vs
    <3> QED
      BY <1>3, <3>1, <3>2 DEF Nodes
  <2> HIDE DEF x
  <2>3. NodeFine(x, DOMAIN node, Leaves)
    BY <1>3, <2>2 DEF NodeFine
  <2>4. /\ Grows /\ DOMAIN node' = DOMAIN node /\ Leaves' = Leaves /\ node'[n] = x
        /\ \A m \in DOMAIN node : m # n => node'[m] = node[m]
    BY <1>1, <1>2, <2>1, <2>2, <2>3, OneNode
  <2> QED
    BY <1>1, <2>1, <2>2, <2>4, EffectStep DEF Releasing
<1>6. CASE ~live
  <2>1. node' = node /\ TakeEffect(w, "failed", "unlock", <<n>>)
    BY <1>6 DEF ChangeRecord
  <2>2. Grows /\ DOMAIN node' = DOMAIN node /\ Leaves' = Leaves
    BY <1>1, <1>2, <2>1 DEF Grows, TreeFine, Leaves
  <2> QED
    BY <1>1, <2>1, <2>2, EffectStep DEF Releasing
<1> QED
  BY <1>5, <1>6

\* insert_leaf over a removed record.
LEMMA OverwriteStep ==
  ASSUME IInv, NEW w \in Workers, Overwrite(w)
  PROVE  WorkerStep(w)
<1> DEFINE n == th[w].n
           s == SlotOf(n, Key(w))
           v == call[w].val
           vs == [node[n].vals EXCEPT ![s] = v]
           x == [node[n] EXCEPT !.vals = vs, !.torn = {Null}]
<1>1. th[w].pc = "apply" /\ root' = root /\ call[w].op = "put" /\ s # 0
  BY DEF Overwrite, TakeEffect
<1>2. /\ n \in Leaves /\ n \in DOMAIN node /\ TreeFine /\ v \in Vals \cup {Removed}
      /\ node[n].leaf
  BY <1>1, ApplyFacts DEF Leaves
<1>3. NodeFine(node[n], DOMAIN node, Leaves) /\ node[n] \in Nodes
  BY <1>2, NodeFacts
<1>4. s \in 1..Len(node[n].vals)
  <2>1. s \in 0..Len(node[n].vals)
    BY <1>2, SlotFacts
  <2> QED
    BY <1>1, <2>1
<1>5. node' = [node EXCEPT ![n] = x] /\ TakeEffect(w, "ok", "bump", <<n>>)
  BY <1>2 DEF Overwrite
<1> HIDE DEF s, v
<1>6. vs \in Seq(Vals \cup {Removed}) /\ Len(vs) = Len(node[n].vals)
  BY <1>2, <1>3, <1>4 DEF Nodes
<1> HIDE DEF vs
<1>7. /\ x \in Nodes /\ Len(x.vals) = Len(node[n].vals) /\ x.torn = {Null}
      /\ x.locked = node[n].locked /\ x.leaf = node[n].leaf /\ x.keys = node[n].keys
      /\ x.kids = node[n].kids /\ x.next = node[n].next /\ x.parent = node[n].parent
  <2>1. {Null} \in SUBSET Nat
    BY DEF Null
  <2> QED
    BY <1>3, <1>6, <2>1 DEF Nodes
<1> HIDE DEF x
<1>8. NodeFine(x, DOMAIN node, Leaves)
  BY <1>2, <1>3, <1>7 DEF NodeFine
<1>9. /\ Grows /\ DOMAIN node' = DOMAIN node /\ Leaves' = Leaves /\ node'[n] = x
      /\ \A m \in DOMAIN node : m # n => node'[m] = node[m]
  BY <1>1, <1>2, <1>5, <1>7, <1>8, OneNode
<1> QED
  BY <1>1, <1>5, <1>7, <1>9, EffectStep DEF Releasing

\* insert_leaf into a leaf with room for the key.
LEMMA InsertStep ==
  ASSUME IInv, NEW w \in Workers, Insert(w)
  PROVE  WorkerStep(w)
<1> DEFINE n == th[w].n
           i == FirstAtLeast(node[n].keys, Key(w)) + 1
           ks == InsertAt(node[n].keys, i, Key(w))
           vs == InsertAt(node[n].vals, i, call[w].val)
           x == [node[n] EXCEPT !.keys = ks, !.vals = vs, !.torn = {Null}]
<1>1. th[w].pc = "apply" /\ root' = root /\ call[w].op = "put" /\ ~IsFull(n)
  BY DEF Insert, TakeEffect
<1>2. /\ n \in Leaves /\ n \in DOMAIN node /\ TreeFine /\ node[n].leaf
      /\ call[w].val \in Vals \cup {Removed} /\ Key(w) \in Keys
  BY <1>1, ApplyFacts DEF Leaves
<1>3. NodeFine(node[n], DOMAIN node, Leaves) /\ node[n] \in Nodes
  BY <1>2, NodeFacts
<1>4. /\ node[n].keys \in Seq(Keys) /\ node[n].vals \in Seq(Vals \cup {Removed})
      /\ Len(node[n].vals) = Len(node[n].keys) /\ Len(node[n].keys) + 1 <= Capacity
      /\ Len(node[n].keys) \in Nat
  BY SMTT(30), <1>1, <1>2, <1>3, ConstantFacts DEF NodeFine, Nodes, IsFull
<1>5. i \in 1..Len(node[n].keys) + 1
  <2>1. FirstAtLeast(node[n].keys, Key(w)) \in 0..Len(node[n].keys)
    BY <1>4, RankFacts
  <2> QED
    BY <1>4, <2>1
<1>6. node' = [node EXCEPT ![n] = x] /\ TakeEffect(w, "ok", "bump", <<n>>)
  BY <1>2 DEF Insert
<1> HIDE DEF i
<1>7. ks \in Seq(Keys) /\ Len(ks) = Len(node[n].keys) + 1
  BY <1>2, <1>4, <1>5, InsertFacts
<1>8. vs \in Seq(Vals \cup {Removed}) /\ Len(vs) = Len(node[n].vals) + 1
  <2> DEFINE V == Vals \cup {Removed}
  <2>1. /\ i \in 1..Len(node[n].vals) + 1 /\ node[n].vals \in Seq(V) /\ call[w].val \in V
    BY <1>2, <1>4, <1>5
  <2> HIDE DEF V
  <2>2. vs \in Seq(V) /\ Len(vs) = Len(node[n].vals) + 1
    BY <2>1, InsertFacts
  <2> QED
    BY <2>2 DEF V
<1> HIDE DEF ks, vs
<1>9. /\ x \in Nodes /\ x.keys = ks /\ x.vals = vs /\ x.torn = {Null}
      /\ x.locked = node[n].locked /\ x.leaf = node[n].leaf
      /\ x.kids = node[n].kids /\ x.next = node[n].next /\ x.parent = node[n].parent
  <2>1. {Null} \in SUBSET Nat
    BY DEF Null
  <2> QED
    BY <1>3, <1>7, <1>8, <2>1 DEF Nodes
<1> HIDE DEF x
<1>10. NodeFine(x, DOMAIN node, Leaves)
  BY <1>2, <1>3, <1>4, <1>7, <1>8, <1>9 DEF NodeFine
<1>11. /\ Grows /\ DOMAIN node' = DOMAIN node /\ Leaves' = Leaves /\ node'[n] = x
       /\ \A m \in DOMAIN node : m # n => node'[m] = node[m]
  BY <1>1, <1>2, <1>6, <1>9, <1>10, OneNode
<1> QED
  BY <1>1, <1>6, <1>9, <1>11, EffectStep DEF Releasing

\* A node gets another parent, a leaf another one to its right.
LEMMA ParentFine ==
  ASSUME NEW r, NEW d, NEW l, NodeFine(r, d, l), d \subseteq Nat, NEW p \in (d \ l) \cup {Null}
  PROVE  LET x == [r EXCEPT !.parent = p]
         IN  NodeFine(x, d, l) /\ x.leaf = r.leaf /\ x.locked = r.locked
<1> DEFINE x == [r EXCEPT !.parent = p]
<1>1. r \in Nodes /\ p \in Nat
  BY DEF NodeFine, Null
<1>2. /\ x \in Nodes /\ x.parent = p /\ x.torn = r.torn
      /\ x.locked = r.locked /\ x.leaf = r.leaf /\ x.keys = r.keys /\ x.vals = r.vals
      /\ x.kids = r.kids /\ x.next = r.next
  BY <1>1 DEF Nodes
<1> HIDE DEF x
<1>3. NodeFine(x, d, l)
  BY <1>2 DEF NodeFine
<1> QED
  BY <1>2, <1>3 DEF x

\* A leaf gets another leaf to its right.
LEMMA NextFine ==
  ASSUME NEW r, NEW d, NEW l, NodeFine(r, d, l), l \subseteq Nat, NEW m \in l \cup {Null}
  PROVE  LET x == [r EXCEPT !.next = m]
         IN  NodeFine(x, d, l) /\ x.leaf = r.leaf /\ x.locked = r.locked
<1> DEFINE x == [r EXCEPT !.next = m]
<1>0. m \in Nat
  BY DEF Null
<1>1. r \in Nodes /\ m \in Nat
  BY <1>0 DEF NodeFine
<1>2. /\ x \in Nodes /\ x.next = m /\ x.torn = r.torn
      /\ x.locked = r.locked /\ x.leaf = r.leaf /\ x.keys = r.keys /\ x.vals = r.vals
      /\ x.kids = r.kids /\ x.parent = r.parent
  BY <1>1 DEF Nodes
<1> HIDE DEF x
<1>3. NodeFine(x, d, l)
  BY <1>2 DEF NodeFine
<1> QED
  BY <1>2, <1>3 DEF x

\* The sequences of a leaf that is split.
LEMMA LeafHalves ==
  ASSUME NEW S, NEW t \in Seq(S), Len(t) = Capacity + 1, NEW cut \in 1..Capacity
  PROVE  /\ SubSeq(t, 1, cut) \in Seq(S) /\ Len(SubSeq(t, 1, cut)) = cut
         /\ SubSeq(t, cut + 1, Capacity + 1) \in Seq(S)
         /\ Len(SubSeq(t, cut + 1, Capacity + 1)) = Capacity + 1 - cut
         /\ t[cut + 1] \in S
<1>1. Capacity \in Nat
  BY ConstantFacts
<1>2. t \in Seq(S) /\ Len(t) = Capacity + 1
  OBVIOUS
<1>3. SubSeq(t, 1, cut) \in Seq(S) /\ Len(SubSeq(t, 1, cut)) = cut
  <2>1. cut \in 0..Len(t) /\ 1 <= cut + 1 /\ cut - 1 + 1 = cut /\ 1 \in Nat \ {0}
    BY <1>1, <1>2
  <2> QED
    BY <1>2, <2>1, SubSeqFacts
<1>4. /\ SubSeq(t, cut + 1, Capacity + 1) \in Seq(S)
      /\ Len(SubSeq(t, cut + 1, Capacity + 1)) = Capacity + 1 - cut
  <2>1. /\ cut + 1 \in Nat \ {0} /\ Capacity + 1 \in 0..Len(t)
        /\ cut + 1 <= (Capacity + 1) + 1
        /\ (Capacity + 1) - (cut + 1) + 1 = Capacity + 1 - cut
    BY <1>1, <1>2
  <2> QED
    BY <1>2, <2>1, SubSeqFacts
<1>5. t[cut + 1] \in S
  <2>1. cut + 1 \in 1..Len(t)
    BY <1>1, <1>2
  <2> QED
    BY <1>2, <2>1
<1> QED
  BY <1>3, <1>4, <1>5

\* split_n_insert_leaf: the leaf keeps the lower half (257-316).
LEMMA SplitLeafStep ==
  ASSUME IInv, NEW w \in Workers, SplitLeaf(w)
  PROVE  WorkerStep(w)
<1> DEFINE n == th[w].n
           q == Len(node) + 1
           V == Vals \cup {Removed}
           slot == FirstAtLeast(node[n].keys, Key(w))
           at == slot + 1
           keys == InsertAt(node[n].keys, at, Key(w))
           vals == InsertAt(node[n].vals, at, call[w].val)
           cut == LeafCut(slot)
           lk == SubSeq(keys, 1, cut)
           lv == SubSeq(vals, 1, cut)
           rk == SubSeq(keys, cut + 1, Capacity + 1)
           rv == SubSeq(vals, cut + 1, Capacity + 1)
           sib == [Leaf(rk, rv, Null, Null) EXCEPT !.locked = TRUE]
           x == [node[n] EXCEPT !.keys = lk, !.vals = lv, !.torn = {Null}]
           f == [node EXCEPT ![n] = x]
           d == DOMAIN node \cup {q}
           l == Leaves \cup {q}
           r == [th[w] EXCEPT !.pc = "link", !.sib = q, !.split = keys[cut + 1]]
<1>1. th[w].pc = "apply" /\ root' = root /\ todo' = todo /\ call[w].op = "put" /\ IsFull(n)
      /\ call' = [call EXCEPT ![w] = Map!Done("ok")]
  BY DEF SplitLeaf
<1>2. /\ n \in Leaves /\ n \in DOMAIN node /\ TreeFine /\ node[n].leaf /\ DOMAIN th[w] = Fields
      /\ call[w].val \in V /\ Key(w) \in Keys /\ Holds(w) = {n} /\ node[n].locked
      /\ th[w].next \in Leaves \cup {Null} /\ root \in DOMAIN node
  BY <1>1, ApplyFacts DEF Leaves, TreeFine
<1>3. NodeFine(node[n], DOMAIN node, Leaves) /\ node[n] \in Nodes
  BY <1>2, NodeFacts
<1>4. /\ node[n].keys \in Seq(Keys) /\ node[n].vals \in Seq(V)
      /\ Len(node[n].vals) = Capacity /\ Len(node[n].keys) = Capacity /\ Capacity \in Nat
  BY <1>1, <1>2, <1>3, ConstantFacts DEF NodeFine, Nodes, IsFull
<1>5. slot \in 0..Capacity /\ cut \in 1..Capacity
  BY <1>4, RankFacts, CutFacts
<1>6. node' = Append(f, sib)
  BY <1>2 DEF SplitLeaf
<1>7. th' = [th EXCEPT ![w] = r]
  BY DEF SplitLeaf, IInv, Threads
<1>8. lk \in Seq(Keys) /\ Len(lk) = cut /\ rk \in Seq(Keys) /\ Len(rk) = Capacity + 1 - cut
      /\ keys[cut + 1] \in Keys
  <2>1. keys \in Seq(Keys) /\ Len(keys) = Capacity + 1
    <3>1. at \in 1..Len(node[n].keys) + 1
      BY <1>4, <1>5
    <3>2. node[n].keys \in Seq(Keys) /\ Key(w) \in Keys
      BY <1>2, <1>4
    <3> HIDE DEF at
    <3>3. keys \in Seq(Keys) /\ Len(keys) = Len(node[n].keys) + 1
      BY <3>1, <3>2, InsertFacts
    <3> HIDE DEF keys
    <3> QED
      BY <1>4, <3>3
  <2> HIDE DEF cut, slot, keys
  <2> QED
    BY <1>5, <2>1, LeafHalves
<1>9. lv \in Seq(V) /\ Len(lv) = cut /\ rv \in Seq(V) /\ Len(rv) = Capacity + 1 - cut
  <2> HIDE DEF V
  <2>1. vals \in Seq(V) /\ Len(vals) = Capacity + 1
    <3>1. at \in 1..Len(node[n].vals) + 1
      BY <1>4, <1>5
    <3>2. node[n].vals \in Seq(V) /\ call[w].val \in V
      BY <1>2, <1>4
    <3> HIDE DEF at
    <3>3. vals \in Seq(V) /\ Len(vals) = Len(node[n].vals) + 1
      BY <3>1, <3>2, InsertFacts
    <3> HIDE DEF vals
    <3> QED
      BY <1>4, <3>3
  <2> HIDE DEF cut, slot, vals
  <2> QED
    BY <1>5, <2>1, LeafHalves
<1>10. Len(node) \in Nat /\ DOMAIN node = 1..Len(node) /\ 0 \notin DOMAIN node /\ q \in Nat \ {0}
       /\ q \notin DOMAIN node /\ Leaves \subseteq DOMAIN node
  BY <1>2, NodeSeq DEF Leaves
<1>11. /\ DOMAIN r = Fields /\ r.pc = "link" /\ r.n = n /\ r.sib = q
       /\ r.split = keys[cut + 1] /\ r.next = th[w].next
  BY <1>2 DEF Fields
<1> HIDE DEF cut, slot, at, keys, vals, lk, lv, rk, rv, r, q
<1>12. {Null} \in SUBSET Nat /\ {} \in SUBSET Nat /\ Null \in Nat /\ Null = 0
  BY DEF Null
<1>13. /\ x \in Nodes /\ x.keys = lk /\ x.vals = lv /\ x.torn = {Null}
       /\ x.locked = node[n].locked /\ x.leaf = node[n].leaf
       /\ x.kids = node[n].kids /\ x.next = node[n].next /\ x.parent = node[n].parent
  BY <1>3, <1>8, <1>9, <1>12 DEF Nodes
<1>14. /\ sib \in Nodes /\ sib.keys = rk /\ sib.vals = rv /\ sib.torn = {} /\ sib.locked
       /\ sib.leaf /\ sib.next = Null /\ sib.parent = Null
  <2>1. <<>> \in Seq(Nat)
    OBVIOUS
  <2> QED
    BY <1>8, <1>9, <1>12, <2>1 DEF Nodes, Leaf
<1>15. f = [m \in 1..Len(node) |-> f[m]] /\ f[n] = x
       /\ \A m \in DOMAIN node : m # n => f[m] = node[m]
  BY <1>2, <1>10
<1> HIDE DEF x, sib, f
<1>16. NodeFine(x, DOMAIN node, Leaves)
  BY <1>2, <1>3, <1>4, <1>5, <1>8, <1>9, <1>13 DEF NodeFine
<1>17. \A m \in DOMAIN node : NodeFine(f[m], d, l) /\ f[m].leaf = node[m].leaf
  <2> SUFFICES ASSUME NEW m \in DOMAIN node
               PROVE  NodeFine(f[m], d, l) /\ f[m].leaf = node[m].leaf
    OBVIOUS
  <2>1. NodeFine(f[m], DOMAIN node, Leaves) /\ f[m].leaf = node[m].leaf
    BY <1>2, <1>13, <1>15, <1>16, NodeFacts
  <2>2. DOMAIN node \subseteq d /\ Leaves \subseteq l /\ DOMAIN node \ Leaves \subseteq d \ l
    BY <1>10
  <2> HIDE DEF d, l
  <2> QED
    BY <2>1, <2>2, FineGrows
<1>18. NodeFine(sib, d, l)
  BY <1>4, <1>5, <1>8, <1>9, <1>14 DEF NodeFine
<1>19. /\ Grows /\ DOMAIN node' = d /\ Leaves' = l
       /\ \A m \in DOMAIN node : node'[m] = f[m]
       /\ node'[q] = sib
  <2>1. /\ node' = [m \in 1..Len(node) + 1 |-> node'[m]] /\ DOMAIN node' = 1..Len(node) + 1
        /\ node'[q] = sib /\ \A m \in 1..Len(node) : node'[m] = f[m]
    BY <1>6, <1>10, <1>15, AppendFacts DEF q
  <2>2. DOMAIN node' = d
    BY <1>10, <2>1 DEF q
  <2>3. \A m \in DOMAIN node : node'[m] = f[m] /\ node'[m].leaf = node[m].leaf
    BY <1>10, <1>17, <2>1
  <2>4. Leaves' = l
    BY <1>10, <1>14, <2>1, <2>2, <2>3 DEF Leaves
  <2>5. \A m \in DOMAIN node' : NodeFine(node'[m], DOMAIN node', Leaves')
    <3> SUFFICES ASSUME NEW m \in d PROVE NodeFine(node'[m], d, l)
      BY <2>2, <2>4
    <3> QED
      BY <1>17, <1>18, <2>1, <2>3
  <2>6. Grows
    BY <1>1, <1>2, <2>1, <2>3, <2>5, NodesAppend
  <2> QED
    BY <2>1, <2>2, <2>3, <2>4, <2>6
<1>20. Threads' /\ Others(w) /\ th'[w] = r /\ call'[w].op = "done"
  BY <1>1, <1>7, <1>11, EffectThreads
<1>21. Placed(w)'
  BY <1>2, <1>8, <1>10, <1>11, <1>12, <1>19, <1>20, PlacedSplitting DEF Splitting
<1>22. Holds(w)' = {n, q}
  BY <1>11, <1>20 DEF Holds
<1>23. LockStep(w)
  <2>1. \A m \in DOMAIN node : m \notin {n, q} => node'[m].locked = node[m].locked
    BY <1>15, <1>19
  <2>2. node'[n].locked /\ node'[q].locked
    BY <1>2, <1>13, <1>14, <1>15, <1>19
  <2>3. n \in DOMAIN node' /\ q \in DOMAIN node' /\ DOMAIN node' \ DOMAIN node = {q}
    BY <1>2, <1>10, <1>19
  <2> HIDE DEF n
  <2> QED
    BY <1>2, <1>10, <1>22, <2>1, <2>2, <2>3 DEF LockStep
<1> QED
  BY <1>19, <1>20, <1>21, <1>23 DEF WorkerStep

\* The upper half is linked into the list of leaves.
LEMMA LinkStep ==
  ASSUME IInv, NEW w \in Workers, Link(w)
  PROVE  WorkerStep(w)
<1> DEFINE n == th[w].n
           s == th[w].sib
           x == [node[s] EXCEPT !.next = node[n].next]
           y == [node[n] EXCEPT !.next = s]
           r == [th[w] EXCEPT !.pc = "parent"]
<1>1. th[w].pc = "link" /\ th[w].pc \in Splitting /\ root' = root /\ Silent /\ TreeFine
  BY DEF Link, Splitting, IInv
<1>2. /\ DOMAIN th[w] = Fields /\ n \in Leaves /\ s \in Leaves /\ n # s
      /\ n \in DOMAIN node /\ s \in DOMAIN node
  BY <1>1, SplitFacts DEF IInv, Placed, Splits
<1>3. node' = [[node EXCEPT ![s] = x] EXCEPT ![n] = y]
  BY <1>2 DEF Link
<1>4. th' = [th EXCEPT ![w] = r]
  BY DEF Link, Goto, IInv, Threads
<1>5. /\ DOMAIN r = Fields /\ r.pc = "parent" /\ r.n = n /\ r.sib = s
      /\ r.next = th[w].next /\ r.split = th[w].split
  BY <1>2 DEF Fields
<1>6. DOMAIN node = 1..Len(node) /\ Leaves \subseteq Nat /\ root' \in DOMAIN node
  BY <1>1, NodeSeq DEF Leaves, TreeFine
<1>7. NodeFine(x, DOMAIN node, Leaves) /\ x.leaf = node[s].leaf /\ x.locked = node[s].locked
  <2>1. node[n].next \in Leaves \cup {Null} /\ NodeFine(node[s], DOMAIN node, Leaves)
    BY <1>1, <1>2, NextFacts, NodeFacts
  <2> QED
    BY <1>6, <2>1, NextFine
<1>8. NodeFine(y, DOMAIN node, Leaves) /\ y.leaf = node[n].leaf /\ y.locked = node[n].locked
  <2>1. NodeFine(node[n], DOMAIN node, Leaves)
    BY <1>1, <1>2, NodeFacts
  <2> QED
    BY <1>2, <1>6, <2>1, NextFine
<1> HIDE DEF x, y, r
<1>9. /\ node' = [m \in 1..Len(node) |-> node'[m]] /\ node'[s] = x /\ node'[n] = y
      /\ \A m \in DOMAIN node : m \notin {n, s} => node'[m] = node[m]
  BY <1>2, <1>3, <1>6
<1>10. Grows /\ DOMAIN node' = DOMAIN node /\ Leaves' = Leaves
  <2>1. \A m \in DOMAIN node : /\ NodeFine(node'[m], DOMAIN node, Leaves)
                               /\ node'[m].leaf = node[m].leaf
    BY <1>1, <1>7, <1>8, <1>9, NodeFacts
  <2> QED
    BY <1>1, <1>6, <1>9, <2>1, NodesChange
<1>11. Threads' /\ Others(w) /\ Placed(w)' /\ th'[w] = r
  BY <1>1, <1>4, <1>5, <1>10, ParentPlaced DEF Splitting
<1>12. Holds(w) = {n, s} /\ Holds(w)' = {n, s}
  BY <1>1, <1>5, <1>11 DEF Holds
<1>13. LockStep(w)
  BY <1>2, <1>7, <1>8, <1>9, <1>10, <1>12, HeldFacts DEF LockStep
<1> QED
  BY <1>10, <1>11, <1>13 DEF WorkerStep

\* A root above the two halves.
LEMMA NewRootStep ==
  ASSUME IInv, NEW w \in Workers, NewRoot(w)
  PROVE  WorkerStep(w)
<1> DEFINE n == th[w].n
           s == th[w].sib
           p == Len(node) + 1
           x == [node[n] EXCEPT !.parent = p]
           y == [node[s] EXCEPT !.parent = p]
           f == [[node EXCEPT ![n] = x] EXCEPT ![s] = y]
           top == [Internal(<<th[w].split>>, <<n, s>>, Null) EXCEPT !.locked = TRUE]
           d == DOMAIN node \cup {p}
           r == [th[w] EXCEPT !.pc = "setroot", !.parent = p]
<1>1. th[w].pc = "newroot" /\ th[w].pc \in Splitting /\ root' = root /\ Silent /\ TreeFine
  BY DEF NewRoot, Splitting, IInv
<1>2. /\ DOMAIN th[w] = Fields /\ n # s /\ n \in DOMAIN node /\ s \in DOMAIN node
      /\ th[w].split \in Keys
  BY <1>1, SplitFacts
<1>3. node' = Append(f, top)
  BY <1>2 DEF NewRoot
<1>4. th' = [th EXCEPT ![w] = r]
  BY DEF NewRoot, IInv, Threads
<1>5. /\ DOMAIN r = Fields /\ r.pc = "setroot" /\ r.n = n /\ r.sib = s /\ r.parent = p
      /\ r.next = th[w].next /\ r.split = th[w].split
  BY <1>2 DEF Fields
<1>6. /\ Len(node) \in Nat /\ DOMAIN node = 1..Len(node) /\ Leaves \subseteq DOMAIN node
      /\ p \in Nat /\ p \notin DOMAIN node /\ root' \in DOMAIN node /\ d \subseteq Nat
  BY <1>1, NodeSeq DEF Leaves, TreeFine
<1> HIDE DEF p
<1>7. ASSUME NEW m \in DOMAIN node
      PROVE  /\ NodeFine(node[m], d, Leaves)
             /\ LET z == [node[m] EXCEPT !.parent = p]
                IN  NodeFine(z, d, Leaves) /\ z.leaf = node[m].leaf /\ z.locked = node[m].locked
  <2>1. NodeFine(node[m], DOMAIN node, Leaves)
    BY <1>1, NodeFacts
  <2>2. DOMAIN node \subseteq d /\ DOMAIN node \ Leaves \subseteq d \ Leaves
        /\ p \in (d \ Leaves) \cup {Null}
    BY <1>6
  <2> HIDE DEF d
  <2>3. NodeFine(node[m], d, Leaves)
    BY <2>1, <2>2, FineGrows
  <2> QED
    BY <1>6, <2>2, <2>3, ParentFine
<1>8. NodeFine(x, d, Leaves) /\ x.leaf = node[n].leaf /\ x.locked = node[n].locked
  BY <1>2, <1>7
<1>9. NodeFine(y, d, Leaves) /\ y.leaf = node[s].leaf /\ y.locked = node[s].locked
  BY <1>2, <1>7
<1>10. /\ top \in Nodes /\ Len(top.keys) = 1 /\ top.kids = <<n, s>> /\ Len(top.kids) = 2
       /\ top.torn = {} /\ top.locked /\ ~top.leaf /\ top.parent = Null
  <2>1. /\ <<>> \in Seq(Vals \cup {Removed}) /\ <<th[w].split>> \in Seq(Keys)
        /\ <<n, s>> \in Seq(Nat) /\ {} \in SUBSET Nat /\ Null \in Nat
    BY <1>2, <1>6 DEF Null
  <2> QED
    BY <2>1 DEF Nodes, Internal
<1>11. NodeFine(top, d, Leaves)
  <2>1. <<n, s>> \in Seq(d)
    BY <1>2
  <2> HIDE DEF top
  <2>2. top.kids \in Seq(d) /\ Len(top.kids) = Len(top.keys) + 1 /\ Len(top.keys) <= Capacity
    BY <1>10, <2>1, ConstantFacts
  <2> QED
    BY <1>10, <2>2 DEF NodeFine
<1> HIDE DEF x, y, r, top
<1>12. /\ f = [m \in 1..Len(node) |-> f[m]] /\ f[s] = y /\ f[n] = x
       /\ \A m \in DOMAIN node : m \notin {n, s} => f[m] = node[m]
  BY <1>2, <1>6
<1> HIDE DEF f
<1>13. \A m \in DOMAIN node : NodeFine(f[m], d, Leaves) /\ f[m].leaf = node[m].leaf
  BY <1>7, <1>8, <1>9, <1>12
<1>14. /\ Grows /\ DOMAIN node' = d /\ Leaves' = Leaves
       /\ \A m \in DOMAIN node : node'[m] = f[m]
       /\ node'[p] = top
  <2>1. /\ node' = [m \in 1..Len(node) + 1 |-> node'[m]] /\ DOMAIN node' = 1..Len(node) + 1
        /\ node'[p] = top /\ \A m \in 1..Len(node) : node'[m] = f[m]
    BY <1>3, <1>6, <1>12, AppendFacts DEF p
  <2>2. DOMAIN node' = d
    BY <1>6, <2>1 DEF p
  <2>3. \A m \in DOMAIN node : node'[m] = f[m] /\ node'[m].leaf = node[m].leaf
    BY <1>6, <1>13, <2>1
  <2>4. Leaves' = Leaves
    BY <1>6, <1>10, <2>1, <2>2, <2>3 DEF Leaves
  <2>5. \A m \in DOMAIN node' : NodeFine(node'[m], DOMAIN node', Leaves')
    <3> SUFFICES ASSUME NEW m \in d PROVE NodeFine(node'[m], d, Leaves)
      BY <2>2, <2>4
    <3> QED
      BY <1>13, <1>11, <2>1, <2>3
  <2>6. Grows
    BY <1>1, <1>6, <2>1, <2>3, <2>5, NodesAppend
  <2> QED
    BY <2>1, <2>2, <2>3, <2>4, <2>6
<1>15. Threads' /\ Others(w) /\ Placed(w)' /\ th'[w] = r
  BY <1>1, <1>2, <1>4, <1>5, <1>6, <1>14, ParentPlaced DEF Splitting
<1>16. Holds(w) = {n, s} /\ Holds(w)' = {n, s, p}
  BY <1>1, <1>5, <1>15 DEF Holds
<1>17. LockStep(w)
  BY <1>2, <1>6, <1>8, <1>9, <1>10, <1>12, <1>14, <1>16, HeldFacts DEF LockStep
<1> QED
  BY <1>14, <1>15, <1>17 DEF WorkerStep

\* The locks of a split that has reached its end, in the order of their release.
LEMMA TripleFacts ==
  ASSUME NEW S, NEW a \in S, NEW b \in S, NEW c \in S, a # b, a # c, b # c
  PROVE  LET h == <<a, b, c>>
         IN  /\ h \in Seq(S) /\ Len(h) = 3 /\ h[Len(h)] = c /\ Range(h) = {a, b, c}
             /\ Distinct(h)
<1> DEFINE h == <<a, b, c>>
<1>1. h \in Seq(S) /\ Len(h) = 3 /\ h[1] = a /\ h[2] = b /\ h[3] = c
  OBVIOUS
<1> HIDE DEF h
<1>2. \A i \in 1..Len(h) : i \in {1, 2, 3}
  BY <1>1
<1>3. Distinct(h)
  BY <1>1, <1>2 DEF Distinct
<1>4. Range(h) = {a, b, c}
  <2>1. Range(h) = {h[i] : i \in 1..Len(h)}
    BY <1>1, RangeFacts
  <2>2. 1 \in 1..Len(h) /\ 2 \in 1..Len(h) /\ 3 \in 1..Len(h)
    BY <1>1
  <2> QED
    BY <1>1, <1>2, <2>1, <2>2
<1> QED
  BY <1>1, <1>3, <1>4 DEF h

\* A worker has put the two halves under their parent.
Bumped(w) ==
  [th[w] EXCEPT !.pc = "bump", !.held = <<th[w].parent, th[w].n, th[w].sib>>]

\* It has the parent and the two halves to release.
LEMMA BumpPlaced ==
  ASSUME IInv, NEW w \in Workers, th[w].pc \in {"insertparent", "setroot"}, Silent, Grows,
         th' = [th EXCEPT ![w] = Bumped(w)]
  PROVE  /\ Threads' /\ Others(w) /\ Placed(w)' /\ Holds(w)' = Holds(w)
         /\ Holds(w) = {th[w].n, th[w].sib, th[w].parent}
<1> DEFINE p == th[w].parent
           n == th[w].n
           s == th[w].sib
           h == <<p, n, s>>
           r == Bumped(w)
<1>1. /\ DOMAIN th[w] = Fields /\ call[w].op = "done" /\ th[w].next \in Leaves \cup {Null}
      /\ n \in DOMAIN node /\ s \in DOMAIN node /\ n # s /\ s # Null /\ th[w].split \in Keys
  BY SplitFacts DEF Splitting
<1>2. p \in DOMAIN node /\ p # n /\ p # s
  BY DEF IInv, Placed, Splits
<1>3. th' = [th EXCEPT ![w] = r]
  OBVIOUS
<1>4. /\ DOMAIN r = Fields /\ r.pc = "bump" /\ r.n = n /\ r.sib = s
      /\ r.next = th[w].next /\ r.split = th[w].split /\ r.held = h
  BY <1>1 DEF Fields, Bumped
<1>5. Leaves \subseteq Leaves' /\ DOMAIN node \subseteq DOMAIN node'
  BY DEF Grows, Leaves
<1>6. /\ h \in Seq(DOMAIN node') /\ Len(h) = 3 /\ h[Len(h)] = s /\ Range(h) = {p, n, s}
      /\ Distinct(h)
  <2>1. p \in DOMAIN node' /\ n \in DOMAIN node' /\ s \in DOMAIN node'
    BY <1>1, <1>2, <1>5
  <2> HIDE DEF p, n, s
  <2> QED
    BY <1>1, <1>2, <2>1, TripleFacts
<1> HIDE DEF r, h
<1>7. Threads' /\ Others(w) /\ th'[w] = r /\ call' = call
  BY <1>3, <1>4, QuietThreads
<1>8. Releases(w)'
  <2>1. th'[w].held = h /\ th'[w].sib = s
    BY <1>4, <1>7
  <2>2. h \in Seq(DOMAIN node') /\ Len(h) > 0 /\ Distinct(h) /\ s = h[Len(h)]
    BY <1>6
  <2> HIDE DEF s
  <2> QED
    BY <2>1, <2>2, Zenon DEF Releases
<1>9. Placed(w)'
  BY <1>1, <1>4, <1>5, <1>7, <1>8, PlacedReleasing DEF Releasing
<1>10. Holds(w) = {n, s, p}
  BY DEF Holds
<1>11. Holds(w)' = {p, n, s}
  <2>1. th'[w].pc = "bump" /\ th'[w].sib = s /\ th'[w].held = h /\ Range(h) = {p, n, s}
    BY <1>4, <1>6, <1>7
  <2> QED
    BY <2>1 DEF Holds
<1> QED
  BY <1>7, <1>9, <1>10, <1>11

\* root is the parent of the two halves.
LEMMA SetRootStep ==
  ASSUME IInv, NEW w \in Workers, SetRoot(w)
  PROVE  WorkerStep(w)
<1>1. th[w].pc = "setroot" /\ root' = th[w].parent /\ node' = node /\ Silent /\ TreeFine
  BY DEF SetRoot, IInv
<1>2. th[w].parent \in DOMAIN node
  BY <1>1 DEF IInv, Placed, Splits
<1>3. Grows
  BY <1>1, <1>2 DEF Grows, TreeFine, Leaves
<1>4. /\ Threads' /\ Others(w) /\ Placed(w)' /\ Holds(w)' = Holds(w)
  <2>1. th' = [th EXCEPT ![w] = Bumped(w)]
    BY DEF SetRoot, Bumped, IInv, Threads
  <2> QED
    BY <1>1, <1>3, <2>1, BumpPlaced
<1>5. LockStep(w)
  BY <1>1, <1>4, HeldFacts DEF LockStep
<1> QED
  BY <1>3, <1>4, <1>5 DEF WorkerStep

\* What is known of the parent that gets a key and a child more.
LEMMA InsertParentFacts ==
  ASSUME IInv, NEW w \in Workers, th[w].pc = "insertparent"
  PROVE  LET p == th[w].parent
             s == th[w].sib
             slot == FirstLarger(node[p].keys, th[w].split)
             keys == InsertAt(node[p].keys, slot + 1, th[w].split)
             kids == InsertAt(node[p].kids, slot + 2, s)
         IN  /\ TreeFine /\ p \in DOMAIN node \ Leaves /\ s \in DOMAIN node /\ p # s
             /\ th[w].n \in DOMAIN node /\ th[w].n # s /\ th[w].n # p
             /\ node[p] \in Nodes /\ NodeFine(node[p], DOMAIN node, Leaves) /\ ~node[p].leaf
             /\ slot \in 0..Len(node[p].keys)
             /\ keys \in Seq(Keys) /\ Len(keys) = Len(node[p].keys) + 1
             /\ kids \in Seq(DOMAIN node) /\ Len(kids) = Len(node[p].keys) + 2
             /\ Range(node[p].kids) \cup {s} \subseteq DOMAIN node
             /\ Range(kids) \subseteq DOMAIN node
<1> DEFINE p == th[w].parent
           s == th[w].sib
           slot == FirstLarger(node[p].keys, th[w].split)
           at == slot + 1
           below == slot + 2
           keys == InsertAt(node[p].keys, at, th[w].split)
           kids == InsertAt(node[p].kids, below, s)
           D == DOMAIN node
<1>1. /\ p \in DOMAIN node \ Leaves /\ p # s /\ th[w].n # p /\ TreeFine
  BY DEF IInv, Placed, Splits
<1>2. s \in D /\ th[w].n \in D /\ th[w].n # s /\ th[w].split \in Keys
  BY SplitFacts DEF Splitting
<1>3. node[p] \in Nodes /\ NodeFine(node[p], DOMAIN node, Leaves) /\ ~node[p].leaf
  BY <1>1, NodeFacts DEF Leaves
<1>4. /\ node[p].keys \in Seq(Keys) /\ node[p].kids \in Seq(D) /\ Len(node[p].keys) \in Nat
      /\ Len(node[p].kids) = Len(node[p].keys) + 1
  BY <1>3 DEF NodeFine, Nodes
<1>5. slot \in 0..Len(node[p].keys)
  BY <1>4, RankFacts
<1>6. at \in 1..Len(node[p].keys) + 1 /\ below \in 1..Len(node[p].kids) + 1
  <2> HIDE DEF slot
  <2> QED
    BY <1>4, <1>5
<1> HIDE DEF at, below, D
<1>7. keys \in Seq(Keys) /\ Len(keys) = Len(node[p].keys) + 1
  <2> DEFINE c == node[p].keys
             k == th[w].split
  <2>1. c \in Seq(Keys) /\ k \in Keys /\ at \in 1..Len(c) + 1
    BY <1>2, <1>4, <1>6
  <2> HIDE DEF c, k
  <2>2. InsertAt(c, at, k) \in Seq(Keys) /\ Len(InsertAt(c, at, k)) = Len(c) + 1
    BY <2>1, InsertFacts
  <2> QED
    BY <2>2 DEF c, k
<1>8. kids \in Seq(D) /\ Len(kids) = Len(node[p].keys) + 2
  <2>1. kids \in Seq(D) /\ Len(kids) = Len(node[p].kids) + 1
    <3> DEFINE c == node[p].kids
    <3>1. c \in Seq(D) /\ s \in D /\ below \in 1..Len(c) + 1
      BY <1>2, <1>4, <1>6
    <3> HIDE DEF c, s
    <3>2. InsertAt(c, below, s) \in Seq(D) /\ Len(InsertAt(c, below, s)) = Len(c) + 1
      BY <3>1, InsertFacts
    <3> QED
      BY <3>2 DEF c
  <2> HIDE DEF kids
  <2> QED
    BY <1>4, <2>1
<1>9. Range(node[p].kids) \cup {s} \subseteq D /\ Range(kids) \subseteq D
  <2> HIDE DEF kids
  <2> QED
    BY <1>2, <1>4, <1>8, RangeFacts
<1> QED
  BY <1>1, <1>2, <1>3, <1>5, <1>7, <1>8, <1>9 DEF at, below, D

\* A parent with room for the key and the upper half (xindex_buffer_impl.h:360-401).
LEMMA InsertParentStep ==
  ASSUME IInv, NEW w \in Workers, InsertParent(w)
  PROVE  WorkerStep(w)
<1> DEFINE p == th[w].parent
           s == th[w].sib
           slot == FirstLarger(node[p].keys, th[w].split)
           keys == InsertAt(node[p].keys, slot + 1, th[w].split)
           kids == InsertAt(node[p].kids, slot + 2, s)
           torn == Range(node[p].kids) \cup {s}
           x == [node[p] EXCEPT !.keys = keys, !.kids = kids, !.torn = torn]
           y == [node[s] EXCEPT !.parent = p]
<1>1. th[w].pc = "insertparent" /\ root' = root /\ Silent /\ ~IsFull(p)
  BY DEF InsertParent
<1>2. /\ TreeFine /\ p \in DOMAIN node \ Leaves /\ s \in DOMAIN node /\ p # s
      /\ node[p] \in Nodes /\ NodeFine(node[p], DOMAIN node, Leaves) /\ ~node[p].leaf
      /\ slot \in 0..Len(node[p].keys)
      /\ keys \in Seq(Keys) /\ Len(keys) = Len(node[p].keys) + 1
      /\ kids \in Seq(DOMAIN node) /\ Len(kids) = Len(node[p].keys) + 2
      /\ torn \subseteq DOMAIN node
  BY <1>1, InsertParentFacts
<1>3. node' = [[node EXCEPT ![p] = x] EXCEPT ![s] = y]
  <2>1. (slot + 1) + 1 = slot + 2
    BY <1>2
  <2> QED
    BY <1>2, <2>1 DEF InsertParent
<1> HIDE DEF slot, keys, kids, torn
<1>4. DOMAIN node = 1..Len(node) /\ DOMAIN node \subseteq Nat /\ root' \in DOMAIN node
  <2>1. TreeFine /\ root' = root
    BY <1>1, <1>2
  <2>2. Len(node) \in Nat /\ DOMAIN node = 1..Len(node)
    BY <2>1, NodeSeq
  <2> QED
    BY <2>1, <2>2 DEF TreeFine
<1>5. /\ x \in Nodes /\ x.keys = keys /\ x.kids = kids /\ x.torn = torn
      /\ x.locked = node[p].locked /\ x.leaf = node[p].leaf
      /\ x.vals = node[p].vals /\ x.next = node[p].next /\ x.parent = node[p].parent
  <2>1. kids \in Seq(Nat) /\ torn \in SUBSET Nat
    BY SMTT(30), <1>2, <1>4
  <2> QED
    BY <1>2, <2>1 DEF Nodes
<1>6. Len(keys) <= Capacity /\ Len(kids) = Len(keys) + 1
  <2>1. Len(node[p].keys) \in Nat /\ Len(node[p].keys) <= Capacity
    BY <1>2 DEF NodeFine, Nodes
  <2> QED
    BY <1>1, <1>2, <2>1, ConstantFacts DEF IsFull
<1>7. NodeFine(y, DOMAIN node, Leaves) /\ y.leaf = node[s].leaf /\ y.locked = node[s].locked
  <2>1. NodeFine(node[s], DOMAIN node, Leaves) /\ p \in (DOMAIN node \ Leaves) \cup {Null}
    BY <1>2, NodeFacts
  <2> HIDE DEF p, s
  <2> QED
    BY <1>4, <2>1, ParentFine
<1> HIDE DEF x, y
<1>8. NodeFine(x, DOMAIN node, Leaves)
  BY <1>2, <1>5, <1>6 DEF NodeFine
<1>9. /\ node' = [m \in 1..Len(node) |-> node'[m]] /\ node'[s] = y /\ node'[p] = x
      /\ \A m \in DOMAIN node : m \notin {p, s} => node'[m] = node[m]
  BY <1>2, <1>3, <1>4
<1>10. \A m \in DOMAIN node : /\ NodeFine(node'[m], DOMAIN node, Leaves)
                              /\ node'[m].leaf = node[m].leaf
                              /\ node'[m].locked = node[m].locked
  BY <1>2, <1>5, <1>7, <1>8, <1>9, NodeFacts
<1>11. Grows /\ DOMAIN node' = DOMAIN node /\ Leaves' = Leaves
  BY <1>2, <1>4, <1>9, <1>10, NodesChange
<1>12. Threads' /\ Others(w) /\ Placed(w)' /\ Holds(w)' = Holds(w)
  <2>1. th' = [th EXCEPT ![w] = Bumped(w)]
    BY DEF InsertParent, Bumped, IInv, Threads
  <2> QED
    BY <1>1, <1>11, <2>1, BumpPlaced
<1>13. LockStep(w)
  BY <1>10, <1>11, <1>12, HeldFacts DEF LockStep
<1> QED
  BY <1>11, <1>12, <1>13 DEF WorkerStep

\* Two locks to release.
LEMMA PairFacts ==
  ASSUME NEW S, NEW a \in S, NEW b \in S, a # b
  PROVE  LET h == <<a, b>>
         IN  h \in Seq(S) /\ Len(h) = 2 /\ Range(h) = {a, b} /\ Distinct(h)
<1> DEFINE h == <<a, b>>
<1>1. h \in Seq(S) /\ Len(h) = 2 /\ h[1] = a /\ h[2] = b
  OBVIOUS
<1> HIDE DEF h
<1>2. \A i \in 1..Len(h) : i \in {1, 2}
  BY <1>1
<1>3. Distinct(h)
  BY <1>1, <1>2 DEF Distinct
<1>4. Range(h) = {a, b}
  <2>1. Range(h) = {h[i] : i \in 1..Len(h)}
    BY <1>1, RangeFacts
  <2>2. 1 \in 1..Len(h) /\ 2 \in 1..Len(h)
    BY <1>1
  <2> QED
    BY <1>1, <1>2, <2>1, <2>2
<1> QED
  BY <1>1, <1>3, <1>4 DEF h

\* The sequences of a parent that is split.
LEMMA ParentHalves ==
  ASSUME NEW S, NEW kids \in Seq(S), Len(kids) = Capacity + 2,
         NEW keys \in Seq(Keys), Len(keys) = Capacity + 1, NEW cut \in 1..Capacity - 1
  PROVE  /\ SubSeq(keys, 1, cut) \in Seq(Keys) /\ Len(SubSeq(keys, 1, cut)) = cut
         /\ SubSeq(kids, 1, cut + 1) \in Seq(S) /\ Len(SubSeq(kids, 1, cut + 1)) = cut + 1
         /\ SubSeq(keys, cut + 2, Capacity + 1) \in Seq(Keys)
         /\ Len(SubSeq(keys, cut + 2, Capacity + 1)) = Capacity - cut
         /\ SubSeq(kids, cut + 2, Capacity + 2) \in Seq(S)
         /\ Len(SubSeq(kids, cut + 2, Capacity + 2)) = Capacity - cut + 1
         /\ keys[cut + 1] \in Keys
<1>1. Capacity \in Nat
  BY ConstantFacts
<1>2. SubSeq(keys, 1, cut) \in Seq(Keys) /\ Len(SubSeq(keys, 1, cut)) = cut
  <2>1. cut \in 0..Len(keys) /\ 1 <= cut + 1 /\ cut - 1 + 1 = cut /\ 1 \in Nat \ {0}
    BY <1>1
  <2> QED
    BY <2>1, SubSeqFacts
<1>3. SubSeq(kids, 1, cut + 1) \in Seq(S) /\ Len(SubSeq(kids, 1, cut + 1)) = cut + 1
  <2>1. /\ cut + 1 \in 0..Len(kids) /\ 1 <= (cut + 1) + 1 /\ (cut + 1) - 1 + 1 = cut + 1
        /\ 1 \in Nat \ {0}
    BY <1>1
  <2> QED
    BY <2>1, SubSeqFacts
<1>4. /\ SubSeq(keys, cut + 2, Capacity + 1) \in Seq(Keys)
      /\ Len(SubSeq(keys, cut + 2, Capacity + 1)) = Capacity - cut
  <2>1. /\ cut + 2 \in Nat \ {0} /\ Capacity + 1 \in 0..Len(keys)
        /\ cut + 2 <= (Capacity + 1) + 1 /\ (Capacity + 1) - (cut + 2) + 1 = Capacity - cut
    BY <1>1
  <2> QED
    BY <2>1, SubSeqFacts
<1>5. /\ SubSeq(kids, cut + 2, Capacity + 2) \in Seq(S)
      /\ Len(SubSeq(kids, cut + 2, Capacity + 2)) = Capacity - cut + 1
  <2>1. /\ cut + 2 \in Nat \ {0} /\ Capacity + 2 \in 0..Len(kids)
        /\ cut + 2 <= (Capacity + 2) + 1 /\ (Capacity + 2) - (cut + 2) + 1 = Capacity - cut + 1
    BY <1>1
  <2> QED
    BY <2>1, SubSeqFacts
<1>6. keys[cut + 1] \in Keys
  <2>1. cut + 1 \in 1..Len(keys)
    BY <1>1
  <2> QED
    BY <2>1
<1> QED
  BY <1>2, <1>3, <1>4, <1>5, <1>6

\* A full parent is split in its turn, and its children are adopted (xindex_buffer_impl.h:403-480).
LEMMA SplitParentStep ==
  ASSUME IInv, NEW w \in Workers, SplitParent(w)
  PROVE  WorkerStep(w)
<1> DEFINE n == th[w].n
           s == th[w].sib
           p == th[w].parent
           q == Len(node) + 1
           slot == FirstLarger(node[p].keys, th[w].split)
           keys == InsertAt(node[p].keys, slot + 1, th[w].split)
           kids == InsertAt(node[p].kids, slot + 2, s)
           cut == ParentCut(slot)
           lk == SubSeq(keys, 1, cut)
           lc == SubSeq(kids, 1, cut + 1)
           rk == SubSeq(keys, cut + 2, Capacity + 1)
           rc == SubSeq(kids, cut + 2, Capacity + 2)
           torn == Range(kids)
           adopted == [c \in DOMAIN node |->
                         IF c \in Range(rc) THEN [node[c] EXCEPT !.parent = q]
                         ELSE IF c = s THEN [node[c] EXCEPT !.parent = p]
                         ELSE node[c]]
           x == [adopted[p] EXCEPT !.keys = lk, !.kids = lc, !.torn = torn]
           f == [adopted EXCEPT ![p] = x]
           top == [Internal(rk, rc, Null) EXCEPT !.locked = TRUE]
           d == DOMAIN node \cup {q}
           h == <<n, s>>
           r == [th[w] EXCEPT !.pc = "bump", !.held = h, !.n = p, !.sib = q,
                              !.split = keys[cut + 1]]
<1>1. th[w].pc = "insertparent" /\ root' = root /\ Silent /\ IsFull(p)
  BY DEF SplitParent
<1>2. /\ TreeFine /\ p \in DOMAIN node \ Leaves /\ s \in DOMAIN node /\ p # s
      /\ n \in DOMAIN node /\ n # s /\ n # p
      /\ ~node[p].leaf /\ slot \in 0..Len(node[p].keys)
      /\ keys \in Seq(Keys) /\ Len(keys) = Len(node[p].keys) + 1
      /\ kids \in Seq(DOMAIN node) /\ Len(kids) = Len(node[p].keys) + 2
      /\ torn \subseteq DOMAIN node
  BY <1>1, InsertParentFacts
<1>3. th[w].next \in Leaves \cup {Null} /\ call[w].op = "done" /\ DOMAIN th[w] = Fields
  BY <1>1, SplitFacts DEF Splitting
<1>4. th' = [th EXCEPT ![w] = r]
  BY DEF SplitParent, IInv, Threads
<1>5. /\ DOMAIN r = Fields /\ r.pc = "bump" /\ r.n = p /\ r.sib = q
      /\ r.split = keys[cut + 1] /\ r.next = th[w].next /\ r.held = h
  BY <1>3 DEF Fields
<1>6. node' = Append(f, top)
  BY <1>2 DEF SplitParent
<1>7. Len(node[p].keys) = Capacity /\ Capacity \in Nat
  BY <1>1, ConstantFacts DEF IsFull
<1>8. cut \in 1..Capacity - 1
  <2> HIDE DEF slot
  <2> QED
    BY <1>2, <1>7, CutFacts
<1> HIDE DEF slot, keys, kids, cut, r, torn
<1>9. /\ lk \in Seq(Keys) /\ Len(lk) = cut /\ lc \in Seq(DOMAIN node) /\ Len(lc) = cut + 1
      /\ rk \in Seq(Keys) /\ Len(rk) = Capacity - cut
      /\ rc \in Seq(DOMAIN node) /\ Len(rc) = Capacity - cut + 1 /\ keys[cut + 1] \in Keys
  <2> DEFINE D == DOMAIN node
  <2>1. /\ kids \in Seq(D) /\ Len(kids) = Capacity + 2
        /\ keys \in Seq(Keys) /\ Len(keys) = Capacity + 1
    BY <1>2, <1>7
  <2> HIDE DEF D
  <2>2. /\ lk \in Seq(Keys) /\ Len(lk) = cut /\ lc \in Seq(D) /\ Len(lc) = cut + 1
        /\ rk \in Seq(Keys) /\ Len(rk) = Capacity - cut
        /\ rc \in Seq(D) /\ Len(rc) = Capacity - cut + 1 /\ keys[cut + 1] \in Keys
    BY SMTT(30), <1>8, <2>1, ParentHalves
  <2> QED
    BY <2>2 DEF D
<1>10. /\ Len(node) \in Nat /\ DOMAIN node = 1..Len(node) /\ Leaves \subseteq DOMAIN node
       /\ q \in Nat \ {0} /\ q \notin DOMAIN node /\ d \subseteq Nat
  <2>1. Len(node) \in Nat /\ DOMAIN node = 1..Len(node)
    BY <1>2, NodeSeq
  <2> QED
    BY <2>1 DEF Leaves
<1>11. root' \in DOMAIN node
  BY <1>1, <1>2 DEF TreeFine
<1> HIDE DEF lk, lc, rk, rc, q
<1>12. \A c \in DOMAIN node : /\ NodeFine(adopted[c], d, Leaves)
                              /\ adopted[c].leaf = node[c].leaf
                              /\ adopted[c].locked = node[c].locked
  <2> SUFFICES ASSUME NEW c \in DOMAIN node
               PROVE  /\ NodeFine(adopted[c], d, Leaves)
                      /\ adopted[c].leaf = node[c].leaf /\ adopted[c].locked = node[c].locked
    OBVIOUS
  <2>1. NodeFine(node[c], DOMAIN node, Leaves)
    BY <1>2, NodeFacts
  <2>2. /\ DOMAIN node \subseteq d /\ DOMAIN node \ Leaves \subseteq d \ Leaves
        /\ q \in (d \ Leaves) \cup {Null} /\ p \in (d \ Leaves) \cup {Null}
    BY <1>2, <1>10
  <2> HIDE DEF d, p
  <2>3. NodeFine(node[c], d, Leaves)
    BY <2>1, <2>2, FineGrows
  <2>4. ASSUME NEW z \in {p, q}
        PROVE  LET y == [node[c] EXCEPT !.parent = z]
               IN  NodeFine(y, d, Leaves) /\ y.leaf = node[c].leaf /\ y.locked = node[c].locked
    <3>1. z \in (d \ Leaves) \cup {Null}
      BY <2>2
    <3> QED
      BY <1>10, <2>3, <3>1, ParentFine
  <2>5. adopted[c] \in {node[c], [node[c] EXCEPT !.parent = q], [node[c] EXCEPT !.parent = p]}
    OBVIOUS
  <2> HIDE DEF adopted
  <2> QED
    BY <2>3, <2>4, <2>5
<1>13. DOMAIN adopted = 1..Len(node) /\ adopted = [c \in 1..Len(node) |-> adopted[c]]
  BY <1>10
<1> HIDE DEF adopted
<1>14. /\ x \in Nodes /\ x.keys = lk /\ x.kids = lc /\ x.torn = torn
       /\ x.locked = node[p].locked /\ x.leaf = node[p].leaf
       /\ x.vals = adopted[p].vals /\ x.next = adopted[p].next
       /\ x.parent = adopted[p].parent
  <2>1. adopted[p] \in Nodes /\ adopted[p].leaf = node[p].leaf
        /\ adopted[p].locked = node[p].locked
    BY <1>2, <1>12 DEF NodeFine
  <2>2. lc \in Seq(Nat) /\ torn \in SUBSET Nat
    <3>1. DOMAIN node \subseteq Nat /\ lc \in Seq(DOMAIN node) /\ torn \subseteq DOMAIN node
      BY <1>2, <1>9, <1>10
    <3> QED
      BY <3>1
  <2> HIDE DEF p
  <2> QED
    BY <1>9, <2>1, <2>2 DEF Nodes
<1>15. f = [m \in 1..Len(node) |-> f[m]] /\ f[p] = x
       /\ \A m \in DOMAIN node : m # p => f[m] = adopted[m]
  BY <1>2, <1>10, <1>13
<1>16. /\ top \in Nodes /\ top.keys = rk /\ top.kids = rc
       /\ top.torn = {} /\ top.locked /\ ~top.leaf /\ top.parent = Null
  <2>1. /\ <<>> \in Seq(Vals \cup {Removed}) /\ rc \in Seq(Nat) /\ {} \in SUBSET Nat
        /\ Null \in Nat
    BY <1>9, <1>10 DEF Null
  <2> QED
    BY <1>9, <2>1 DEF Nodes, Internal
<1> HIDE DEF x, f, top
<1>17. NodeFine(top, d, Leaves)
  <2>1. rc \in Seq(d) /\ Len(rc) = Len(rk) + 1 /\ Len(rk) <= Capacity
    BY <1>7, <1>8, <1>9
  <2> QED
    BY <1>16, <2>1 DEF NodeFine
<1>18. NodeFine(x, d, Leaves)
  <2>1. lc \in Seq(d) /\ Len(lc) = Len(lk) + 1 /\ Len(lk) <= Capacity /\ torn \subseteq d
    BY <1>2, <1>7, <1>8, <1>9
  <2>2. adopted[p].parent \in (d \ Leaves) \cup {Null}
    BY <1>2, <1>12 DEF NodeFine
  <2> QED
    BY <1>2, <1>14, <2>1, <2>2 DEF NodeFine
<1>19. \A m \in DOMAIN node : /\ NodeFine(f[m], d, Leaves) /\ f[m].leaf = node[m].leaf
                              /\ f[m].locked = node[m].locked
  BY ZenonT(40), <1>2, <1>12, <1>14, <1>15, <1>18
<1>20. /\ Grows /\ DOMAIN node' = d /\ Leaves' = Leaves
       /\ \A m \in DOMAIN node : node'[m] = f[m]
       /\ node'[q] = top
  <2>1. /\ node' = [m \in 1..Len(node) + 1 |-> node'[m]] /\ DOMAIN node' = 1..Len(node) + 1
        /\ node'[q] = top /\ \A m \in 1..Len(node) : node'[m] = f[m]
    BY <1>6, <1>10, <1>15, AppendFacts DEF q
  <2>2. DOMAIN node' = d
    BY <1>10, <2>1 DEF q
  <2>3. \A m \in DOMAIN node : node'[m] = f[m] /\ node'[m].leaf = node[m].leaf
    BY <1>10, <1>19, <2>1
  <2>4. Leaves' = Leaves
    BY <1>10, <1>16, <2>1, <2>2, <2>3 DEF Leaves
  <2>5. \A m \in DOMAIN node' : NodeFine(node'[m], DOMAIN node', Leaves')
    <3> SUFFICES ASSUME NEW m \in d PROVE NodeFine(node'[m], d, Leaves)
      BY <2>2, <2>4
    <3> QED
      BY <1>17, <1>19, <2>1, <2>3
  <2>6. Grows
    BY <1>2, <1>11, <2>1, <2>3, <2>5, NodesAppend
  <2> QED
    BY <2>1, <2>2, <2>3, <2>4, <2>6
<1>21. Threads' /\ Others(w) /\ th'[w] = r /\ call' = call
  BY <1>1, <1>4, <1>5, QuietThreads
<1>22. h \in Seq(DOMAIN node') /\ Len(h) = 2 /\ Range(h) = {n, s} /\ Distinct(h)
  <2>1. n \in DOMAIN node' /\ s \in DOMAIN node'
    BY <1>2, <1>20
  <2> HIDE DEF n, s
  <2> QED
    BY <1>2, <2>1, PairFacts
<1> HIDE DEF h
<1>23. q \notin {n, s, Null} /\ p \notin {n, s}
  BY <1>2, <1>10 DEF Null
<1>24. Releases(w)'
  <2>1. th'[w].held = h /\ th'[w].sib = q /\ th'[w].n = p
    BY <1>5, <1>21
  <2>2. /\ h \in Seq(DOMAIN node') /\ Len(h) > 0 /\ Distinct(h)
        /\ p \notin Range(h) /\ q \notin Range(h)
    BY <1>22, <1>23
  <2> HIDE DEF p
  <2> QED
    BY <2>1, <2>2, Zenon DEF Releases
<1>25. Placed(w)'
  <2>1. /\ th'[w].pc \in Releasing /\ th'[w].n = p /\ th'[w].sib = q /\ th'[w].split \in Keys
        /\ th'[w].next = th[w].next /\ call'[w].op = "done"
    BY <1>3, <1>5, <1>9, <1>21 DEF Releasing
  <2>2. p \in DOMAIN node' /\ q \in DOMAIN node' /\ p # q
    BY <1>2, <1>10, <1>20
  <2> HIDE DEF p
  <2> QED
    BY <1>3, <1>20, <1>24, <2>1, <2>2, PlacedReleasing
<1>26. Holds(w) = {n, s, p}
  BY <1>1 DEF Holds
<1>27. Holds(w)' = {n, s, p, q}
  <2>1. /\ th'[w].pc = "bump" /\ th'[w].n = p /\ th'[w].sib = q /\ th'[w].held = h
        /\ Range(h) = {n, s} /\ q \notin Range(h) \cup {Null}
    BY <1>5, <1>21, <1>22, <1>23
  <2> HIDE DEF n, s, p
  <2> QED
    BY <2>1 DEF Holds
<1>28. LockStep(w)
  <2>1. \A m \in DOMAIN node : node'[m].locked = node[m].locked
    BY <1>19, <1>20
  <2>2. node'[q].locked /\ DOMAIN node' \ DOMAIN node = {q} /\ q \notin DOMAIN node
    BY <1>10, <1>16, <1>20
  <2>3. \A m \in Holds(w) : m \in DOMAIN node /\ m \in DOMAIN node' /\ node'[m].locked
    BY <1>20, <2>1, HeldFacts
  <2>4. Holds(w)' = Holds(w) \cup {q} /\ q \in DOMAIN node'
    BY <1>20, <1>26, <1>27
  <2> QED
    BY <2>1, <2>2, <2>3, <2>4 DEF LockStep
<1> QED
  BY <1>20, <1>21, <1>25, <1>28 DEF WorkerStep

\* The versions are moved.
LEMMA BumpStep ==
  ASSUME IInv, NEW w \in Workers, Bump(w)
  PROVE  WorkerStep(w)
<1> DEFINE h == th[w].held
           B(m) == [node[m] EXCEPT !.ver = @ + 1, !.torn = {}]
           r == [th[w] EXCEPT !.pc = "unlock"]
<1>1. th[w].pc = "bump" /\ root' = root /\ Silent /\ TreeFine /\ DOMAIN th[w] = Fields
  BY DEF Bump, IInv, Threads
<1>2. node' = [m \in DOMAIN node |-> IF m \in Range(h) THEN B(m) ELSE node[m]]
  BY DEF Bump
<1>3. ASSUME NEW m \in DOMAIN node
      PROVE  /\ NodeFine(B(m), DOMAIN node, Leaves) /\ B(m).leaf = node[m].leaf
             /\ B(m).locked = node[m].locked
  <2> DEFINE x == B(m)
  <2>1. NodeFine(node[m], DOMAIN node, Leaves) /\ node[m] \in Nodes
    BY <1>1, NodeFacts
  <2>2. /\ x \in Nodes /\ x.torn = {} /\ x.keys = node[m].keys /\ x.kids = node[m].kids
        /\ x.locked = node[m].locked /\ x.leaf = node[m].leaf
        /\ x.vals = node[m].vals /\ x.next = node[m].next /\ x.parent = node[m].parent
    <3>1. node[m].ver + 1 \in Nat /\ {} \in SUBSET Nat
      BY <2>1 DEF Nodes
    <3> QED
      BY <2>1, <3>1 DEF Nodes
  <2> HIDE DEF x
  <2>3. NodeFine(x, DOMAIN node, Leaves)
    BY <2>1, <2>2 DEF NodeFine
  <2> QED
    BY <2>2, <2>3 DEF x
<1>4. th' = [th EXCEPT ![w] = r]
  BY DEF Bump, Goto, IInv, Threads
<1>5. /\ DOMAIN r = Fields /\ r.pc = "unlock" /\ r.n = th[w].n /\ r.sib = th[w].sib
      /\ r.next = th[w].next /\ r.split = th[w].split /\ r.held = h
  BY <1>1 DEF Fields
<1> HIDE DEF B, r
<1>6. /\ DOMAIN node = 1..Len(node) /\ root' \in DOMAIN node
      /\ node' = [m \in 1..Len(node) |-> node'[m]]
  <2>1. DOMAIN node = 1..Len(node)
    BY <1>1, NodeSeq
  <2> QED
    BY <1>1, <1>2, <2>1 DEF TreeFine
<1>7. \A m \in DOMAIN node : /\ NodeFine(node'[m], DOMAIN node, Leaves)
                             /\ node'[m].leaf = node[m].leaf
                             /\ node'[m].locked = node[m].locked
  BY <1>1, <1>2, <1>3, NodeFacts
<1>8. Grows /\ DOMAIN node' = DOMAIN node /\ Leaves' = Leaves
  BY <1>1, <1>6, <1>7, NodesChange
<1>9. Threads' /\ Others(w) /\ th'[w] = r /\ call' = call
  BY <1>1, <1>4, <1>5, QuietThreads
<1>10. Knows(w) /\ Splits(w) /\ Releases(w)
  BY DEF IInv, Placed
<1>11. Knows(w)'
  BY <1>1, <1>5, <1>8, <1>9, <1>10 DEF Knows, Descending, Reading, Writing, Splitting, Releasing
<1>12. Splits(w)'
  BY <1>1, <1>5, <1>8, <1>9, <1>10 DEF Splits, Splitting
<1>13. Releases(w)'
  <2>1. /\ th'[w].held = th[w].held /\ th'[w].sib = th[w].sib /\ th'[w].n = th[w].n
        /\ DOMAIN node' = DOMAIN node /\ th[w].pc \in Releasing
    BY <1>1, <1>5, <1>8, <1>9 DEF Releasing
  <2> QED
    BY <1>10, <2>1 DEF Releases
<1>14. Holds(w)' = Holds(w)
  BY <1>1, <1>5, <1>9 DEF Holds
<1>15. LockStep(w)
  BY <1>7, <1>8, <1>14, HeldFacts DEF LockStep
<1> QED
  BY <1>8, <1>9, <1>11, <1>12, <1>13, <1>15 DEF WorkerStep, Placed

\* A lock is released: what is left.
LEMMA TailFacts ==
  ASSUME NEW S, NEW h \in Seq(S), Len(h) > 1, Distinct(h)
  PROVE  LET t == Tail(h)
         IN  /\ t \in Seq(S) /\ Len(t) > 0 /\ Distinct(t) /\ t[Len(t)] = h[Len(h)]
             /\ Range(t) = Range(h) \ {Head(h)} /\ Head(h) \in Range(h)
<1> DEFINE t == Tail(h)
<1>1. /\ t \in Seq(S) /\ Len(t) = Len(h) - 1 /\ \A i \in 1..Len(t) : t[i] = h[i + 1]
      /\ Len(h) \in Nat /\ Head(h) = h[1]
  OBVIOUS
<1> HIDE DEF t
<1>2. \A i \in 1..Len(t) : i + 1 \in 1..Len(h)
  BY <1>1
<1>3. Distinct(t)
  <2> SUFFICES ASSUME NEW i \in 1..Len(t), NEW j \in 1..Len(t), i # j
               PROVE  t[i] # t[j]
    BY DEF Distinct
  <2>1. i + 1 # j + 1
    OBVIOUS
  <2> QED
    BY <1>1, <1>2, <2>1 DEF Distinct
<1>4. Len(t) > 0 /\ t[Len(t)] = h[Len(h)]
  <2>1. Len(t) \in 1..Len(t) /\ Len(t) + 1 = Len(h) /\ Len(t) > 0
    BY <1>1
  <2> QED
    BY <1>1, <2>1
<1>5. Range(t) = {t[i] : i \in 1..Len(t)} /\ Range(h) = {h[i] : i \in 1..Len(h)}
  BY <1>1, RangeFacts
<1>6. 1 \in 1..Len(h)
  BY <1>1
<1>7. ASSUME NEW e \in Range(t) PROVE e \in Range(h) /\ e # Head(h)
  <2>1. PICK i \in 1..Len(t) : e = t[i]
    BY <1>5
  <2>2. i + 1 \in 1..Len(h) /\ e = h[i + 1] /\ i + 1 # 1
    BY <1>1, <1>2, <2>1
  <2> QED
    BY <1>1, <1>5, <1>6, <2>2 DEF Distinct
<1>8. ASSUME NEW e \in Range(h), e # Head(h) PROVE e \in Range(t)
  <2>1. PICK i \in 1..Len(h) : e = h[i]
    BY <1>5
  <2>2. i # 1
    BY <1>1, <1>8, <2>1
  <2>3. i - 1 \in 1..Len(t) /\ (i - 1) + 1 = i
    BY <1>1, <2>2
  <2>4. t[i - 1] = e
    BY <1>1, <2>1, <2>3
  <2> QED
    BY <1>5, <2>3, <2>4
<1>9. Head(h) \in Range(h)
  BY <1>1, <1>5, <1>6
<1> QED
  BY <1>1, <1>3, <1>4, <1>7, <1>8, <1>9 DEF t

\* One lock is released.
LEMMA UnlockStep ==
  ASSUME IInv, NEW w \in Workers, Unlock(w)
  PROVE  WorkerStep(w)
<1> DEFINE h == th[w].held
           n == Head(h)
           s == th[w].sib
<1>1. /\ th[w].pc = "unlock" /\ root' = root /\ TreeFine /\ DOMAIN th[w] = Fields
      /\ node' = [node EXCEPT ![n].locked = FALSE]
  BY DEF Unlock, IInv, Threads
<1>2. /\ h \in Seq(DOMAIN node) /\ Len(h) > 0 /\ Distinct(h)
      /\ s = Null \/ s = h[Len(h)] \/ (th[w].n \notin Range(h) /\ s \notin Range(h))
  BY <1>1 DEF IInv, Placed, Releases, Releasing
<1>3. /\ call[w].op = "done" /\ th[w].next \in Leaves \cup {Null}
      /\ th[w].n \in DOMAIN node \cup {Null}
      /\ s # Null => /\ th[w].n \in DOMAIN node /\ s \in DOMAIN node
                     /\ th[w].n # s /\ th[w].split \in Keys
  BY <1>1 DEF IInv, Placed, Knows, Splits, Releasing
<1>4. n = h[1] /\ 1 \in 1..Len(h) /\ n \in DOMAIN node
  BY <1>2
<1>5. n \in Range(h)
  <2>1. Range(h) = {h[i] : i \in 1..Len(h)}
    BY <1>2, RangeFacts
  <2> QED
    BY <1>4, <2>1
<1>6. /\ Grows /\ DOMAIN node' = DOMAIN node /\ Leaves' = Leaves /\ node'[n].locked = FALSE
      /\ \A m \in DOMAIN node : m # n => node'[m] = node[m]
  <2> HIDE DEF n
  <2> QED
    BY <1>1, <1>4, LockSet
<1>7. Holds(w) = Range(h) \cup (IF s \in Range(h) \cup {Null} THEN {} ELSE {th[w].n, s})
  BY <1>1 DEF Holds
<1>8. ASSUME Holds(w)' = Holds(w) \ {n}
      PROVE  LockStep(w)
  <2>1. n \in Holds(w) /\ \A m \in Holds(w) : m \in DOMAIN node /\ node[m].locked
    BY <1>5, <1>7, HeldFacts
  <2> HIDE DEF n
  <2> QED
    BY <1>6, <1>8, <2>1 DEF LockStep
<1>9. CASE Len(h) > 1
  <2> DEFINE t == Tail(h)
             r == [th[w] EXCEPT !.held = t]
  <2>1. th' = [th EXCEPT ![w] = r] /\ Silent
    BY <1>9 DEF Unlock, IInv, Threads
  <2>2. /\ DOMAIN r = Fields /\ r.pc = "unlock" /\ r.n = th[w].n /\ r.sib = s
        /\ r.next = th[w].next /\ r.split = th[w].split /\ r.held = t
    BY <1>1 DEF Fields
  <2>3. /\ t \in Seq(DOMAIN node) /\ Len(t) > 0 /\ Distinct(t) /\ t[Len(t)] = h[Len(h)]
        /\ Range(t) = Range(h) \ {n}
    BY <1>2, <1>9, TailFacts
  <2> HIDE DEF r, t, n
  <2>4. Threads' /\ Others(w) /\ th'[w] = r /\ call' = call
    BY <2>1, <2>2, QuietThreads
  <2>5. Releases(w)'
    <3>1. th'[w].held = t /\ th'[w].sib = s /\ th'[w].n = th[w].n
      BY <2>2, <2>4
    <3>2. /\ t \in Seq(DOMAIN node') /\ Len(t) > 0 /\ Distinct(t)
          /\ s = Null \/ s = t[Len(t)] \/ (th[w].n \notin Range(t) /\ s \notin Range(t))
      BY <1>2, <1>6, <2>3
    <3> HIDE DEF s
    <3> QED
      BY <3>1, <3>2, Zenon DEF Releases
  <2>6. Placed(w)'
    <3>1. Knows(w)'
      BY <1>3, <1>6, <2>2, <2>4 DEF Knows, Descending, Reading, Writing, Splitting, Releasing
    <3>2. Splits(w)'
      BY <1>3, <1>6, <2>2, <2>4 DEF Splits, Splitting
    <3> QED
      BY <2>5, <3>1, <3>2 DEF Placed
  <2>7. Holds(w)' = Holds(w) \ {n}
    <3>1. Holds(w)' = Range(t) \cup (IF s \in Range(t) \cup {Null} THEN {} ELSE {th[w].n, s})
      BY <2>2, <2>4 DEF Holds
    <3>2. h[Len(h)] \in Range(t)
      <4>1. Range(t) = {t[i] : i \in 1..Len(t)}
        BY <2>3, RangeFacts
      <4>2. Len(t) \in 1..Len(t)
        BY <2>3
      <4> QED
        BY <2>3, <4>1, <4>2
    <3>3. Null \notin Range(h)
      <4>1. Null \notin DOMAIN node
        BY <1>1, NodeSeq DEF Null
      <4>2. Range(h) \subseteq DOMAIN node
        BY <1>2, RangeFacts
      <4> QED
        BY <4>1, <4>2
    <3>4. Range(t) = Range(h) \ {n} /\ n \in Range(h)
      BY <1>5, <2>3
    <3> HIDE DEF s, h
    <3>5. CASE s = Null
      BY <1>7, <3>1, <3>4, <3>5
    <3>6. CASE s = h[Len(h)]
      BY <1>7, <3>1, <3>2, <3>4, <3>6
    <3>7. CASE th[w].n \notin Range(h) /\ s \notin Range(h)
      BY <1>7, <3>1, <3>4, <3>7
    <3> QED
      BY <1>2, <3>5, <3>6, <3>7
  <2> QED
    BY <1>6, <1>8, <2>4, <2>6, <2>7 DEF WorkerStep
<1>10. Len(h) = 1 => Range(h) = {n} /\ h[Len(h)] = n
  <2> SUFFICES ASSUME Len(h) = 1 PROVE Range(h) = {n} /\ h[Len(h)] = n
    OBVIOUS
  <2>1. Range(h) = {h[i] : i \in 1..Len(h)}
    BY <1>2, RangeFacts
  <2>2. \A i \in 1..Len(h) : i = 1
    OBVIOUS
  <2> QED
    BY <1>4, <2>1, <2>2
<1>11. CASE Len(h) = 1 /\ s \notin {Null, n}
  <2> DEFINE r == [th[w] EXCEPT !.pc = "parent", !.held = <<>>]
  <2>1. th' = [th EXCEPT ![w] = r] /\ Silent
    <3>1. ~(Len(h) > 1) /\ s \notin {Null, n}
      BY <1>11
    <3> QED
      BY <3>1 DEF Unlock, IInv, Threads
  <2>2. /\ DOMAIN r = Fields /\ r.pc = "parent" /\ r.n = th[w].n /\ r.sib = s
        /\ r.next = th[w].next /\ r.split = th[w].split
    BY <1>1 DEF Fields
  <2> HIDE DEF r
  <2>3. Threads' /\ Others(w) /\ th'[w] = r /\ call' = call
    BY <2>1, <2>2, QuietThreads
  <2>4. Placed(w)'
    BY <1>3, <1>6, <1>11, <2>2, <2>3, PlacedSplitting DEF Splitting
  <2>5. Holds(w)' = {th[w].n, s}
    BY <2>2, <2>3 DEF Holds
  <2>6. Holds(w)' = Holds(w) \ {n}
    <3>1. Range(h) = {n} /\ h[Len(h)] = n
      BY <1>10, <1>11
    <3> HIDE DEF n, s, h
    <3> QED
      BY <1>2, <1>7, <1>11, <2>5, <3>1
  <2> QED
    BY <1>6, <1>8, <2>3, <2>4, <2>6 DEF WorkerStep
<1>12. CASE Len(h) = 1 /\ s \in {Null, n}
  <2>1. Return(w, call[w].val)
    BY <1>12 DEF Unlock
  <2>2. Threads' /\ Others(w) /\ Placed(w)' /\ th'[w] = Idle
    BY <2>1, ReturnFacts
  <2>3. Holds(w)' = {}
    BY <2>2 DEF Holds, Idle
  <2>4. Holds(w)' = Holds(w) \ {n}
    BY <1>7, <1>10, <1>12, <2>3
  <2> QED
    BY <1>6, <1>8, <2>2, <2>4 DEF WorkerStep
<1>13. Len(h) > 1 \/ Len(h) = 1
  <2>1. Len(h) \in Nat /\ Len(h) > 0
    BY <1>2
  <2>2. ASSUME NEW k \in Nat, k > 0 PROVE k > 1 \/ k = 1
    BY <2>2
  <2> HIDE DEF h
  <2> QED
    BY <2>1, <2>2
<1> QED
  BY <1>9, <1>11, <1>12, <1>13

-----------------------------------------------------------------------------
(* The theorems.                                                            *)

\* Nobody is at work on the tree that a run begins with.
LEMMA InitFine ==
  ASSUME Init
  PROVE  IInv
<1>1. PICK s \in Scenarios : node = s.nodes /\ root = s.root /\ todo = s.script
  BY DEF Init
<1>2. /\ node \in Seq(Nodes) /\ Linked(node) /\ root \in DOMAIN node
      /\ \A n \in DOMAIN node : ~node[n].locked /\ node[n].torn = {}
      /\ todo \in [Workers -> Seq(Map!Calls)]
  BY <1>1, TreeAssumption
<1>3. TreeFine
  <2> SUFFICES ASSUME NEW n \in DOMAIN node PROVE NodeFine(node[n], DOMAIN node, Leaves)
    BY <1>2 DEF TreeFine
  <2>1. node[n] \in Nodes
    BY <1>2
  <2> QED
    BY <1>2, <2>1 DEF Linked, NodeFine, Leaves
<1>4. DOMAIN Idle = Fields /\ Idle.pc = "idle" /\ Idle.n = Null /\ Idle.next = Null
      /\ Idle.sib = Null
  BY DEF Idle, Fields
<1>5. DOMAIN th = Workers /\ \A w \in Workers : th[w] = Idle
  BY DEF Init
<1>6. call \in [Workers -> {Map!NoCall}]
  BY DEF Init
<1>7. Threads
  BY <1>2, <1>4, <1>5, <1>6 DEF Threads
<1>8. \A w \in Workers : Placed(w)
  BY <1>4, <1>5 DEF Placed, Knows, Splits, Releases, Descending, Reading, Writing, Splitting,
                    Releasing
<1>9. \A w \in Workers : Holds(w) = {}
  BY <1>4, <1>5 DEF Holds
<1>10. LocksOwned
  BY <1>2, <1>9 DEF LocksOwned
<1> QED
  BY <1>3, <1>7, <1>8, <1>10 DEF IInv

\* Steps that change nothing.
LEMMA Stutter ==
  ASSUME IInv, UNCHANGED vars
  PROVE  IInv'
<1>1. node' = node /\ root' = root /\ th' = th /\ todo' = todo /\ call' = call
  BY DEF vars, tree
<1>2. TreeFine' /\ Threads'
  BY <1>1 DEF IInv, TreeFine, Threads, Leaves
<1>3. \A w \in Workers : Placed(w)'
  BY <1>1 DEF IInv, Placed, Knows, Splits, Releases, Leaves
<1>4. \A w \in Workers : Holds(w)' = Holds(w)
  BY <1>1 DEF Holds
<1>5. LocksOwned'
  BY <1>1, <1>4 DEF IInv, LocksOwned
<1> QED
  BY <1>2, <1>3, <1>5 DEF IInv

\* Every step of a worker is one of those that StepKeeps is about.
LEMMA WorkersStep ==
  ASSUME IInv, NEW w \in Workers, Begin(w) \/ Continue(w)
  PROVE  WorkerStep(w)
<1>1. CASE Begin(w)
  BY <1>1, BeginStep
<1>2. CASE Continue(w)
  BY <1>2, DescentStep, ReadStep, LockLeafStep, ChangeRecordStep, OverwriteStep,
     InsertStep, SplitLeafStep, LinkStep, ReadParentStep, LockParentStep, NewRootStep,
     SetRootStep, InsertParentStep, SplitParentStep, BumpStep, UnlockStep DEF Continue
<1> QED
  BY <1>1, <1>2

\* Every step preserves the invariant.
LEMMA NextKeeps ==
  ASSUME IInv, [Next]_vars
  PROVE  IInv'
<1>1. CASE UNCHANGED vars
  BY <1>1, Stutter
<1>2. ASSUME NEW w \in Workers, Begin(w) \/ Continue(w)
      PROVE  IInv'
  BY <1>2, WorkersStep, StepKeeps
<1> QED
  BY <1>1, <1>2 DEF Next, Finished

\* The tree is well-formed, every worker is where its locks are known, and the locked
\* nodes are those that the workers still have to release, at every step of get, insert,
\* update, remove and scan (xindex_buffer_impl.h:54-581).
THEOREM TreeInvariant == Spec => []IInv
<1>1. Init => IInv
  BY InitFine
<1>2. IInv /\ [Next]_vars => IInv'
  BY NextKeeps
<1> QED
  BY <1>1, <1>2, PTL DEF Spec

\* Nodes have room for their records and point to nodes of the right kind, for every
\* capacity, number of workers and script (xindex_buffer_impl.h:257-568).
THEOREM TreeTyped == Spec => []TypeOK
<1>1. IInv => TypeOK
  BY DEF IInv, TreeFine, NodeFine, TypeOK, Linked, Leaves, Placed, Knows
<1> QED
  BY <1>1, TreeInvariant, PTL

\* A node is locked while exactly one worker has it to unlock, on every way through a
\* split (xindex_buffer_impl.h:194-209, 257-480, 570-581).
THEOREM LocksHaveOwners == Spec => []LocksOwned
<1>1. IInv => LocksOwned
  BY DEF IInv
<1> QED
  BY <1>1, TreeInvariant, PTL

-----------------------------------------------------------------------------
(* Readers.                                                                 *)

\* The places at which a worker has read the version of its node.
Versioned == {"isroot", "child", "childver", "nodelock", "nodever", "next", "search", "read",
              "copy", "copynext", "leaflock", "leafcheck"}

\* The versions that worker w has read are not newer than the nodes, and what it has
\* found in a node is right as long as the node is whole and has the version it read.
Fit(w) ==
  LET r == th[w]
      same == N(w).torn = {} /\ N(w).ver = r.ver
  IN  /\ r.pc \in Versioned => r.ver \in Nat /\ r.ver <= N(w).ver
      /\ r.pc \in {"nodelock", "nodever"} => r.kver \in Nat /\ r.kver <= node[r.kid].ver
      /\ r.pc \in {"childver", "nodelock", "nodever"} /\ same => r.kid = ChildOf(r.n, Key(w))
      /\ r.pc \in {"read", "leaflock", "leafcheck"} /\ call[w].op = "get" /\ same =>
           r.slot = SlotOf(r.n, Key(w))
      /\ r.pc \in {"copy", "copynext", "leafver"} => call[w].op # "get"

\* The nodes that worker w may have rewritten without moving their versions.
TornBy(w) ==
  CASE th[w].pc \in {"locked", "apply"} -> {}
    [] th[w].pc = "checkparent" -> {th[w].n, th[w].sib}
    [] th[w].pc = "unlock" -> Holds(w) \ Range(th[w].held)
    [] OTHER -> Holds(w)

Whole == \A n \in DOMAIN node : node[n].torn # {} => \E w \in Workers : n \in TornBy(w)

VInv == (\A w \in Workers : Fit(w)) /\ Whole

\* What a reader may have found in a node.
SameBody(n) ==
  /\ node'[n].torn = node[n].torn /\ node'[n].ver = node[n].ver
  /\ node'[n].keys = node[n].keys /\ node'[n].kids = node[n].kids

\* A node that is whole, and has the version it had, is the one it was.
Steady ==
  \A n \in DOMAIN node :
    /\ node'[n].ver >= node[n].ver
    /\ node'[n].torn = {} /\ node'[n].ver = node[n].ver => SameBody(n)

\* What worker w leaves torn it has to repair.
TornStep(w) ==
  \A n \in DOMAIN node' : node'[n].torn # {} =>
    \/ n \in TornBy(w)'
    \/ n \in DOMAIN node /\ node[n].torn # {} /\ n \notin TornBy(w)

\* Only the nodes in S are rewritten.
Rewrites(S) ==
  /\ \A n \in DOMAIN node : IF n \in S THEN node'[n].ver = node[n].ver /\ node'[n].torn # {}
                            ELSE SameBody(n)
  /\ \A n \in DOMAIN node' \ DOMAIN node : node'[n].torn = {}

\* Versions are numbers.
LEMMA VersionFacts ==
  ASSUME TreeFine
  PROVE  \A n \in DOMAIN node : node[n].ver \in Nat
BY DEF TreeFine, NodeFine, Nodes

\* Rewriting nodes and keeping their locks.
LEMMA RewriteStep ==
  ASSUME TreeFine, NEW w \in Workers, NEW S, Rewrites(S), S \subseteq TornBy(w)',
         TornBy(w) \subseteq TornBy(w)'
  PROVE  Steady /\ TornStep(w)
<1>1. Steady
  BY VersionFacts DEF Rewrites, SameBody, Steady
<1>2. TornStep(w)
  BY DEF Rewrites, SameBody, TornStep
<1> QED
  BY <1>1, <1>2

\* The other workers are right about the nodes they read.
LEMMA OthersFit ==
  ASSUME IInv, NEW v \in Workers, Fit(v), Steady, Grows, th'[v] = th[v], call'[v] = call[v]
  PROVE  Fit(v)'
<1> DEFINE n == th[v].n
           k == th[v].kid
<1>1. Knows(v)
  BY DEF IInv, Placed
<1>2. th[v].pc \in Versioned \cup {"leafver"} => n \in DOMAIN node
  BY <1>1 DEF Knows, Descending, Reading, Versioned, Leaves
<1>3. th[v].pc \in {"childver", "nodelock", "nodever"} => k \in DOMAIN node
  BY <1>1 DEF Knows
<1>4. \A m \in DOMAIN node : node[m].ver \in Nat /\ node'[m].ver \in Nat
  BY DEF IInv, Grows, TreeFine, NodeFine, Nodes
<1>5. \A m \in DOMAIN node : \A key : SameBody(m) =>
        ChildOf(m, key)' = ChildOf(m, key) /\ SlotOf(m, key)' = SlotOf(m, key)
  BY DEF SameBody, ChildOf, SlotOf
<1>6. th'[v].n = n /\ th'[v].kid = k /\ Key(v)' = Key(v) /\ N(v) = node[n] /\ N(v)' = node'[n]
  BY DEF Key, N
<1>7. th[v].pc \in Versioned => th[v].ver \in Nat /\ th[v].ver <= node'[n].ver
  BY <1>2, <1>4, <1>6 DEF Fit, Steady
<1>8. th[v].pc \in {"nodelock", "nodever"} => th[v].kver \in Nat /\ th[v].kver <= node'[k].ver
  BY <1>3, <1>4 DEF Fit, Steady
<1>9. ASSUME th[v].pc \in Versioned, node'[n].torn = {}, node'[n].ver = th[v].ver
      PROVE  SameBody(n) /\ node[n].torn = {} /\ node[n].ver = th[v].ver
  <2>1. node[n].ver = node'[n].ver
    BY <1>2, <1>4, <1>6, <1>9 DEF Fit, Steady
  <2> QED
    BY <1>2, <1>9, <2>1 DEF Steady, SameBody
<1>10. th[v].pc \in {"childver", "nodelock", "nodever"} /\ node'[n].torn = {}
          /\ node'[n].ver = th[v].ver => k = ChildOf(n, Key(v))'
  BY <1>2, <1>5, <1>6, <1>9 DEF Fit, Versioned
<1>11. th[v].pc \in {"read", "leaflock", "leafcheck"} /\ call[v].op = "get"
          /\ node'[n].torn = {} /\ node'[n].ver = th[v].ver => th[v].slot = SlotOf(n, Key(v))'
  BY <1>2, <1>5, <1>6, <1>9 DEF Fit, Versioned
<1>12. th[v].pc \in {"copy", "copynext", "leafver"} => call[v].op # "get"
  BY DEF Fit
<1> QED
  BY <1>6, <1>7, <1>8, <1>10, <1>11, <1>12 DEF Fit

\* A step that is steady and torn only for its worker's locks keeps readers right.
LEMMA StepKeepsReaders ==
  ASSUME IInv, VInv, NEW w \in Workers, WorkerStep(w), Fit(w)', Steady, TornStep(w)
  PROVE  VInv'
<1>1. ASSUME NEW v \in Workers \ {w}
      PROVE  Fit(v)' /\ TornBy(v)' = TornBy(v)
  <2>1. th'[v] = th[v] /\ call'[v] = call[v] /\ Grows
    BY DEF WorkerStep, Others
  <2>2. Fit(v)'
    BY <2>1, OthersFit DEF VInv
  <2> QED
    BY <2>1, <2>2 DEF TornBy, Holds
<1>2. Whole'
  <2> SUFFICES ASSUME NEW n \in DOMAIN node', node'[n].torn # {}
               PROVE  \E v \in Workers : n \in TornBy(v)'
    BY DEF Whole
  <2>1. CASE n \in TornBy(w)'
    BY <2>1
  <2>2. CASE n \in DOMAIN node /\ node[n].torn # {} /\ n \notin TornBy(w)
    <3>1. PICK v \in Workers : n \in TornBy(v)
      BY <2>2 DEF VInv, Whole
    <3>2. v # w
      BY <2>2, <3>1
    <3> QED
      BY <1>1, <3>1, <3>2
  <2> QED
    BY <2>1, <2>2 DEF TornStep
<1> QED
  BY <1>1, <1>2 DEF VInv

\* What a step of worker w has to show of the readers.
KeepsReaders(w) == Fit(w)' /\ Steady /\ TornStep(w)

\* A worker that has no version to compare is right.
LEMMA NothingRead ==
  ASSUME NEW w, th'[w].pc \notin Versioned \cup {"leafver"}
  PROVE  Fit(w)'
BY DEF Fit, Versioned

\* A writer that rewrites the nodes in S, and has them locked from there on.
LEMMA WriterStep ==
  ASSUME IInv, NEW w \in Workers, NEW S, Rewrites(S), S \subseteq TornBy(w)',
         TornBy(w) \subseteq TornBy(w)', th'[w].pc \notin Versioned \cup {"leafver"}
  PROVE  KeepsReaders(w)
<1>1. TreeFine
  BY DEF IInv
<1> QED
  BY <1>1, RewriteStep, NothingRead DEF KeepsReaders

\* The fields of a node.
LEMMA NodeDomain ==
  ASSUME TreeFine
  PROVE  \A m \in DOMAIN node : DOMAIN node[m] = {"leaf", "keys", "vals", "kids", "next",
                                                   "parent", "ver", "locked", "torn"}
BY NodeFacts DEF Nodes

\* A node that gets or loses its lock.
LEMMA LockRewrites ==
  ASSUME TreeFine, NEW n \in DOMAIN node, NEW b, node' = [node EXCEPT ![n].locked = b]
  PROVE  Rewrites({})
BY NodeDomain DEF Rewrites, SameBody

\* A step that leaves the nodes alone.
LEMMA SameRewrites ==
  ASSUME node' = node
  PROVE  Rewrites({})
BY DEF Rewrites, SameBody

\* A leaf is locked, and unlocked if it has changed.
LEMMA LockLeafReaders ==
  ASSUME IInv, NEW w \in Workers, Lock(w) \/ CheckLocked(w)
  PROVE  KeepsReaders(w)
<1>1. th[w].n \in DOMAIN node /\ TreeFine /\ DOMAIN th = Workers /\ DOMAIN th[w] = Fields
  BY DEF IInv, Threads, Placed, Knows, Writing, Lock, CheckLocked, Leaves
<1>2. Rewrites({})
  BY <1>1, LockRewrites, SameRewrites DEF Lock, CheckLocked
<1>3. TornBy(w) = {}
  BY DEF TornBy, Holds, Lock, CheckLocked
<1>4. th'[w].pc \in {"locked", "moved", "apply"}
  BY <1>1 DEF Lock, CheckLocked, Goto, Fields
<1> QED
  BY <1>2, <1>3, <1>4, WriterStep DEF Versioned

\* A leaf that is changed under its lock.
LEMMA LeafReaders ==
  ASSUME IInv, NEW w \in Workers, ChangeRecord(w) \/ Overwrite(w) \/ Insert(w)
  PROVE  KeepsReaders(w)
<1> DEFINE n == th[w].n
<1>1. /\ n \in DOMAIN node /\ TreeFine /\ DOMAIN th = Workers /\ DOMAIN th[w] = Fields
      /\ th[w].pc = "apply" /\ th[w].sib = Null
  BY DEF IInv, Threads, Placed, Knows, Writing, ChangeRecord, Overwrite, Insert, Leaves
<1>2. TornBy(w) = {}
  BY <1>1 DEF TornBy
<1>3. CASE ChangeRecord(w)
  <2>1. Rewrites({})
    BY <1>1, <1>3, NodeDomain DEF ChangeRecord, Rewrites, SameBody
  <2>2. th'[w].pc = "unlock"
    BY <1>1, <1>3 DEF ChangeRecord, TakeEffect, Fields
  <2> QED
    BY <1>2, <2>1, <2>2, WriterStep DEF Versioned
<1>4. CASE Overwrite(w) \/ Insert(w)
  <2>1. Rewrites({n})
    <3>1. /\ DOMAIN node' = DOMAIN node /\ \A m \in DOMAIN node \ {n} : node'[m] = node[m]
          /\ node'[n].ver = node[n].ver /\ node'[n].torn = {Null}
      <4>1. CASE Overwrite(w)
        BY <1>1, <4>1, NodeDomain DEF Overwrite
      <4>2. CASE Insert(w)
        <5>1. PICK ks, vs : node' = [node EXCEPT ![n].keys = ks, ![n].vals = vs,
                                                 ![n].torn = {Null}]
          BY <4>2 DEF Insert
        <5> QED
          BY <1>1, <5>1, NodeDomain
      <4> QED
        BY <1>4, <4>1, <4>2
    <3> QED
      BY <3>1 DEF Rewrites, SameBody
  <2>2. th'[w].pc = "bump" /\ th'[w].sib = Null /\ th'[w].held = <<n>>
    BY <1>1, <1>4, SMTT(30) DEF Overwrite, Insert, TakeEffect, Fields
  <2>3. n \in Range(<<n>>)
    <3>1. 1 \in DOMAIN <<n>> /\ <<n>>[1] = n
      OBVIOUS
    <3> QED
      BY <3>1 DEF Range
  <2>4. n \in TornBy(w)'
    BY <2>2, <2>3 DEF TornBy, Holds
  <2> QED
    BY <1>2, <2>1, <2>2, <2>4, WriterStep DEF Versioned
<1> QED
  BY <1>3, <1>4

\* A split that links its halves, and finds and locks their parent.
LEMMA ParentReaders ==
  ASSUME IInv, NEW w \in Workers, Link(w) \/ ReadParent(w) \/ LockParent(w) \/ CheckParent(w)
  PROVE  KeepsReaders(w)
<1> DEFINE n == th[w].n
           s == th[w].sib
<1>1. /\ n \in DOMAIN node /\ s \in DOMAIN node /\ n # s /\ TreeFine
      /\ DOMAIN th = Workers /\ DOMAIN th[w] = Fields
      /\ th[w].pc \in {"link", "parent", "lockparent", "checkparent"}
      /\ th[w].pc \in {"lockparent", "checkparent"} => th[w].parent \in DOMAIN node
  BY DEF IInv, Threads, Placed, Splits, Splitting, Link, ReadParent, LockParent, CheckParent
<1>2. Rewrites({})
  <2>1. CASE Link(w)
    BY <1>1, <2>1, NodeDomain DEF Link, Rewrites, SameBody
  <2>2. CASE ReadParent(w)
    BY <2>2, SameRewrites DEF ReadParent, tree
  <2>3. CASE LockParent(w)
    BY <1>1, <2>3, LockRewrites DEF LockParent
  <2>4. CASE CheckParent(w)
    BY <1>1, <2>4, LockRewrites, SameRewrites DEF CheckParent
  <2> QED
    BY <2>1, <2>2, <2>3, <2>4
<1>3. /\ th'[w].pc \in {"parent", "newroot", "lockparent", "checkparent", "insertparent"}
      /\ th'[w].n = n /\ th'[w].sib = s
  BY <1>1 DEF Link, ReadParent, LockParent, CheckParent, Goto, Fields
<1>4. TornBy(w) \subseteq {n, s}
  BY <1>1 DEF TornBy, Holds
<1>5. {n, s} \subseteq TornBy(w)'
  BY <1>3 DEF TornBy, Holds
<1> QED
  BY <1>2, <1>3, <1>4, <1>5, WriterStep DEF Versioned

\* One node is allocated, the others are rewritten as f has them.
LEMMA AppendRewrites ==
  ASSUME TreeFine, NEW S, NEW f, f = [n \in 1..Len(node) |-> f[n]], NEW x, x.torn = {},
         node' = Append(f, x),
         \A n \in DOMAIN node \cap S : f[n].ver = node[n].ver /\ f[n].torn # {},
         \A n \in DOMAIN node \ S : /\ f[n].torn = node[n].torn /\ f[n].ver = node[n].ver
                                    /\ f[n].keys = node[n].keys /\ f[n].kids = node[n].kids
  PROVE  Rewrites(S)
<1>1. Len(node) \in Nat /\ DOMAIN node = 1..Len(node)
  BY NodeSeq
<1>2. /\ DOMAIN node' = 1..Len(node) + 1 /\ node'[Len(node) + 1] = x
      /\ \A n \in 1..Len(node) : node'[n] = f[n]
  BY <1>1, AppendFacts
<1>3. \A n \in DOMAIN node' \ DOMAIN node : n = Len(node) + 1
  BY <1>1, <1>2
<1> QED
  BY <1>1, <1>2, <1>3 DEF Rewrites, SameBody

\* A leaf is split: the new half is not yet to be reached.
LEMMA SplitLeafReaders ==
  ASSUME IInv, NEW w \in Workers, SplitLeaf(w)
  PROVE  KeepsReaders(w)
<1> DEFINE n == th[w].n
           slot == FirstAtLeast(node[n].keys, Key(w))
           keys == InsertAt(node[n].keys, slot + 1, Key(w))
           vals == InsertAt(node[n].vals, slot + 1, call[w].val)
           cut == LeafCut(slot)
           sib == [Leaf(SubSeq(keys, cut + 1, Capacity + 1),
                        SubSeq(vals, cut + 1, Capacity + 1), Null, Null)
                     EXCEPT !.locked = TRUE]
           x == [node[n] EXCEPT !.keys = SubSeq(keys, 1, cut), !.vals = SubSeq(vals, 1, cut),
                                !.torn = {Null}]
           f == [node EXCEPT ![n] = x]
<1>1. /\ n \in DOMAIN node /\ TreeFine /\ DOMAIN th = Workers /\ DOMAIN th[w] = Fields
      /\ th[w].pc = "apply"
  BY DEF IInv, Threads, Placed, Knows, Writing, SplitLeaf, Leaves
<1>2. node' = Append(f, sib)
  BY <1>1 DEF SplitLeaf
<1>3. x.ver = node[n].ver /\ x.torn = {Null}
  BY <1>1, NodeFacts DEF Nodes
<1>4. sib.torn = {}
  BY DEF Leaf
<1>5. th'[w].pc = "link" /\ th'[w].n = n
  BY <1>1 DEF SplitLeaf, Fields
<1>6. DOMAIN node = 1..Len(node)
  BY <1>1, NodeSeq
<1> HIDE DEF x, sib
<1>7. /\ f = [m \in 1..Len(node) |-> f[m]] /\ f[n] = x
      /\ \A m \in DOMAIN node : m # n => f[m] = node[m]
  BY <1>1, <1>6
<1> HIDE DEF f
<1>8. Rewrites({n})
  <2>1. \A m \in DOMAIN node \cap {n} : f[m].ver = node[m].ver /\ f[m].torn # {}
    BY <1>3, <1>7
  <2>2. \A m \in DOMAIN node \ {n} : /\ f[m].torn = node[m].torn /\ f[m].ver = node[m].ver
                                     /\ f[m].keys = node[m].keys /\ f[m].kids = node[m].kids
    BY <1>7
  <2> HIDE DEF n
  <2> QED
    BY <1>1, <1>2, <1>4, <1>7, <2>1, <2>2, AppendRewrites
<1>9. TornBy(w) = {} /\ n \in TornBy(w)'
  BY <1>1, <1>5 DEF TornBy, Holds
<1> QED
  BY <1>5, <1>8, <1>9, WriterStep DEF Versioned

\* A new root changes the parents of the halves, which readers do not compare.
LEMMA NewRootReaders ==
  ASSUME IInv, NEW w \in Workers, NewRoot(w)
  PROVE  KeepsReaders(w)
<1> DEFINE n == th[w].n
           s == th[w].sib
           p == Len(node) + 1
           x == [node[n] EXCEPT !.parent = p]
           y == [node[s] EXCEPT !.parent = p]
           f == [[node EXCEPT ![n] = x] EXCEPT ![s] = y]
           top == [Internal(<<th[w].split>>, <<n, s>>, Null) EXCEPT !.locked = TRUE]
<1>1. /\ th[w].pc = "newroot" /\ TreeFine /\ DOMAIN th = Workers /\ DOMAIN th[w] = Fields
      /\ n \in DOMAIN node /\ s \in DOMAIN node /\ n # s
  BY DEF NewRoot, IInv, Threads, Placed, Splits, Splitting
<1>2. node' = Append(f, top)
  BY <1>1 DEF NewRoot
<1>3. /\ x.torn = node[n].torn /\ x.ver = node[n].ver
      /\ x.keys = node[n].keys /\ x.kids = node[n].kids
      /\ y.torn = node[s].torn /\ y.ver = node[s].ver
      /\ y.keys = node[s].keys /\ y.kids = node[s].kids
  BY <1>1, NodeFacts DEF Nodes
<1>4. top.torn = {}
  BY DEF Internal
<1>5. th'[w].pc = "setroot" /\ th'[w].n = n /\ th'[w].sib = s
  BY <1>1 DEF NewRoot, Fields
<1>6. DOMAIN node = 1..Len(node)
  BY <1>1, NodeSeq
<1> HIDE DEF x, y, top, p
<1>7. /\ f = [m \in 1..Len(node) |-> f[m]] /\ f[n] = x /\ f[s] = y
      /\ \A m \in DOMAIN node : m \notin {n, s} => f[m] = node[m]
  BY <1>1, <1>6
<1> HIDE DEF f
<1>8. Rewrites({})
  <2>1. \A m \in DOMAIN node \ {} : /\ f[m].torn = node[m].torn /\ f[m].ver = node[m].ver
                                    /\ f[m].keys = node[m].keys /\ f[m].kids = node[m].kids
    BY <1>3, <1>7
  <2> QED
    BY <1>1, <1>2, <1>4, <1>7, <2>1, AppendRewrites
<1>9. TornBy(w) \subseteq TornBy(w)'
  BY <1>1, <1>5 DEF TornBy, Holds
<1> QED
  BY <1>5, <1>8, <1>9, WriterStep DEF Versioned

\* The locks of a worker that has reached the top of its split.
LEMMA BumpedFacts ==
  ASSUME IInv, NEW w \in Workers, th[w].pc \in {"insertparent", "setroot"}, WorkerStep(w),
         Silent, th' = [th EXCEPT ![w] = Bumped(w)]
  PROVE  TornBy(w) = TornBy(w)' /\ th[w].parent \in TornBy(w)' /\ th'[w].pc = "bump"
<1>1. /\ Holds(w)' = Holds(w) /\ th[w].parent \in Holds(w)
  BY BumpPlaced DEF WorkerStep
<1>2. th'[w].pc = "bump"
  BY DEF IInv, Threads, Fields, Bumped
<1> QED
  BY <1>1, <1>2 DEF TornBy

\* The parent of the halves is rewritten, or becomes the root.
LEMMA TopReaders ==
  ASSUME IInv, NEW w \in Workers, SetRoot(w) \/ InsertParent(w), WorkerStep(w)
  PROVE  KeepsReaders(w)
<1> DEFINE p == th[w].parent
           s == th[w].sib
<1>1. /\ th[w].pc \in {"insertparent", "setroot"} /\ TreeFine
      /\ p \in DOMAIN node /\ s \in DOMAIN node /\ p # s /\ Silent
  BY DEF SetRoot, InsertParent, IInv, Threads, Placed, Splits, Splitting
<1>2. th' = [th EXCEPT ![w] = Bumped(w)]
  BY DEF SetRoot, InsertParent, Bumped, IInv, Threads
<1>3. TornBy(w) = TornBy(w)' /\ p \in TornBy(w)' /\ th'[w].pc = "bump"
  BY <1>1, <1>2, BumpedFacts
<1>4. CASE SetRoot(w)
  <2>1. Rewrites({})
    BY <1>4, SameRewrites DEF SetRoot
  <2> QED
    BY <1>3, <2>1, WriterStep DEF Versioned
<1>5. CASE InsertParent(w)
  <2> DEFINE i == FirstLarger(node[p].keys, th[w].split) + 1
             keys == InsertAt(node[p].keys, i, th[w].split)
             kids == InsertAt(node[p].kids, i + 1, s)
             torn == Range(node[p].kids) \cup {s}
             x == [node[p] EXCEPT !.keys = keys, !.kids = kids, !.torn = torn]
             y == [node[s] EXCEPT !.parent = p]
  <2>1. node' = [[node EXCEPT ![p] = x] EXCEPT ![s] = y]
    BY <1>1, <1>5 DEF InsertParent
  <2>2. x.ver = node[p].ver /\ x.torn = torn /\ torn # {}
    BY <1>1, NodeFacts DEF Nodes
  <2>3. /\ y.torn = node[s].torn /\ y.ver = node[s].ver
        /\ y.keys = node[s].keys /\ y.kids = node[s].kids
    BY <1>1, NodeFacts DEF Nodes
  <2> HIDE DEF x, y, torn
  <2>4. /\ DOMAIN node' = DOMAIN node /\ node'[p] = x /\ node'[s] = y
        /\ \A m \in DOMAIN node : m \notin {p, s} => node'[m] = node[m]
    BY <1>1, <2>1
  <2>5. Rewrites({p})
    BY <1>1, <2>2, <2>3, <2>4 DEF Rewrites, SameBody
  <2> QED
    BY <1>3, <2>5, WriterStep DEF Versioned
<1> QED
  BY <1>4, <1>5

\* A parent is split, and has its lock until its own version is moved.
LEMMA SplitParentReaders ==
  ASSUME IInv, NEW w \in Workers, SplitParent(w)
  PROVE  KeepsReaders(w)
<1> DEFINE p == th[w].parent
           n == th[w].n
           s == th[w].sib
           q == Len(node) + 1
           slot == FirstLarger(node[p].keys, th[w].split)
           keys == InsertAt(node[p].keys, slot + 1, th[w].split)
           kids == InsertAt(node[p].kids, slot + 2, s)
           cut == ParentCut(slot)
           right == SubSeq(kids, cut + 2, Capacity + 2)
           adopted == [c \in DOMAIN node |->
                         IF c \in Range(right) THEN [node[c] EXCEPT !.parent = q]
                         ELSE IF c = s THEN [node[c] EXCEPT !.parent = p] ELSE node[c]]
           x == [adopted[p] EXCEPT !.keys = SubSeq(keys, 1, cut),
                                   !.kids = SubSeq(kids, 1, cut + 1), !.torn = Range(kids)]
           f == [adopted EXCEPT ![p] = x]
           top == [Internal(SubSeq(keys, cut + 2, Capacity + 1), right, Null)
                     EXCEPT !.locked = TRUE]
           h == <<n, s>>
           r == [th[w] EXCEPT !.pc = "bump", !.held = h, !.n = p, !.sib = q,
                              !.split = keys[cut + 1]]
<1>1. th[w].pc = "insertparent" /\ DOMAIN th = Workers /\ DOMAIN th[w] = Fields
  BY DEF SplitParent, IInv, Threads
<1>2. /\ TreeFine /\ p \in DOMAIN node /\ s \in DOMAIN node /\ n \in DOMAIN node /\ p # s
      /\ n # s /\ kids \in Seq(DOMAIN node) /\ Len(kids) = Len(node[p].keys) + 2
      /\ Len(node[p].keys) \in Nat
  <2>1. /\ TreeFine /\ p \in DOMAIN node /\ s \in DOMAIN node /\ n \in DOMAIN node /\ p # s
        /\ n # s /\ kids \in Seq(DOMAIN node) /\ Len(kids) = Len(node[p].keys) + 2
        /\ node[p] \in Nodes
    BY <1>1, InsertParentFacts
  <2> HIDE DEF kids
  <2> QED
    BY <2>1 DEF Nodes
<1>3. node' = Append(f, top)
  BY <1>2, ZenonT(40) DEF SplitParent
<1>4. th'[w] = r
  BY <1>1 DEF SplitParent
<1>5. r.pc = "bump" /\ r.n = p /\ r.sib = q /\ r.held = h
  BY <1>1 DEF Fields
<1>6. Len(node) \in Nat /\ DOMAIN node = 1..Len(node) /\ q \notin DOMAIN node /\ q # Null
  BY <1>2, NodeSeq DEF Null
<1>7. top.torn = {}
  BY DEF Internal
<1> HIDE DEF slot, keys, kids, cut, r, top, q
<1>8. Range(kids) # {}
  <2>1. Range(kids) = {kids[i] : i \in 1..Len(kids)} /\ 1 \in 1..Len(kids)
    BY <1>2, RangeFacts
  <2> QED
    BY <2>1
<1> HIDE DEF right
<1>9. \A c \in DOMAIN node :
        /\ adopted[c].torn = node[c].torn /\ adopted[c].ver = node[c].ver
        /\ adopted[c].keys = node[c].keys /\ adopted[c].kids = node[c].kids
        /\ "torn" \in DOMAIN adopted[c] /\ "ver" \in DOMAIN adopted[c]
  BY <1>2, NodeDomain
<1>10. DOMAIN adopted = 1..Len(node) /\ adopted = [c \in 1..Len(node) |-> adopted[c]]
  BY <1>6
<1> HIDE DEF adopted
<1>11. x.ver = node[p].ver /\ x.torn = Range(kids)
  BY <1>2, <1>9
<1> HIDE DEF x
<1>12. f = [m \in 1..Len(node) |-> f[m]] /\ f[p] = x
       /\ \A m \in DOMAIN node : m # p => f[m] = adopted[m]
  BY <1>2, <1>6, <1>10
<1> HIDE DEF f
<1>13. Rewrites({p})
  <2>1. \A m \in DOMAIN node \cap {p} : f[m].ver = node[m].ver /\ f[m].torn # {}
    BY <1>8, <1>11, <1>12
  <2>2. \A m \in DOMAIN node \ {p} : /\ f[m].torn = node[m].torn /\ f[m].ver = node[m].ver
                                     /\ f[m].keys = node[m].keys /\ f[m].kids = node[m].kids
    BY <1>9, <1>12
  <2> HIDE DEF p
  <2> QED
    BY <1>2, <1>3, <1>7, <1>12, <2>1, <2>2, AppendRewrites
<1>14. Range(h) = {n, s}
  <2> HIDE DEF n, s
  <2> QED
    BY <1>2, PairFacts
<1> HIDE DEF h
<1>15. TornBy(w) = {n, s, p}
  BY <1>1 DEF TornBy, Holds
<1>16. TornBy(w)' = {n, s, p, q}
  <2>1. q \notin Range(h) \cup {Null}
    BY <1>2, <1>6, <1>14
  <2> HIDE DEF n, s, p
  <2> QED
    BY <1>4, <1>5, <1>14, <2>1 DEF TornBy, Holds
<1>17. {p} \subseteq TornBy(w)' /\ TornBy(w) \subseteq TornBy(w)' /\ th'[w].pc = "bump"
  BY <1>4, <1>5, <1>15, <1>16
<1> QED
  BY <1>13, <1>17, WriterStep DEF Versioned

\* The versions are moved while the locks are held.
LEMMA BumpReaders ==
  ASSUME IInv, NEW w \in Workers, Bump(w)
  PROVE  KeepsReaders(w)
<1> DEFINE h == th[w].held
<1>1. th[w].pc = "bump" /\ DOMAIN th = Workers /\ DOMAIN th[w] = Fields /\ TreeFine
  BY DEF Bump, IInv, Threads
<1>2. /\ DOMAIN node' = DOMAIN node
      /\ \A m \in DOMAIN node : IF m \in Range(h)
                                THEN node'[m].ver = node[m].ver + 1 /\ node'[m].torn = {}
                                ELSE node'[m] = node[m]
  BY <1>1, NodeDomain DEF Bump
<1>3. /\ th'[w].pc = "unlock" /\ th'[w].n = th[w].n /\ th'[w].sib = th[w].sib
      /\ th'[w].held = h
  BY <1>1 DEF Bump, Goto, Fields
<1>4. Steady
  BY <1>1, <1>2, VersionFacts DEF Steady, SameBody
<1>5. TornBy(w) = Holds(w) /\ TornBy(w)' = Holds(w) \ Range(h)
  BY <1>1, <1>3 DEF TornBy, Holds
<1>6. TornStep(w)
  BY <1>2, <1>5 DEF TornStep
<1> QED
  BY <1>3, <1>4, <1>6, NothingRead DEF KeepsReaders, Versioned

\* A lock is released, after its node's version was moved.
LEMMA UnlockReaders ==
  ASSUME IInv, NEW w \in Workers, Unlock(w)
  PROVE  KeepsReaders(w)
<1> DEFINE h == th[w].held
           n == th[w].n
           s == th[w].sib
<1>1. /\ th[w].pc = "unlock" /\ DOMAIN th = Workers /\ DOMAIN th[w] = Fields /\ TreeFine
      /\ node' = [node EXCEPT ![Head(h)].locked = FALSE]
  BY DEF Unlock, IInv, Threads
<1>2. /\ h \in Seq(DOMAIN node) /\ Len(h) > 0 /\ Distinct(h)
      /\ s = Null \/ s = h[Len(h)] \/ (n \notin Range(h) /\ s \notin Range(h))
  BY <1>1 DEF IInv, Placed, Releases, Releasing
<1>3. Head(h) \in DOMAIN node /\ Head(h) \in Range(h)
  <2>1. Head(h) = h[1] /\ 1 \in 1..Len(h) /\ Head(h) \in DOMAIN node
    BY <1>2
  <2>2. Range(h) = {h[i] : i \in 1..Len(h)}
    BY <1>2, RangeFacts
  <2> QED
    BY <2>1, <2>2
<1>4. Rewrites({})
  <2> DEFINE m == Head(h)
  <2> HIDE DEF m
  <2>1. m \in DOMAIN node /\ node' = [node EXCEPT ![m].locked = FALSE]
    BY <1>1, <1>3 DEF m
  <2> QED
    BY <1>1, <2>1, LockRewrites
<1>5. h[Len(h)] \in Range(h)
  <2>1. Range(h) = {h[i] : i \in 1..Len(h)} /\ Len(h) \in 1..Len(h)
    BY <1>2, RangeFacts
  <2> QED
    BY <2>1
<1>6. TornBy(w) = IF s \in Range(h) \cup {Null} THEN {} ELSE {n, s}
  BY <1>1, <1>2, <1>5 DEF TornBy, Holds
<1>7. CASE Len(h) > 1
  <2>1. /\ th'[w].pc = "unlock" /\ th'[w].n = n /\ th'[w].sib = s /\ th'[w].held = Tail(h)
    <3>1. th' = [th EXCEPT ![w].held = Tail(@)]
      BY <1>7 DEF Unlock
    <3> QED
      BY <1>1, <3>1 DEF Fields
  <2>2. Range(Tail(h)) \subseteq Range(h)
    BY <1>2, <1>7, TailFacts
  <2>3. TornBy(w) \subseteq TornBy(w)'
    <3>1. CASE s \in Range(h) \cup {Null}
      BY <1>6, <3>1
    <3>2. CASE s \notin Range(h) \cup {Null}
      <4>1. n \notin Range(h)
        BY <1>2, <1>5, <3>2
      <4>2. TornBy(w) = {n, s}
        BY <1>6, <3>2
      <4>3. Holds(w)' = Range(Tail(h)) \cup {n, s} /\ TornBy(w)' = Holds(w)' \ Range(Tail(h))
        <5>1. s \notin Range(Tail(h)) \cup {Null}
          BY <2>2, <3>2
        <5> HIDE DEF n, s
        <5> QED
          BY <2>1, <5>1 DEF TornBy, Holds
      <4>4. n \notin Range(Tail(h)) /\ s \notin Range(Tail(h))
        BY <2>2, <3>2, <4>1
      <4> HIDE DEF n, s
      <4> QED
        BY <4>2, <4>3, <4>4
    <3> QED
      BY <3>1, <3>2
  <2> QED
    BY <1>4, <2>1, <2>3, WriterStep DEF Versioned
<1>8. CASE ~(Len(h) > 1) /\ s \notin {Null, Head(h)}
  <2>1. /\ th'[w].pc = "parent" /\ th'[w].n = n /\ th'[w].sib = s
    BY <1>1, <1>8 DEF Unlock, Fields
  <2>2. TornBy(w) \subseteq {n, s} /\ TornBy(w)' = {n, s}
    BY <1>6, <2>1 DEF TornBy, Holds
  <2> QED
    BY <1>4, <2>1, <2>2, WriterStep DEF Versioned
<1>9. CASE ~(Len(h) > 1) /\ s \in {Null, Head(h)}
  <2>1. TornBy(w) = {}
    BY <1>3, <1>6, <1>9
  <2>2. th'[w].pc = "idle"
    BY <1>1, <1>9 DEF Unlock, Return, Idle
  <2> QED
    BY <1>4, <2>1, <2>2, WriterStep DEF Versioned
<1> QED
  BY <1>7, <1>8, <1>9

\* A reader changes nothing and holds no lock.
LEMMA ReaderStep ==
  ASSUME IInv, NEW w \in Workers, node' = node, th[w].pc \in Loose, Fit(w)'
  PROVE  KeepsReaders(w)
<1>1. TornBy(w) = {}
  BY DEF TornBy, Holds, Loose, Descending, Reading
<1>2. Rewrites({}) /\ TreeFine
  BY SameRewrites DEF IInv
<1> QED
  BY <1>1, <1>2, RewriteStep DEF KeepsReaders

\* A reader on its way down.
LEMMA DescentReaders ==
  ASSUME IInv, NEW w \in Workers, Fit(w),
         \/ ReadRoot(w) \/ ReadRootVersion(w) \/ IsRoot(w) \/ FoundLeaf(w) \/ FindChild(w)
         \/ ReadChildVersion(w) \/ CheckNodeLock(w) \/ CheckNodeVersion(w)
  PROVE  KeepsReaders(w)
<1> DEFINE r == th[w]
           x == th'[w]
<1>1. /\ DOMAIN th = Workers /\ DOMAIN r = Fields
      /\ \A n \in DOMAIN node : node[n].ver \in Nat
      /\ r.pc \in Descending => r.n \in DOMAIN node
      /\ r.pc \in {"childver", "nodelock", "nodever"} => r.kid \in DOMAIN node
  BY VersionFacts DEF IInv, Threads, Placed, Knows
<1>2. node' = node /\ call' = call
  BY DEF ReadRoot, ReadRootVersion, IsRoot, FoundLeaf, FindChild, ReadChildVersion,
         CheckNodeLock, CheckNodeVersion, Step, Silent, tree
<1>3. Key(w)' = Key(w) /\ N(w)' = node[x.n]
  BY <1>2 DEF Key, N
<1>4. CASE ReadRoot(w)
  <2>1. x.pc = "rootver"
    BY <1>1, <1>4 DEF ReadRoot, Fields
  <2>2. Fit(w)'
    BY <2>1, NothingRead DEF Versioned
  <2> QED
    BY <1>2, <1>4, <2>2, ReaderStep DEF ReadRoot, Loose
<1>5. CASE ReadRootVersion(w)
  <2>1. /\ r.pc = "rootver" /\ x.pc = "isroot" /\ x.n = r.n /\ x.ver = node[r.n].ver
        /\ r.n \in DOMAIN node
    BY <1>1, <1>5 DEF ReadRootVersion, Fields, N, Descending
  <2>2. Fit(w)'
    BY <1>1, <1>3, <2>1 DEF Fit
  <2> QED
    BY <1>2, <2>1, <2>2, ReaderStep DEF Loose, Descending
<1>6. CASE IsRoot(w)
  <2>1. /\ r.pc = "isroot" /\ x.pc \in {"root", "child"} /\ x.n = r.n /\ x.ver = r.ver
    BY <1>1, <1>6 DEF IsRoot, Step, Goto, Fields
  <2>2. Fit(w)'
    BY <1>2, <1>3, <2>1 DEF Fit, N, ChildOf, SlotOf, Versioned
  <2> QED
    BY <1>2, <2>1, <2>2, ReaderStep DEF Loose, Descending
<1>7. CASE FoundLeaf(w)
  <2>1. /\ r.pc = "child" /\ x.pc = AtLeaf(w) /\ x.n = r.n /\ x.ver = r.ver
    BY <1>1, <1>7 DEF FoundLeaf, Step, Goto, Fields
  <2>2. x.pc \in {"search", "copy", "lock"} /\ (x.pc = "copy" => call[w].op # "get")
    BY <2>1 DEF AtLeaf
  <2>3. Fit(w)'
    BY <1>2, <1>3, <2>1, <2>2 DEF Fit, N, ChildOf, SlotOf, Versioned
  <2> QED
    BY <1>2, <2>1, <2>3, ReaderStep DEF Loose, Descending
<1>8. CASE FindChild(w)
  <2>1. /\ r.pc = "child" /\ x.pc = "childver" /\ x.n = r.n /\ x.ver = r.ver
        /\ N(w).torn = {} => x.kid = ChildOf(r.n, Key(w))
    <3>1. PICK c \in IF N(w).torn # {} THEN N(w).torn ELSE {ChildOf(r.n, Key(w))} :
            th' = [th EXCEPT ![w].pc = "childver", ![w].kid = c]
      BY <1>8 DEF FindChild
    <3>2. N(w).torn = {} => c = ChildOf(r.n, Key(w))
      BY <3>1
    <3>3. r.pc = "child"
      BY <1>8 DEF FindChild
    <3> QED
      BY <1>1, <3>1, <3>2, <3>3 DEF Fields
  <2>2. Fit(w)'
    BY <1>2, <1>3, <2>1 DEF Fit, N, ChildOf, SlotOf, Versioned
  <2> QED
    BY <1>2, <2>1, <2>2, ReaderStep DEF Loose, Descending
<1>9. CASE ReadChildVersion(w)
  <2>1. /\ r.pc = "childver" /\ x.pc = "nodelock" /\ x.n = r.n /\ x.ver = r.ver
        /\ x.kid = r.kid /\ x.kver = node[r.kid].ver
    BY <1>1, <1>9 DEF ReadChildVersion, Fields
  <2>2. Fit(w)'
    BY <1>1, <1>2, <1>3, <2>1 DEF Fit, N, ChildOf, SlotOf, Versioned
  <2> QED
    BY <1>2, <2>1, <2>2, ReaderStep DEF Loose, Descending
<1>10. CASE CheckNodeLock(w)
  <2>1. /\ r.pc = "nodelock" /\ x.pc \in {"root", "nodever"} /\ x.n = r.n /\ x.ver = r.ver
        /\ x.kid = r.kid /\ x.kver = r.kver
    BY <1>1, <1>10 DEF CheckNodeLock, Step, Goto, Fields
  <2>2. Fit(w)'
    BY <1>1, <1>2, <1>3, <2>1 DEF Fit, N, ChildOf, SlotOf, Versioned
  <2> QED
    BY <1>2, <2>1, <2>2, ReaderStep DEF Loose, Descending
<1>11. CASE CheckNodeVersion(w)
  <2>1. /\ r.pc = "nodever"
        /\ x.pc = "root" \/ (x.pc = "child" /\ x.n = r.kid /\ x.ver = r.kver)
    BY <1>1, <1>11 DEF CheckNodeVersion, Fields
  <2>2. Fit(w)'
    BY <1>1, <1>2, <1>3, <2>1 DEF Fit, N, ChildOf, SlotOf, Versioned
  <2> QED
    BY <1>2, <2>1, <2>2, ReaderStep DEF Loose, Descending
<1> QED
  BY <1>4, <1>5, <1>6, <1>7, <1>8, <1>9, <1>10, <1>11

\* A reader in a leaf, and on its way to the right.
LEMMA LeafReadersFit ==
  ASSUME IInv, NEW w \in Workers, Fit(w),
         \/ Reread(w) \/ FollowNext(w) \/ Search(w) \/ Read(w) \/ Copy(w) \/ CopyNext(w)
         \/ CheckLeafLock(w) \/ CheckLeafVersion(w) \/ ReadLeafVersion(w)
  PROVE  KeepsReaders(w)
<1> DEFINE r == th[w]
           x == th'[w]
<1>1. /\ DOMAIN th = Workers /\ DOMAIN r = Fields
      /\ \A n \in DOMAIN node : node[n].ver \in Nat
      /\ r.pc \in Reading => r.n \in DOMAIN node
  BY VersionFacts DEF IInv, Threads, Placed, Knows, Leaves
<1>2. node' = node
  BY DEF Reread, FollowNext, Search, Read, Copy, CopyNext, CheckLeafLock, CheckLeafVersion,
         ReadLeafVersion, Step, tree
<1>3. r.pc \in Loose
  BY DEF Reread, FollowNext, Search, Read, Copy, CopyNext, CheckLeafLock, CheckLeafVersion,
         ReadLeafVersion, Loose, Reading
<1>4. ASSUME call' = call
      PROVE  Key(w)' = Key(w) /\ N(w)' = node[x.n]
  BY <1>2, <1>4 DEF Key, N
<1>5. CASE Reread(w) \/ ReadLeafVersion(w)
  <2>1. /\ x.pc \in {"next", "copy"} /\ x.n = r.n /\ x.ver = node[r.n].ver
        /\ r.n \in DOMAIN node /\ call' = call /\ (x.pc = "copy" => r.pc = "leafver")
    BY <1>1, <1>5 DEF Reread, ReadLeafVersion, Fields, N, Reading, Silent
  <2>2. Fit(w)'
    BY <1>1, <1>4, <2>1 DEF Fit, Versioned
  <2> QED
    BY <1>2, <1>3, <2>2, ReaderStep
<1>6. CASE FollowNext(w)
  <2>1. /\ r.pc = "next" /\ call' = call
        /\ x.pc = "moved" \/ (x.pc = AtLeaf(w) /\ x.n = r.n /\ x.ver = r.ver)
    BY <1>1, <1>6 DEF FollowNext, Fields, Silent
  <2>2. AtLeaf(w) \in {"search", "copy", "lock"} /\ (AtLeaf(w) = "copy" => call[w].op # "get")
    BY DEF AtLeaf
  <2>3. Fit(w)'
    BY <1>2, <1>4, <2>1, <2>2 DEF Fit, N, ChildOf, SlotOf, Versioned
  <2> QED
    BY <1>2, <1>3, <2>3, ReaderStep
<1>7. CASE Search(w)
  <2>1. /\ r.pc = "search" /\ call' = call /\ x.pc = "read" /\ x.n = r.n /\ x.ver = r.ver
        /\ N(w).torn = {} => x.slot = SlotOf(r.n, Key(w))
    <3>1. PICK s \in IF N(w).torn # {} THEN 0..Capacity ELSE {SlotOf(r.n, Key(w))} :
            th' = [th EXCEPT ![w].pc = "read", ![w].slot = s]
      BY <1>7 DEF Search
    <3>2. x.pc = "read" /\ x.n = r.n /\ x.ver = r.ver /\ x.slot = s
      BY <1>1, <3>1 DEF Fields
    <3> QED
      BY <1>7, <3>1, <3>2 DEF Search, Silent
  <2>2. Fit(w)'
    BY <1>2, <1>4, <2>1 DEF Fit, N, ChildOf, SlotOf, Versioned
  <2> QED
    BY <1>2, <1>3, <2>2, ReaderStep
<1>8. CASE Read(w) \/ Copy(w) \/ CopyNext(w)
  <2>1. /\ r.pc \in {"read", "copy", "copynext"} /\ call' = call
        /\ x.n = r.n /\ x.ver = r.ver /\ x.slot = r.slot
        /\ x.pc = IF r.pc = "copy" THEN "copynext" ELSE "leaflock"
    BY <1>1, <1>8 DEF Read, Copy, CopyNext, Fields, Silent
  <2>2. Fit(w)'
    BY <1>2, <1>4, <2>1 DEF Fit, N, ChildOf, SlotOf, Versioned
  <2> QED
    BY <1>2, <1>3, <2>2, ReaderStep
<1>9. Again(w) \in {"moved", "leafver"} /\ (Again(w) = "leafver" => call[w].op # "get")
  BY DEF Again
<1>10. CASE CheckLeafLock(w)
  <2>1. /\ r.pc = "leaflock" /\ call' = call /\ x.pc \in {Again(w), "leafcheck"}
        /\ x.n = r.n /\ x.ver = r.ver /\ x.slot = r.slot
    BY <1>1, <1>10 DEF CheckLeafLock, Step, Goto, Fields, Silent
  <2>2. Fit(w)'
    BY <1>2, <1>4, <1>9, <2>1 DEF Fit, N, ChildOf, SlotOf, Versioned
  <2> QED
    BY <1>2, <1>3, <2>2, ReaderStep
<1>11. CASE CheckLeafVersion(w)
  <2>1. \/ x.pc = "idle"
        \/ call' = call /\ x.pc = Again(w)
        \/ call' = call /\ x.pc = "leafver" /\ call[w].op # "get"
    <3>1. ASSUME NEW a, Return(w, a) PROVE x.pc = "idle"
      BY <1>1, <3>1 DEF Return, Idle
    <3>2. \/ Goto(w, Again(w)) /\ Silent
          \/ \E a : Return(w, a)
          \/ /\ th' = [th EXCEPT ![w].pc = "leafver", ![w].n = r.next,
                                 ![w].out = @ \o r.part, ![w].first = FALSE]
             /\ Silent /\ call[w].op = "scan"
      BY <1>11, Zenon DEF CheckLeafVersion
    <3>3. CASE Goto(w, Again(w)) /\ Silent
      BY <1>1, <3>3 DEF Goto, Fields, Silent
    <3>4. CASE /\ th' = [th EXCEPT ![w].pc = "leafver", ![w].n = r.next,
                                   ![w].out = @ \o r.part, ![w].first = FALSE]
               /\ Silent /\ call[w].op = "scan"
      BY <1>1, <3>4 DEF Fields, Silent
    <3> QED
      BY <3>1, <3>2, <3>3, <3>4
  <2>2. Fit(w)'
    BY <1>9, <2>1 DEF Fit, Versioned
  <2> QED
    BY <1>2, <1>3, <2>2, ReaderStep
<1> QED
  BY <1>5, <1>6, <1>7, <1>8, <1>10, <1>11

\* A call that begins has read nothing.
LEMMA BeginReaders ==
  ASSUME IInv, NEW w \in Workers, Begin(w), WorkerStep(w)
  PROVE  KeepsReaders(w)
<1>1. th[w].pc \notin {"root"} \cup Descending \cup Reading \cup Writing \cup Splitting
                        \cup Releasing
  <2>1. call[w].op \notin {"get", "scan", "remove", "put", "update", "done"}
    BY DEF Begin, Map!NoCall
  <2>2. call[w] \notin Map!Calls
    BY <2>1, CallFacts
  <2> QED
    BY <2>1, <2>2 DEF IInv, Placed, Knows
<1>2. th[w].pc = "idle"
  BY <1>1 DEF IInv, Placed, Knows
<1>3. th'[w].pc = "root" /\ node' = node
  BY DEF Begin, Idle, IInv, Threads, tree
<1>4. Fit(w)'
  BY <1>3, NothingRead DEF Versioned
<1> QED
  BY <1>2, <1>3, <1>4, ReaderStep DEF Loose

\* Every step keeps readers right.
LEMMA ReadersKept ==
  ASSUME IInv, VInv, [Next]_vars
  PROVE  VInv'
<1>1. CASE UNCHANGED vars
  <2>1. node' = node /\ th' = th /\ call' = call
    BY <1>1 DEF vars, tree
  <2>2. \A w \in Workers : Fit(w)'
    BY <2>1 DEF VInv, Fit, N, Key, ChildOf, SlotOf
  <2>3. \A w \in Workers : TornBy(w)' = TornBy(w)
    BY <2>1 DEF TornBy, Holds
  <2>4. Whole'
    BY <2>1, <2>3 DEF VInv, Whole
  <2> QED
    BY <2>2, <2>4 DEF VInv
<1>2. ASSUME NEW w \in Workers, Begin(w) \/ Continue(w)
      PROVE  VInv'
  <2>1. WorkerStep(w) /\ Fit(w)
    BY <1>2, WorkersStep DEF VInv
  <2>2. ASSUME Begin(w) PROVE KeepsReaders(w)
    BY <2>1, <2>2, BeginReaders
  <2>3. ASSUME Continue(w) PROVE KeepsReaders(w)
    BY <2>1, <2>3, DescentReaders, LeafReadersFit, LockLeafReaders, LeafReaders,
       SplitLeafReaders, ParentReaders, NewRootReaders, TopReaders, SplitParentReaders,
       BumpReaders, UnlockReaders DEF Continue
  <2> QED
    BY <1>2, <2>1, <2>2, <2>3, StepKeepsReaders DEF KeepsReaders
<1> QED
  BY <1>1, <1>2 DEF Next, Finished

\* At first no version has been read and every node is whole.
LEMMA InitReaders ==
  ASSUME Init
  PROVE  VInv
<1>1. \A w \in Workers : th[w].pc = "idle"
  BY DEF Init, Idle
<1>2. \A w \in Workers : Fit(w)
  BY <1>1 DEF Fit, Versioned
<1>3. Whole
  BY TreeAssumption DEF Init, Whole
<1> QED
  BY <1>2, <1>3 DEF VInv

\* A node that nobody has locked is whole.
LEMMA UnlockedWhole ==
  ASSUME IInv, VInv, NEW n \in DOMAIN node, ~node[n].locked
  PROVE  node[n].torn = {}
<1>1. \A w \in Workers : TornBy(w) \subseteq Holds(w)
  BY DEF TornBy, Holds
<1>2. \A w \in Workers : n \notin Holds(w)
  BY DEF IInv, LocksOwned
<1> QED
  BY <1>1, <1>2 DEF VInv, Whole

\* A version that a reader compares is never newer than the node's, what the reader has
\* found stands while the node is whole and of that version, and a torn node is locked by
\* the writer that has still to move its version (xindex_buffer_impl.h:57-72, 158-184,
\* 229-248, 350-358, 392-400, 474-480).
THEOREM VersionsMove == Spec => []VInv
<1>1. Init => VInv
  BY InitReaders
<1>2. IInv /\ VInv /\ [Next]_vars => VInv'
  BY ReadersKept
<1> QED
  BY <1>1, <1>2, TreeInvariant, PTL DEF Spec

\* A reader that finds its node unlocked and of the version it read before has gone to
\* the right child, and to the right slot of a leaf, whatever was inserted and split
\* meanwhile (xindex_buffer_impl.h:57-72, 158-184).
THEOREM ReadersFindRight == Spec => []ReadersRight
<1>1. IInv /\ VInv => ReadersRight
  <2> SUFFICES ASSUME IInv, VInv, NEW w \in Workers
               PROVE  LET valid == ~N(w).locked /\ N(w).ver = th[w].ver
                      IN  /\ th[w].pc \in {"childver", "nodelock", "nodever"} /\ valid =>
                               th[w].kid = ChildOf(th[w].n, Key(w))
                          /\ th[w].pc \in {"read", "leaflock", "leafcheck"}
                               /\ call[w].op = "get" /\ valid =>
                               th[w].slot = SlotOf(th[w].n, Key(w))
    BY DEF ReadersRight
  <2>1. Knows(w) /\ Fit(w)
    BY DEF IInv, VInv, Placed
  <2>2. th[w].pc \in {"childver", "nodelock", "nodever", "read", "leaflock", "leafcheck"} =>
          th[w].n \in DOMAIN node
    BY <2>1 DEF Knows, Descending, Reading, Leaves
  <2> QED
    BY <2>1, <2>2, UnlockedWhole DEF Fit, N
<1> QED
  BY <1>1, TreeInvariant, VersionsMove, PTL
=============================================================================
