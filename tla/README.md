# TLA+ specifications of TLI

TLI (Testbed for Learned Indexes) measures index structures on generated
workloads. Most of what it runs is vendored and sequential. What is concurrent,
and hard to test, is the measurement driver with its worker threads and the
indexes that reorganise themselves in the background while the workers call
them. This project models the driver and XIndex, the index whose concurrency
protocol is the most intricate and which the repository carries in source
(a copy of it for strings, SIndex, uses the same protocol).

Paths below are relative to the repository; `xindex/` stands for
`competitors/xindex/`.

## 1. Inventory

### Components, their state and operations

| Component | State | Operations | Hard behaviour | What makes it correct |
|---|---|---|---|---|
| Measurement driver (`benchmark.h`, `runMultithread` in the concurrent wrappers) | `util::running`, `util::ready_threads`, `run_failed`, per-thread parameters and counts, the shared array `individual_ns`, result vectors | `Run`, `DoOps`, `DoOpsCoreLoop`, `PrintResult` | start and stop of a phase through plain flags, workers that leave early, arrays and flags reused by the next phase, repeat and index | every operation once and in its phase; the numbers reported are those of the phase; every run ends |
| XIndex reclamation (`xindex/xindex_util.h`) | one counter per worker, `exited` | `rcu_progress`, `rcu_barrier`, `rcu_init`, the sentinel stored by `competitors/xindex.h` | a barrier races with workers that begin, retry, finish and start again; signed wrap-around; counters outlive the index | nothing a worker holds is freed; barriers end |
| XIndex records (`AtomicVal`, `xindex/xindex_util.h`) | status word (version, lock, removed, pointer), union of value and pointer | `read`, `update`, `remove`, `replace_pointer` and the variants that ignore pointers | readers without locks, nested locks, a word that changes from pointer to value | a record, together with the one it points to, is one atomic cell |
| XIndex groups (`xindex/xindex_group_impl.h`) | array, buffer, `buffer_temp`, `buf_frozen` | `get`, `put`, `remove`, `scan`, `range_scan`; `compact_phase_1/2`, `split_group_pt1/pt2`, `merge_group`, `split_model`, `merge_model` | calls that began on a group which has since been replaced, inserts against the merge of the same buffer, spinning on a frozen buffer | the index is an atomic map whatever maintenance is under way; a key is live on one level; no freed memory is reached |
| XIndex root and background threads (`xindex/xindex_root_impl.h`, `xindex/xindex_impl.h`) | slots, group chains, RMI, the flags between master and adjusters | `locate_group`, `do_adjustment`, `create_new_root`, `trim_root`, `train_rmi`, `background`, `terminate_bg` | the root is replaced under its readers; several adjusters; shutdown | as above, and every round and the shutdown end |
| XIndex buffer (`xindex/xindex_buffer_impl.h`) | tree of locked, versioned nodes with sibling links | `get`, `insert`, `update`, `remove`, iteration | optimistic descent against splits | an atomic map from keys to records |
| SIndex, FINEdex, ART-OLC, Wormhole | vendored concurrent indexes behind a wrapper | as above | fine-grained locking, epochs | an atomic map |
| Single-threaded wrappers (ALEX, ART, B-tree, PGM, RMI, TS, LIPP, FST, FAST, MABTree) | a vendored index | `Build`, `EqualityLookup`, `RangeQuery`, `Insert` | none | the right result |
| Position searches (`searches/`) | none | `lower_bound`, `upper_bound` | off-by-one at the ends, a guess outside the range | the least position |
| Workload generator (`generate.cc`) | data set, operations, expected results | inserts, lookups and ranges, thread and block assignment | expected results under concurrency | the expected results are right in every allowed order |
| Command line, file formats, scripts, RMI compiler | files | parsing, I/O | none | - |

### How they interact

`benchmark.cc` calls `Run` once per index and parameter set. `Run` builds the
index and calls `DoOps`, which starts one thread per operation list through the
wrapper's `runMultithread`; the threads execute `DoOpsCoreLoop`, which calls the
wrapper's `EqualityLookup`, `RangeQuery` or `Insert`. XIndex's wrapper forwards
to `XIndex::get`, `range_scan` and `put`. Each of these moves the worker's
counter (`rcu_progress`), finds a group through the root and works on the
group's records. Independently, a master thread starts rounds in which adjuster
threads replace groups, wait in `rcu_barrier` until no worker can hold what was
replaced, and free it. Workers and background threads share the counters, the
root pointer, the slots, the groups and the records; they share no lock but the
lock bit of a record and the locks of the buffer's nodes.

`PROJECT.json` lists every component with its status and the hazards, each at
its line.

## 2. Modules

| Module | Models | Lines it stands for |
|---|---|---|
| `BenchDriver` | the driver and its workers | `benchmark.h:59-166, 251-288, 309-557`, `competitors/artolc.h:97-126` |
| `BenchDriverProofs` | theorems about it and lemmas about its bounds and sums | |
| `XIndexRCU` | counters, barrier, sentinel, life of an index | `xindex/xindex_util.h:79-108`, `competitors/xindex.h:136-158`, parts of `xindex/xindex_impl.h` |
| `XIndexRCUProofs` | theorems about it | |
| `AtomicCell` | what a record promises | |
| `AtomicVal` | the record, one load or store per step | `xindex/xindex_util.h:131-325` |
| `AtomicValProofs` | theorems about it, and that it implements `AtomicCell` | |
| `ConcurrentMap` | what the index promises: an atomic map | |
| `XIndexGroup` | get, put, remove and scan of groups against compaction, split, merge and model replacement | `xindex/xindex_group_impl.h:74-152, 193-426, 812-1215`, `xindex/xindex_root_impl.h:318-512` and what they call |
| `XIndexGroupProofs` | theorems about it | |
| `Searches` | binary, exponential and linear search from a guess | `searches/*.h` |
| `XIndexRoot` | the way of a call through root, slots and chains; adjusters and master; range scans across groups | `xindex/xindex_root_impl.h:129-157, 213-303, 318-565, 680-780`, `xindex/xindex_impl.h` |
| `XIndexRootLemmas` | its inductive invariants, theorem about the searches, lemmas about chains, pools and shares | |
| `XIndexRootProofs` | theorems about it | |
| `BufferTree` | the tree behind a buffer, one memory access per step | `xindex/xindex_buffer_impl.h:34-480, 570-619, 644-790` |
| `BufferTreeProofs`, `BufferTreeOrder` | theorems about it: its nodes, locks and versions; the order of its keys | |
| `MCDriver`, `MCXIndexRCU`, `MCAtomicVal`, `MCGroup`, `MCRoot`, `MCBuffer` | constants and scenarios for TLC | |

The modules form a stack. `XIndexGroup` uses an `AtomicVal` as an atomic cell,
which `AtomicVal` is shown to be; a barrier as "every call in progress when it
began has returned or retried", which `XIndexRCU` is shown to guarantee; and a
buffer as a map with atomic operations, which `BufferTree` is shown to be. It
takes `locate_group` as one step that leads to the group of the key, which
`XIndexRoot` shows of the code. `XIndexRoot` in turn knows of a group only which
keys it holds. `XIndexGroup` and `BufferTree` both implement `ConcurrentMap`.
`BenchDriver` treats an index as something that applies an operation and may
return a wrong result.

### BenchDriver

The main thread is a program counter `mpc` over `Run` and `DoOps`; every worker
has one, `wpc`, over `DoOpsCoreLoop`. A step is a stretch of code with one
access to a shared flag. `running`, `ready`, `run_failed`, `op_cnt`, `ns` are the
variables of the same names (`ns` is `individual_ns` and records which repeat
and phase wrote a slot instead of the time). The command line and the operation
file are a record `args` chosen in the initial state. Spinning
(`while (!util::running);`) is an action that is disabled until the condition
holds. `doneAtStop` is a history variable. Time, caches and printing are left
out.

### XIndexRCU

`status` is the counter in two's complement between `StatusMin` and `StatusMax`;
the sentinel is `StatusMax` and the next increment wraps. A pointer is the
number of times it has been replaced, `held` what a worker has read of it in its
present operation. `rcu_barrier` reads one counter per step, in both loops.

### AtomicVal

Record "new" belongs to the array that compaction made and begins as a pointer
to record "old". Whether old is in a buffer (whose methods ignore the pointer
bit) or in an array is chosen at the start (`buffered`). Workers come to either
record until the barrier is passed (`Drained`), afterwards only to new, while
`replace_pointer` runs step by step. The value is one word, as the testbed
instantiates it, and the memory order is that of x86, where the fences are
program order.

### XIndexGroup

`group` and `store` are the heap: groups, and the arrays and buffers they point
to, each a function from keys to records. `dir[k]` is what `locate_group(k)`
returns, the combination of slot and chain. An allocation takes any address that
is free, and addresses are used again after they are freed, so that a dangling
reference would be noticed; `Room` bounds how many are in use at a time. A call takes one step
per level it looks at; a get that has read a pointer follows it in a step of its
own. A background round is one of the four kinds of maintenance, one step per
store that workers can see, with `merge_refs_internal` and `compact_phase_2`
visiting one record per step. Error bounds, buffer sizes and thresholds decide
only when maintenance happens and are a free choice. The merge is that of two
neighbouring slots. The sequential-insert path is compiled out in the testbed
(`seq = false`).

`ImplementsMap` is the refinement: with the mapping `map[k] = Lookup(k)`, what a
get of k would find if nothing else happened, every step of the detailed
specification is a step of `ConcurrentMap` or leaves it unchanged.

A scan of a group (`scan_2_way`, `scan_3_way`) has a cursor on each level. It
reads one record per step, a buffer's ahead to the end of the leaf, which may be
anywhere, and merges what it has read by the rule of the code: the key that is
less than all others, the last level if there is none. It goes to the end of the
group; the limit on the number of records and the end of the range are left out.
In `ConcurrentMap` a scan returns ascending keys, each with a value that it had
at some instant of the scan, and leaves out only keys that were absent at some
instant.

### XIndexRoot

`roots` and `group` are the heap of roots and groups, `root` the published root.
A worker's step is one read of a pointer: the root, a slot, a `next`. `predict`
may guess any slot; the search from there is the function of the search class
(`Searches`) applied to the root's pivots. A group is its pivot, the keys in its
array, the keys it holds, and the keys that belong to it (`span`), which says what
locating a key should find. An adjuster has one place per barrier and per store
that workers can see; `loc` is the pointer it holds to a slot or to a `next`. The
master's places are those of `background`; `wait[t]` is the barrier of thread t.
Each thread allocates groups from a pool of its own, which loses nothing: an
address means nothing to the code, and the pools reuse what is freed.

Two simplifications. A split needs two records in the array: with one, the first
part would be empty, and what the code then does depends on records that this
module does not have. Keys are those loaded; a put goes the way of a put but adds
no key.

### BufferTree

`node` holds the nodes in the order of their allocation, `th` the local variables
of every worker. Readers take a step for each of: the pointer or the records, the
lock, the version. While a writer rewrites a node under its lock, what a reader
finds in it is arbitrary (`torn`): any child, any slot, any value. The versions
of several nodes are moved in one step, because all of these nodes are still
locked and readers look at the lock first. A call that writes takes effect when
its record is in place and returns when its last lock is released, hence `Done`
in `ConcurrentMap`. A scan copies a leaf in one step; updates in place while it
copies would give each record an instant of its own, which the map allows.
`size_est`, a hint for maintenance, the allocator, and `RefSource`, which runs
when nobody writes to the buffer any more, are left out.

## 3. Runs

| Run | Instance | Shows |
|---|---|---|
| `driver` | five kinds of workload on up to 3 threads, 2 indexes | operations in order and once, lookups behind all inserts, counts within the clock's window, latencies of this phase only, complete rows, phases that have started and single-threaded runs end |
| `driver_missed_start` | 2 threads, mixed | violation, finding A |
| `driver_failure_hang` | 2 threads, verify | violation, finding B |
| `xindex_rcu` | 2 workers, 1 background thread, counter from -3 to 2, 2 phases, 2 indexes | nothing held is freed, the grace period, barriers end |
| `atomic_val` | 2 workers, 2 values, at most 3 changes per record | one atomic cell, exclusive locks that are released, no value followed as a pointer |
| `group` | 2 workers, 2 keys, 2 values; compaction and model replacement of one group, merge of two, split with one writer per key, scans against inserts and compaction | atomic map, one live level per key, no dangling reference |
| `group_split_race` | two writers of the same key | violation, finding C |
| `root` | 1 worker, 4 keys, 2 adjusters, 1 to 4 groups, all three searches and every guess | calls find the group of their key; no root and no group is used after it is freed; rounds work on the published root, keep out of each other's groups, leave a root in order and end; scans are complete; termination ends |
| `root_models` | a lookup while a root is replaced | violation, finding E |
| `root_merged_scan` | a scan while groups are merged | violation, finding D |
| `root_below_pivot` | a group with most keys below its pivot is split | violation, finding F |
| `buffer` | 2 or 3 workers, nodes of 3 keys, trees of one and two levels that are full | the tree stays in order, locks have owners and are released, readers whose versions hold are at the right child and slot, atomic map with scans, no call hangs |

### Why the bounds are enough

* Driver: three threads give one that stops the clock, one that notices and one
  with an empty part; two repeats and two indexes make leftovers of the previous
  one visible; the workloads cover the two branches of every condition on the
  options.
* RCU: two workers are what a barrier needs to pass one and wait for the other;
  the counter's range contains the sentinel, the wrap and the recorded -1; the
  second index inherits counters. The proof removes all of these bounds.
* Records: a reader overlaps one writer and the background thread; three changes
  let a version move before, while and after the pointer is replaced. The proof
  covers any number for the invariants.
* Groups: maintenance treats keys independently except for the choice of the
  pivot and of the group, so one key suffices for compaction and two for merge,
  split and scan. Two workers allow every pair of calls. `GroupIds` and `StoreIds`
  are as many as one round needs; rounds repeat without bound because memory is
  freed and used again. The scans meet no remove, see section 4.
* Root: two adjusters with four groups have two neighbours each and a border
  between them that a merge must not cross; with one group an adjuster has
  nothing to do. A second worker would add nothing: workers change no shared state
  here but the barriers. Rounds repeat without bound. Scans meet no merge, which
  is finding D.
* Buffer: capacity 3 is the least odd capacity at which both halves of a split
  get a key in all places of insertion (the code has 15, and the rule for the
  place of the cut distinguishes nothing more). Two levels let a leaf split its
  parent, the parent make a new root, and a second insert find that its parent
  has changed. Two workers write in most scenarios, a third one reads where the
  root is split and where a record is inserted again.

Symmetry under permutations of workers and values is used in `group` only, which
has no liveness property and whose scenarios are closed under it.

Deadlock checking is off in the driver's runs only: a worker that missed the
start leaves the process without an enabled step, which is finding A.

### Fairness

Weak fairness of each thread: the operating system keeps scheduling a thread
that can run. In `XIndexRoot` a call that has begun, an adjuster and the master
go on; nobody has to call or to terminate the index. Its barriers pass when the
calls they wait for have returned, which `BarrierEnds` of `XIndexRCU` shows of
the counters. In `BufferTree` a call that has begun goes on; a lock is taken when
it is free and the worker is scheduled, which with finitely many calls is all
that `CallsReturn` needs. In `XIndexRCU` the phases of a workload
continue and end, and `Terminate` is not assumed, so that barriers have to end
without `exited`. No fairness is assumed for a choice inside a thread.

## 4. Findings

* **A, missed start** (`benchmark.h:70`). `running` is set and, when the first
  worker is through, cleared. A worker that is not scheduled in between spins for
  ever and `pthread_join` does not return. A thread with few operations in a
  phase makes it likely.
* **B, failure hangs** (`benchmark.h:150`). Workers that leave because a result
  was wrong do not clear `running`. When all do, the main thread spins in
  `runMultithread` and the handling of the failure is not reached.
* **C, split race** (`xindex/xindex_group_impl.h:271`). `split_group_pt1` freezes
  the intermediate groups but not the old one, whose buffer they share. Two
  workers that put the same new key, one through the old and one through the
  intermediate group, leave it live in the buffer and in `buffer_temp`, which
  the assertions of the scans exclude. The testbed's threads insert disjoint
  keys, and for a single writer `group` passes.
* **D, scan across a merge** (`xindex/xindex_root_impl.h:281`). A range scan that
  has read the first of two groups and takes the next slot after the merge meets
  the merged group, whose pivot is that of the group it has left, and skips it:
  the keys of the second group are missing from the result.
* **E, models freed** (`xindex/xindex_root_impl.h:637`). The new root inherits the
  second stage of the old root's RMI and deletes it when it is trained, before it
  is published; workers still predict with it.
* **F, pivots out of order** (`xindex/xindex_root_impl.h:752`). The first group
  takes keys below its pivot. If its array's median is below the pivot, a split
  gives the second part a smaller pivot than the first, and the search on the new
  root no longer finds the second part's keys for every guess.

Two more cases are known and have no run of their own. A scan of a group may
return a key twice when the key is removed from one level and put into a later
one in between (`xindex/xindex_group_impl.h:964`): adding `Map!Remove(2)` to the
scenario `Scanned` of `MCGroup` makes TLC show it; the testbed never removes keys.
And a range scan skips the second intermediate group of a split together with
the new keys in its `buffer_temp` (`xindex/xindex_root_impl.h:279`); this needs
the levels of `XIndexGroup` and the walk of `XIndexRoot` in one module.

## 5. Proofs

TLAPS proves the following for every value of the constants that satisfies the
assumptions. Each inductive invariant was evaluated by TLC on the instances of
section 3 before it was proved.

### XIndexRCU

`XIndexRCUProofs`: `TypeCorrect`, `ReclamationSafe` (`NoUseAfterFree`) and
`GracePeriod` (`PassedHoldsCurrent`), from `RCUAssumption` (at least one worker,
a positive largest counter value). The invariants are not inductive: that a
worker the barrier passes holds nothing old follows only from what was recorded.
The strengthening says that a worker which holds an outdated version has the
counter value the barrier recorded (`RecordedIsExact`), that workers inside an
operation never show the sentinel (`HeldInOps`), that nothing outdated is held
outside a barrier (`WorkIsClean`) and that versions are ordered
(`VersionsOrdered`). Then "moved" implies "not outdated", and what is freed is
held by nobody. The guard `CounterRoom` stands for a counter that is not
incremented 2^63 times.

### AtomicVal

`AtomicValProofs`: `TypeCorrect`, `LockExclusive` (`MutualExclusion`),
`LocksReleased` (`LockOwned`) and `PointersFollowed` (`FollowsPointer`), from
`ValAssumption` (addresses, and the mark of a call without a result, are not
values). The strengthening ties the lock bit to the threads inside (`LockInv`),
the pointer bit and the union to the place of the background thread
(`PointerInv`) and says of a reader which saw the pointer bit that it has the
pointer, or the version has moved, or the background thread still holds the lock
(`ReadInv`).

Refinement: `CellImplemented`, that every behaviour of `AtomicVal` is
one of `AtomicCell` (`ImplementsCell`). The two records are one cell whose
content is that of old while new is a pointer and that of new afterwards. The
invariant adds to the one above what the call of a worker is at each place
(`CallInv`), that the two records agree when the pointer bit is about to be
cleared (`HolderInv`), who may still change old (`OldInv`), and that what a
reader has copied, of a record which is no pointer, is something the cell held
since the read began (`SnapshotInv`), even though the copy may be stale: the
version check makes the reader throw away all other copies.

### XIndexGroup

`XIndexGroupProofs`: `GroupTyped` (`TypeOK`) and `NothingDangles` (`NoDangling`),
from `GroupAssumption`: keys are unsigned integers, addresses are not null, and
each scenario uses finitely many of them. The assumption says nothing of what
maintenance happens, of the number of workers or of the script of calls, so this
covers the scenario of finding C too, where two writers of one key leave it on
two levels.

That nothing dangles needs all of the following at once. `Placed`: a worker
inside a call is on the group of some key, or on one that was replaced since and
the barrier under way waits for it; between the two stores of a merge there is no
barrier, and nothing is freed either. `Pointers`: a pointer is in the array of a
new group, leads to a level that will be freed, and exists only until
`compact_phase_2` has visited it. `Following`: who read a pointer before is waited
for by the last barrier. `Apart` and `Handed`: the levels that are freed belong to
no other group; a new group takes over the `buffer_temp`, never the buffer.
`Retired`, `InMemory` and `Shape` say which groups the job has at each place. The
proof has one lemma for all steps of workers (`WorkersKeep`, of which
`CallSteps` and `ScanSteps` show that each action is an instance) and one for each
kind of maintenance step.

### Searches

`XIndexRootLemmas`: `SearchesExact`, that binary, exponential and linear search from
any guess return the first position that is not before the key when the array is
sorted, and some position within bounds when it is not (which is what happens to
the pivots of finding F). Each loop is a recursive function on pairs of
positions. TLA+ defines such a function as the one that satisfies its equation, so
each needs a proof that there is one (from well-founded recursion on a measure,
the length of what is left to search), and then induction on the measure over a
set of numbers shows that the loop's result is that of the definition. The
assumptions are those of the code: the guess and the bounds are positions of the
array.

### XIndexRoot

`XIndexRootProofs`: `RootTypes` (`TypeOK`), `RoundsSeparate`
(`RoundOnCurrentRoot`), `RootsReclaimedSafely` (`RootsInMemory`),
`GroupsReclaimedSafely` (`GroupsInMemory`) and `AdjustersApart` (`Exclusive`), from
`RootAssumption`: at least one adjuster, an address for a second root, finitely
many keys, which are positive numbers, and a load of at least one group and at most as
many as the pool holds. Nothing is assumed of the keys in a group, of the order of
the pivots, of the number of workers or of the maintenance, so all of this covers
the scenarios of findings D, E and F too.

There are two inductive invariants. `RootInv` (`RootSafety`) says that during a
round each adjuster is called, at work or finished and only one of these, that
nobody is called, at work or finished outside of rounds (`Rounds`), that only
published roots are held, and that a worker which holds the replaced one is
waited for by the master (`RootsLive`).

`GroupInv` (`GroupSafety`) is about the groups. That nobody holds a deleted group
and that two adjusters never meet have to be proved together. An adjuster meets
nobody else's group because the links it follows stay in its share of the slots;
they do because nobody else writes them; and a group may be deleted because no
link that is left leads to it. The invariant puts this in terms of single links
(`Chains`): there is a number z[g] for every linked group, the slot it hangs off,
and a number p[g] that grows along a chain. No path is mentioned, and a step that
writes one link has to renumber only what it puts there: the places of a splice
are doubled to make room for a group between two others (`Spliced`, `Rehung`).

* A group is `Linked`, or `Unlinked` by the one adjuster that made it or took it
  out; the latter are named by the adjuster's place and its `old`, `mid` and `new`
  (`Owned`). What an adjuster has unlinked and waits to delete is `Doomed`.
* Links lead from a group to groups of the same slot, or, from an unlinked group,
  back into the share of the adjuster it belongs to. A merge across two slots
  leaves the merged group in both of them, until a barrier later the second one is
  emptied; meanwhile the second slot is `Masked`, that is, the argument treats it
  as empty already.
* The shares are ranges of slots that do not overlap, and a merge by slot looks at
  the next slot of the own share only. The integer division that makes
  them is monotonic, which is all that is needed (`Quotients`).
* A call that holds a doomed group was inside when the barrier of the adjuster
  began and is waited for (`Calls`). What a call reads from a group or slot that
  is not doomed is not doomed, and what it reads from a doomed one is doomed by
  the same adjuster or linked.
* `create_new_root` lists the groups of all chains, one slot each, and `trim_root`
  cuts the chains; in between, every group is in the new slots once. The lemmas
  on `ChainOf` and the listing show that the listing meets every group exactly once; this
  is also where the search comes in: it needs to return a slot of the root, which
  `SearchesExact` says of it even if pivots are out of order.

For adjusters between slots one more fact is needed (`Visits`): the pointer `loc`
is local to the visit of a slot, so it never leads to a group that was deleted.
`XIndexRootLemmas` has the invariants and the facts about chains, pools, shares
and the listing; `XIndexRootProofs` has one lemma for every action.

### BenchDriver

`BenchDriverProofs` proves every safety property of the run: `DriverTyped`
(`TypeOK`), `CountsRight` (`CountWindow`), `OperationsInOrder` (`OpsInOrder`),
`InsertsBeforeLookups` (`LookupsSeeAllInserts`), `LatenciesFresh` (`SlotsFresh`)
and `RowsComplete` (`RowComplete`), from `DriverAssumption`: at least one thread
and one repeat, a workload of one block whose inserts come first or, with several
blocks, one list of operations in which inserts and lookups alternate in that
many blocks (`InBlocks`). `generate.cc:31-50` writes such lists; other lists are
not workloads of the testbed.

The invariant (`IInv`) says where the main thread and the workers can be at the
same time (`Control`), how far each worker is in its piece (`Progress`), that
nobody is through while the clock runs and how far a worker can have come since it
stopped (`Clock`), that `ready_threads` counts the workers that spin or run
(`ReadyCount`), which slots of `individual_ns` are of this phase (`Slots`) and what
the row holds (`Rows`). `CountWindow` alone is not inductive: a worker that read
`running` before the stop may still finish one operation, and `SinceStop`
distinguishes this by its place in the loop.

The module begins with lemmas about what `bound_points` computes (ascending,
from the first to the last operation, every piece of a phase of one kind) and
about the sums over threads. They are about recursive functions. The library's
induction theorems take an operator, which the provers cannot instantiate; the
lemma `Induction` is about a set of numbers instead and follows from the
well-foundedness of < on the numbers.

### BufferTree

`BufferTreeProofs`: `TreeTyped` (`TypeOK`), `LocksHaveOwners` (`LocksOwned`) and
`ReadersFindRight` (`ReadersRight`), from `TreeAssumption`: an odd capacity above
one, keys are positive numbers, and every scenario begins with a tree whose nodes
have room for their records and point to nodes of the right kind, none of them
locked. Nothing is assumed of the order of its keys, of the number of workers or
of the script.

Two inductive invariants, the second relative to the first. `IInv` says what the
nodes look like (`TreeFine`), what a worker knows of the tree at each place
(`Knows`: it has a leaf, or a node it is looking into, and no sibling yet), that
the two halves of a split are different nodes and are not their parent
(`Splits`), and which locks are left to release, each once (`Releases`). All of
this is needed for the locks: that an unlock finds the lock still its own follows
from the list of held nodes having no node twice, and that a parent is not one of
the halves from its having been unlocked when its lock was taken. `VInv` says for each place of a reader that the version it compares is
not newer than the node (`Fit`), that what it found in the node is right as long
as the node is whole and has that version, and that a node which is being
rewritten belongs to a writer that has yet to move its version (`Whole`, `TornBy`).
Since such a writer has the lock, a reader that sees no lock sees a whole node.
There is one lemma per action in each part; `StepKeeps` and `StepKeepsReaders`
say once what the step of one worker does to the others.

`BufferTreeOrder`: `TreeSorted` (`TreeInOrder`), from `TreeAssumption` and
`OrderAssumption`: a scenario begins with a tree that inserts can have made. Its keys
ascend, the root has no parent, every other node is among the children of its
parent and between the keys there, and the leaves are in one list in the same
order. `OrderAssumption` states this with `Ranges`, the lower and upper bounds that
the place under the parent gives to every node; TLC evaluates it for the scenarios
of `buffer`.

The third invariant, `Ordered`, relative to the other two, carries such ranges
through the splits. It says that there are `lo`, `hi` and `top` such that:

* `NodeOrdered`: the keys of a node are from `lo` on and below `top`; the ranges of
  its children are what its keys cut its own range into; a leaf begins with its
  lower bound (keys are marked as removed, never taken out) and ends where the next
  leaf begins.
* `Halves`: while a worker holds both halves of a split and their parent knows of
  one, the parent sees the left half end where it did before (`hi`), and its keys
  end below the key the right half begins with (`top`). For all other nodes `top`
  is `hi`.
* `Bound`: an insert is on its way to the leaf of its key. If the version it has of
  a node is still the node's, its key belongs below that node (`Covers`); where the
  version has changed it only knows that the key is not to the left, which is what
  the walk along the list relies on (`xindex_buffer_impl.h:197-209`).
* `Apart`: nobody reaches the right half of a leaf before it is linked.

`Bound` is why the invariant is needed at all: the order of a leaf depends on every
insert having found the right one, through nodes that are split meanwhile, and the
proof of it on the order of the nodes it passes. There is one lemma per action
again; `StepKeepsOrder` says what a step has to leave alone (`Frame`,
`HalvesStay`) and what has to be shown of the nodes it rewrites (`Rest`). What a
split does to sequences of keys and children is in `InsertLaid`, `CutLaid`,
`InsertFit` and `CutFit`, which mention no variable.

### Only model-checked

* Liveness (`BarrierEnds`, `RoundEnds`, `TerminateEnds`, `CallsReturn`,
  `StartedPhaseEnds`, `SingleThreadEnds`): needs ENABLED and fairness, out of the
  prover's reach.
* `NoDuplicateKey` and `ImplementsMap` of `XIndexGroup`: they do not hold for all
  values of the constants (finding C and the scan described after it in section
  4), only for scenarios like those of `group`.
* `LocateRight`, `RootInOrder` and `ScanComplete` of `XIndexRoot`. They do not hold
  for all values of the constants: the first two fail for the groups of finding F,
  the third for scans that meet a merge (finding D). A proof needs assumptions on the
  scenarios that exclude these, and an invariant on the order of keys along the
  chains.
* `ImplementsMap` of `BufferTree`: needs `Ordered` and, for scans, an invariant on
  the records that were copied from the leaves behind the scan.

## 6. Plan

Modelled so far: the driver, reclamation, records, groups, the root and its
background threads, the buffer's tree, scans. What could follow:

1. The contents of `buffer_temp` in `XIndexRoot`, so that scans meet puts of new
   keys during splits.
2. `Workload`: the generator's expected results against all the orders in which
   `BenchDriver` can execute the operations.
3. FINEdex's level bins, the other concurrent index that comes in source and is
   not a variant of XIndex.

Theorems to prove next: `ImplementsMap` of `BufferTree` on the basis of `Ordered`;
`LocateRight` of `XIndexRoot` for loads whose groups have no key below
their pivots, on the basis of `GroupInv`, whose numbers z and p give the chains
that the pivots have to ascend along.

## 7. Not modelled

* Vendored indexes (ALEX, ART and its synchronised variants, FINEdex, FST, FAST,
  LIPP, PGM, RMI, TS, MABTree, STX B-tree, Wormhole): third-party code behind
  wrappers.
* SIndex: the protocol of XIndex under other names.
* Models (linear regression): floating point; they only narrow exact searches.
  Interpolation search and the AVX search, for the same reason and because they
  are vector intrinsics.
* The workload generator: sequential.
* `Root::scan`, which the testbed does not call, and `size`, whose result is only
  printed.
* File formats, statistics, option parsing, scripts, performance counters:
  sequential and without state worth checking.
* Weak memory beyond x86 and a value wider than a machine word.

## 8. Running

    tlc -workers 2 -config MCGroup.cfg MCGroup
    tlapm XIndexRCUProofs.tla

(The modules that hold proofs are those whose names end in `Proofs`, and
`XIndexRootLemmas` and `BufferTreeOrder`. The proofs of `XIndexRoot` take about 15
minutes, those of `BufferTree` about as long.)

The other runs are named in `PROJECT.json`; several configurations share a module
(`MCDriver`, `MCGroup`, `MCRoot`). Each definition called *Fault* is a plausible mistake in
the definition that follows it; putting it in the definition's place makes TLC
report the property that `PROJECT.json` names under "mutants".
