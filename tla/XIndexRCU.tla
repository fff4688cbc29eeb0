----------------------------- MODULE XIndexRCU -----------------------------
(***************************************************************************)
(* The reclamation scheme of XIndex (competitors/xindex/xindex_util.h):    *)
(* every worker owns a counter, status, that it increments when it begins  *)
(* an operation and before every retry of a put; a background thread that  *)
(* has replaced a shared pointer waits in rcu_barrier until every counter  *)
(* has moved, and only then frees what the old pointer led to.             *)
(*                                                                         *)
(* The counter is an int64_t.  The testbed's wrapper (competitors/xindex.h)*)
(* stores its largest value when a worker thread is through, so that a     *)
(* barrier does not wait for a thread that will make no further progress;  *)
(* the first operation of the next phase then wraps it to the smallest     *)
(* value.  Counters are not reset when an index is deleted and the next    *)
(* one is built.                                                           *)
(*                                                                         *)
(* A pointer is abstracted to the number of times it has been replaced.    *)
(* Each background thread replaces its own pointers only (the adjusters    *)
(* own disjoint ranges of groups, the master owns the root), so there is   *)
(* one pointer per background thread.                                      *)
(***************************************************************************)
EXTENDS Integers

CONSTANTS
  WorkerN,      \* config.worker_n
  BG,           \* the background threads: bg_master and the adjusters
  StatusMax,    \* numeric_limits<int64_t>::max()
  Sentinel,     \* the wrapper stores StatusMax when a worker thread ends
  MaxVersion,   \* bound: replacements of each pointer
  MaxPhases,    \* bound: phases a worker takes part in, per index
  MaxIndexes    \* bound: indexes built by the process

ASSUME RCUAssumption ==
  /\ WorkerN \in Nat \ {0}
  /\ StatusMax \in Nat \ {0}
  /\ Sentinel \in BOOLEAN
  /\ MaxVersion \in Nat /\ MaxPhases \in Nat /\ MaxIndexes \in Nat

Workers == 1..WorkerN
StatusMin == -StatusMax - 1
Status == StatusMin..StatusMax

VARIABLES
  status,   \* config.rcu_status[w].status
  exited,   \* config.exited
  wst,      \* what worker w does: "out" of a phase, "idle" in it, or in an "op"
  held,     \* versions of each pointer that worker w has read in its operation
  cur,      \* current version of the pointer of background thread b
  freed,    \* versions below this one have been freed
  bpc,      \* where background thread b is
  next,     \* w_i in the barrier's loops
  prev,     \* prev_status in the barrier
  phases,   \* phases begun on the current index
  indexes   \* indexes built so far

wvars == <<status, wst, held>>
bvars == <<cur, freed, bpc, next, prev>>
vars == <<wvars, bvars, exited, phases, indexes>>

TypeOK ==
  /\ status \in [Workers -> Status]
  /\ exited \in BOOLEAN
  /\ wst \in [Workers -> {"out", "idle", "op"}]
  /\ held \in [Workers -> [BG -> SUBSET Nat]]
  /\ cur \in [BG -> Nat]
  /\ freed \in [BG -> Nat]
  /\ bpc \in [BG -> {"work", "snap", "wait"}]
  /\ next \in [BG -> 1..WorkerN + 1]
  /\ prev \in [BG -> [Workers -> Status]]
  /\ phases \in Nat
  /\ indexes \in Nat

Nothing == [b \in BG |-> {}]

\* rcu_init zeroes the counters once, when the first index is built.
Init ==
  /\ status = [w \in Workers |-> 0]
  /\ exited = FALSE
  /\ wst = [w \in Workers |-> "out"]
  /\ held = [w \in Workers |-> Nothing]
  /\ cur = [b \in BG |-> 0]
  /\ freed = [b \in BG |-> 0]
  /\ bpc = [b \in BG |-> "work"]
  /\ next = [b \in BG |-> 1]
  /\ prev = [b \in BG |-> [w \in Workers |-> 0]]
  /\ phases = 0
  /\ indexes = 1

-----------------------------------------------------------------------------
(* Workers.                                                                 *)

\* The driver starts the threads of a phase after it joined the last one's.
StartPhase ==
  /\ ~exited /\ phases < MaxPhases
  /\ \A w \in Workers : wst[w] = "out"
  /\ wst' = [w \in Workers |-> "idle"]
  /\ phases' = phases + 1
  /\ UNCHANGED <<status, held, bvars, exited, indexes>>

\* Fault: the counter is taken for an unbounded integer.
RcuProgressOverflow(s) == s + 1

\* Fault: the counter saturates instead of wrapping.
RcuProgressStuck(s) == IF s = StatusMax THEN s ELSE s + 1

\* status++ on a 64-bit signed counter.
RcuProgress(s) == IF s = StatusMax THEN StatusMin ELSE s + 1

\* Bound: no worker counts up to the sentinel, 2^63 calls away.
CounterRoom(w) == status[w] # StatusMax - 1

\* get, put, remove, scan and range_scan begin with rcu_progress.
BeginOp(w) ==
  /\ wst[w] = "idle" /\ CounterRoom(w)
  /\ status' = [status EXCEPT ![w] = RcuProgress(@)]
  /\ wst' = [wst EXCEPT ![w] = "op"]
  /\ UNCHANGED <<held, bvars, exited, phases, indexes>>

\* Inside an operation a worker loads the root and any number of groups.
ReadPointer(w, b) ==
  /\ wst[w] = "op"
  /\ held' = [held EXCEPT ![w][b] = @ \cup {cur[b]}]
  /\ UNCHANGED <<status, wst, bvars, exited, phases, indexes>>

\* root->put returned result_t::retry: report progress and start over.
Retry(w) ==
  /\ wst[w] = "op" /\ CounterRoom(w)
  /\ status' = [status EXCEPT ![w] = RcuProgress(@)]
  /\ held' = [held EXCEPT ![w] = Nothing]
  /\ UNCHANGED <<wst, bvars, exited, phases, indexes>>

EndOp(w) ==
  /\ wst[w] = "op"
  /\ wst' = [wst EXCEPT ![w] = "idle"]
  /\ held' = [held EXCEPT ![w] = Nothing]
  /\ UNCHANGED <<status, bvars, exited, phases, indexes>>

\* myFunc: the worker's loop has returned.
EndPhase(w) ==
  /\ wst[w] = "idle"
  /\ wst' = [wst EXCEPT ![w] = "out"]
  /\ status' = IF Sentinel THEN [status EXCEPT ![w] = StatusMax] ELSE status
  /\ UNCHANGED <<held, bvars, exited, phases, indexes>>

-----------------------------------------------------------------------------
(* Background threads.                                                      *)

\* Replace the pointer and call rcu_barrier.
Publish(b) ==
  /\ bpc[b] = "work" /\ cur[b] < MaxVersion
  /\ cur' = [cur EXCEPT ![b] = @ + 1]
  /\ bpc' = [bpc EXCEPT ![b] = "snap"]
  /\ next' = [next EXCEPT ![b] = 1]
  /\ UNCHANGED <<wvars, freed, prev, exited, phases, indexes>>

\* Fault: a finished worker's counter is taken as it is.
SnapshotPlain(s) == s

\* The counter of a worker that is through is recorded as -1.
Snapshot(s) == IF s = StatusMax THEN -1 ELSE s

\* First loop of rcu_barrier.
TakeSnapshot(b) ==
  /\ bpc[b] = "snap" /\ next[b] <= WorkerN
  /\ prev' = [prev EXCEPT ![b][next[b]] = Snapshot(status[next[b]])]
  /\ next' = [next EXCEPT ![b] = @ + 1]
  /\ UNCHANGED <<wvars, cur, freed, bpc, exited, phases, indexes>>

EndSnapshot(b) ==
  /\ bpc[b] = "snap" /\ next[b] = WorkerN + 1
  /\ bpc' = [bpc EXCEPT ![b] = "wait"]
  /\ next' = [next EXCEPT ![b] = 1]
  /\ UNCHANGED <<wvars, cur, freed, prev, exited, phases, indexes>>

\* Fault: a counter that has not moved is good enough.
MovedOrEqual(b, w) == status[w] >= prev[b][w]

Moved(b, w) == status[w] > prev[b][w]

\* Second loop of rcu_barrier.
Pass(b) ==
  /\ bpc[b] = "wait" /\ next[b] <= WorkerN
  /\ Moved(b, next[b]) \/ exited
  /\ next' = [next EXCEPT ![b] = @ + 1]
  /\ UNCHANGED <<wvars, cur, freed, bpc, prev, exited, phases, indexes>>

\* Behind the barrier: free what the old pointer led to.
Free(b) ==
  /\ bpc[b] = "wait" /\ next[b] = WorkerN + 1
  /\ freed' = [freed EXCEPT ![b] = cur[b]]
  /\ bpc' = [bpc EXCEPT ![b] = "work"]
  /\ UNCHANGED <<wvars, cur, next, prev, exited, phases, indexes>>

-----------------------------------------------------------------------------
(* The life of an index.                                                    *)

\* ~XIndex, after the last phase: terminate_bg sets exited and joins.
Terminate ==
  /\ ~exited /\ phases = MaxPhases
  /\ \A w \in Workers : wst[w] = "out"
  /\ exited' = TRUE
  /\ UNCHANGED <<wvars, bvars, phases, indexes>>

\* The next XIndex: rcu_init finds the counters allocated and keeps them.
Rebuild ==
  /\ exited /\ indexes < MaxIndexes
  /\ \A b \in BG : bpc[b] = "work"
  /\ exited' = FALSE /\ phases' = 0 /\ indexes' = indexes + 1
  /\ UNCHANGED <<wvars, bvars>>

Worker(w) ==
  \/ BeginOp(w) \/ Retry(w) \/ EndOp(w) \/ EndPhase(w)
  \/ \E b \in BG : ReadPointer(w, b)

Background(b) ==
  \/ Publish(b) \/ TakeSnapshot(b) \/ EndSnapshot(b) \/ Pass(b) \/ Free(b)

Driver == StartPhase \/ Terminate \/ Rebuild

\* All indexes deleted and all bounds used up.
Finished ==
  /\ exited /\ indexes >= MaxIndexes /\ \A b \in BG : bpc[b] = "work"
  /\ UNCHANGED vars

Next ==
  \/ \E w \in Workers : Worker(w)
  \/ \E b \in BG : Background(b)
  \/ Driver
  \/ Finished

Spec == Init /\ [][Next]_vars

\* Threads keep being scheduled, and a put that retries gets through in the end,
\* so that every phase ends.  The index may stay alive for ever: nothing is
\* assumed about Terminate.
Fairness ==
  /\ WF_vars(StartPhase)
  /\ \A w \in Workers : WF_vars(Worker(w))
  /\ \A b \in BG : WF_vars(Background(b))
FairSpec == Spec /\ Fairness

-----------------------------------------------------------------------------
(* Properties.                                                              *)

\* Nobody uses freed memory: whatever version of a pointer a worker has read in
\* its current operation (xindex_impl.h:70-109) has not been freed behind a
\* barrier (xindex_impl.h:179-185, xindex_root_impl.h:368-489).
NoUseAfterFree ==
  \A w \in Workers, b \in BG : \A v \in held[w][b] : v >= freed[b]

\* The grace period itself: a worker the barrier has passed holds no version
\* older than the current one, although the barrier never looks at it again.
PassedHoldsCurrent ==
  \A b \in BG : bpc[b] = "wait" =>
    \A w \in Workers : w < next[b] => held[w][b] \subseteq {cur[b]}

\* Every barrier ends without the help of exited, also one that recorded a
\* finished worker which then starts again and wraps its counter.
BarrierEnds == \A b \in BG : (bpc[b] = "snap") ~> (bpc[b] = "work")
=============================================================================
