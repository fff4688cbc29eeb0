---------------------------- MODULE BenchDriver ----------------------------
(***************************************************************************)
(* The measurement driver of the testbed: Benchmark::Run, Benchmark::DoOps *)
(* and DoOpsCoreLoop of benchmark.h, together with the runMultithread      *)
(* loop that every concurrent competitor repeats (competitors/artolc.h,    *)
(* xindex.h, finedex.h, wormhole.h, sindex.h).                             *)
(*                                                                         *)
(* The process calls Run once per index and parameter set. A run executes  *)
(* NumRepeats repeats; a repeat builds the index and then executes         *)
(* NumPhases phases; a phase spawns one worker per thread, lets them loose *)
(* together, stops the clock when the first of them is through, joins all  *)
(* of them and records one result.                                         *)
(***************************************************************************)
EXTENDS Integers, Sequences, FiniteSetsExt

CONSTANTS
  NumRuns,      \* calls of Benchmark::Run made by main
  Workloads,    \* the command lines and operation files tried, as records
  MaxThreads    \* bound: threads of any of them

VARIABLES
  args,         \* the workload of this process, which never changes
  mpc,          \* where the main thread is
  run,          \* calls of Run begun so far
  rep, phase,   \* loop counters of Run and DoOps
  running,      \* util::running
  ready,        \* util::ready_threads
  run_failed,   \* tli::run_failed
  wpc,          \* where each worker is
  idx,          \* each worker's loop counter
  flag,         \* each worker's local flag: it has noticed the end
  op_cnt,       \* FGParam::op_cnt of each worker
  ns,           \* individual_ns: which phase wrote each slot
  results,      \* throughputs_ or latencies_: one entry per phase
  applied,      \* operations each worker has applied to the current index
  doneAtStop    \* history: operations finished when the clock stopped

mainVars == <<args, mpc, run, rep, phase, results>>
shared == <<running, ready, run_failed>>
history == <<applied, doneAtStop>>
vars == <<mainVars, shared, wpc, idx, flag, op_cnt, ns, history>>

\* The members of Benchmark that the command line and the file decide.
NumThreads == Len(args.ops)   \* num_threads_
Ops == args.ops               \* ops_: each thread's operations, by kind
Flag == args.flag             \* flag_: 1 for a mixed or pure workload, else 0
NumBlocks == args.blocks      \* num_blocks_
NumRepeats == args.repeats    \* num_repeats_
BuildOnly == args.build       \* build_: only measure the bulk loading
Through == args.through       \* through_: throughput or single latencies
Verify == args.verify         \* verify_: compare results with the expected ones
IndexMayErr == args.err       \* the index under test can be wrong

INSERT == "INSERT"
LOOKUP == "LOOKUP"
RANGE_QUERY == "RANGE_QUERY"
OpKinds == {INSERT, LOOKUP, RANGE_QUERY}

Threads == 1..NumThreads

\* A non-mixed, non-blocked workload holds the inserts of a thread first.
InsertsFirst(ops) ==
  \A i, j \in DOMAIN ops : ops[j] = INSERT /\ i < j => ops[i] = INSERT

\* A blocked workload holds n pairs of inserts and other operations, any of
\* which may be empty, one after the other (generate_permute_blockwise).
InBlocks(ops, n) ==
  \E cut \in [0..2 * n -> 0..Len(ops)] :
    /\ cut[0] = 0 /\ cut[2 * n] = Len(ops)
    /\ \A j \in 1..2 * n : \A k \in cut[j - 1]..cut[j] - 1 :
         ops[k + 1] = INSERT <=> j % 2 = 1

ASSUME DriverAssumption ==
  /\ NumRuns \in Nat \ {0} /\ MaxThreads \in Nat
  /\ \A a \in Workloads :
       /\ a.ops \in Seq(Seq(STRING)) /\ Len(a.ops) \in 1..MaxThreads
       /\ a.flag \in {0, 1} /\ a.blocks \in Nat \ {0} /\ a.repeats \in Nat \ {0}
       /\ a.blocks > 1 =>
            Len(a.ops) = 1 /\ a.flag = 0 /\ InBlocks(a.ops[1], a.blocks)
       /\ a.flag = 0 /\ a.blocks = 1 =>
            \A w \in DOMAIN a.ops : InsertsFirst(a.ops[w])
       /\ ~a.through => a.repeats = 1
       /\ {a.build, a.through, a.verify, a.err} \subseteq BOOLEAN

-----------------------------------------------------------------------------
(* bound_points: where the phases of a workload begin and end.              *)

\* The first operation at or after position c that ends a phase of parity odd.
NextBound(ops, c, odd) ==
  LET ends == {k \in c..Len(ops) - 1 : (ops[k + 1] = INSERT) # odd}
  IN  IF ends = {} THEN Len(ops) ELSE Min(ends)

\* num_blocks_ > 1: one bound per change between inserts and lookups.
BlockBounds(ops, n) ==
  LET bound[j \in 0..2 * n] ==
        IF j = 0 THEN 0 ELSE NextBound(ops, bound[j - 1], j % 2 = 1)
  IN  bound

BlockBound == BlockBounds(Ops[1], NumBlocks)

\* num_blocks_ = 1: the end of thread w's leading inserts.
InsertBound(w) == NextBound(Ops[w], 0, TRUE)

\* The iterations of DoOps; it returns at once when only the build is measured.
NumPhases == IF BuildOnly THEN 0 ELSE (2 - Flag) * NumBlocks

Start(w, i) ==
  IF NumBlocks > 1 THEN BlockBound[i]
  ELSE IF i = 0 THEN 0 ELSE InsertBound(w)

\* Fault: the last operation of every thread is left out.
LimitShort(w, i) ==
  IF NumBlocks > 1 THEN BlockBound[i + 1]
  ELSE IF i + 1 + Flag = 1 THEN InsertBound(w) ELSE Len(Ops[w]) - 1

Limit(w, i) ==
  IF NumBlocks > 1 THEN BlockBound[i + 1]
  ELSE IF i + 1 + Flag = 1 THEN InsertBound(w) ELSE Len(Ops[w])

\* f[1] + ... + f[n], as a loop over the threads adds it up.
SumTo(f, n) ==
  LET sum[k \in 0..n] == IF k = 0 THEN 0 ELSE sum[k - 1] + f[k] IN sum[n]

\* The operations of each thread in phase i.
Sizes(i) == [w \in Threads |-> Limit(w, i) - Start(w, i)]

\* Fault: every worker gets the array itself, not its own part of it.
SlotBaseZero(w, i) == 0

\* exe_cnt when thread w's parameters are filled in, and after the last one.
SlotBase(w, i) == SumTo(Sizes(i), w - 1)
ExeCnt(i) == SumTo(Sizes(i), NumThreads)

\* The length of the array individual_ns.
SlotCount ==
  IF NumBlocks > 1
  THEN Max({BlockBound[j] - BlockBound[j - 1] : j \in 1..2 * NumBlocks})
  ELSE LET tot == SumTo([w \in Threads |-> Len(Ops[w])], NumThreads)
           ins == IF Flag = 1 THEN 0
                  ELSE SumTo([w \in Threads |-> InsertBound(w)], NumThreads)
       IN  Max({ins, tot - ins})

-----------------------------------------------------------------------------
Uninit == -1            \* an FGParam field nobody has assigned yet
Never == <<-1, -1>>     \* a slot of individual_ns nobody has written yet

TypeOK ==
  /\ args \in Workloads
  /\ mpc \in {"start", "build", "phase", "single", "spawn", "wait", "run", "join",
              "check", "print"}
  /\ run \in 0..NumRuns
  /\ rep \in 0..NumRepeats
  /\ phase \in 0..NumPhases
  /\ running \in BOOLEAN /\ run_failed \in BOOLEAN
  /\ ready \in 0..NumThreads
  /\ wpc \in [Threads -> {"none", "ready", "spin", "top", "op", "chk", "cnt", "done"}]
  /\ idx \in [Threads -> Nat]
  /\ flag \in [Threads -> BOOLEAN]
  /\ op_cnt \in [Threads -> Nat \cup {Uninit}]
  /\ ns \in [0..SlotCount - 1 -> (Nat \X Nat) \cup {Never}]
  /\ results \in Seq(Int)
  /\ applied \in [Threads -> Nat]
  /\ doneAtStop \in [Threads -> Nat]

Init ==
  /\ args \in Workloads
  /\ mpc = "start" /\ run = 0 /\ rep = 0 /\ phase = 0 /\ results = <<>>
  /\ running = FALSE /\ ready = 0 /\ run_failed = FALSE
  /\ wpc = [w \in Threads |-> "none"]
  /\ idx = [w \in Threads |-> 0]
  /\ flag = [w \in Threads |-> FALSE]
  /\ op_cnt = [w \in Threads |-> Uninit]
  /\ ns = [s \in 0..SlotCount - 1 |-> Never]
  /\ applied = [w \in Threads |-> 0]
  /\ doneAtStop = [w \in Threads |-> 0]

-----------------------------------------------------------------------------
(* The main thread.                                                         *)

\* Fault: the results of the previous index are not cleared.
BeginRunStale ==
  /\ mpc = "start" /\ run < NumRuns
  /\ run' = run + 1
  /\ mpc' = "build" /\ rep' = 0 /\ run_failed' = FALSE
  /\ UNCHANGED <<args, phase, results, running, ready, wpc, idx, flag, op_cnt, ns, history>>

\* Run: nothing happens for an index that is not applicable to the workload;
\* else the state of the previous run is cleared.
BeginRun ==
  /\ mpc = "start" /\ run < NumRuns
  /\ run' = run + 1
  /\ \/ mpc' = "build" /\ rep' = 0 /\ results' = <<>> /\ run_failed' = FALSE
     \/ UNCHANGED <<mpc, rep, results, run_failed>>
  /\ UNCHANGED <<args, phase, running, ready, wpc, idx, flag, op_cnt, ns, history>>

\* Run: a fresh index, bulk-loaded.
Build ==
  /\ mpc = "build"
  /\ mpc' = "phase" /\ phase' = 0
  /\ applied' = [w \in Threads |-> 0]
  /\ UNCHANGED <<args, run, rep, results, shared, wpc, idx, flag, op_cnt, ns, doneAtStop>>

\* DoOps: reset the flags and fill in the workers' parameters.
StartPhase ==
  /\ mpc = "phase" /\ phase < NumPhases
  /\ mpc' = IF NumThreads > 1 THEN "spawn" ELSE "single"
  /\ running' = FALSE /\ ready' = 0
  /\ wpc' = [w \in Threads |-> "none"]
  /\ idx' = [w \in Threads |-> Start(w, phase)]
  /\ flag' = [w \in Threads |-> FALSE]
  /\ op_cnt' = [w \in Threads |-> Uninit]
  /\ UNCHANGED <<args, run, rep, phase, results, run_failed, ns, history>>

\* Fault: the single-threaded path forgets to set running.
CallSingleStopped ==
  /\ mpc = "single"
  /\ mpc' = "join"
  /\ wpc' = [wpc EXCEPT ![1] = "ready"]
  /\ UNCHANGED <<args, run, rep, phase, results, shared, idx, flag, op_cnt, ns, history>>

\* One thread: the main thread sets running and calls the loop itself.
CallSingle ==
  /\ mpc = "single"
  /\ mpc' = "join" /\ running' = TRUE
  /\ wpc' = [wpc EXCEPT ![1] = "ready"]
  /\ UNCHANGED <<args, run, rep, phase, results, ready, run_failed, idx, flag, op_cnt, ns, history>>

\* runMultithread: pthread_create, one worker after the other.
Spawn ==
  /\ mpc = "spawn"
  /\ LET w == Min({u \in Threads : wpc[u] = "none"}) IN
       /\ wpc' = [wpc EXCEPT ![w] = "ready"]
       /\ mpc' = IF w = NumThreads THEN "wait" ELSE "spawn"
  /\ UNCHANGED <<args, run, rep, phase, results, shared, idx, flag, op_cnt, ns, history>>

\* All workers are ready: let them run.
Release ==
  /\ mpc = "wait" /\ ready >= NumThreads
  /\ mpc' = "run" /\ running' = TRUE
  /\ UNCHANGED <<args, run, rep, phase, results, ready, run_failed, wpc, idx, flag, op_cnt, ns, history>>

\* The clock stops when somebody clears running.
StopClock ==
  /\ mpc = "run" /\ ~running
  /\ mpc' = "join"
  /\ UNCHANGED <<args, run, rep, phase, results, shared, wpc, idx, flag, op_cnt, ns, history>>

\* Fault: only the first worker is joined.
FirstDone == wpc[1] = "done"

AllDone == \A w \in Threads : wpc[w] = "done"

Join ==
  /\ mpc = "join" /\ AllDone
  /\ mpc' = "check"
  /\ UNCHANGED <<args, run, rep, phase, results, shared, wpc, idx, flag, op_cnt, ns, history>>

\* The result of a phase: the counted operations, or the measured latencies.
PhaseResult ==
  IF Through THEN SumTo(op_cnt, NumThreads) ELSE ExeCnt(phase)

\* DoOps after the join: give up on a failure, else record the phase.
Collect ==
  /\ mpc = "check"
  /\ \/ run_failed /\ mpc' = "start" /\ UNCHANGED <<phase, results>>
     \/ /\ ~run_failed
        /\ mpc' = "phase" /\ phase' = phase + 1
        /\ results' = Append(results, PhaseResult)
  /\ UNCHANGED <<args, run, rep, shared, wpc, idx, flag, op_cnt, ns, history>>

\* Fault: one repeat too many.
MoreRepeatsOffByOne == rep < NumRepeats

MoreRepeats == rep + 1 < NumRepeats

\* Run: the phases of one repeat are over.
EndRepeat ==
  /\ mpc = "phase" /\ phase = NumPhases
  /\ rep' = rep + 1
  /\ mpc' = IF MoreRepeats THEN "build" ELSE "print"
  /\ UNCHANGED <<args, run, phase, results, shared, wpc, idx, flag, op_cnt, ns, history>>

PrintResult ==
  /\ mpc = "print" /\ mpc' = "start"
  /\ UNCHANGED <<args, run, rep, phase, results, shared, wpc, idx, flag, op_cnt, ns, history>>

-----------------------------------------------------------------------------
(* A worker: DoOpsCoreLoop.                                                 *)

Ready(w) ==
  /\ wpc[w] = "ready"
  /\ ready' = ready + 1
  /\ wpc' = [wpc EXCEPT ![w] = "spin"]
  /\ UNCHANGED <<mainVars, running, run_failed, idx, flag, op_cnt, ns, history>>

LeaveSpin(w) ==
  /\ wpc[w] = "spin" /\ running
  /\ wpc' = [wpc EXCEPT ![w] = "top"]
  /\ UNCHANGED <<mainVars, shared, idx, flag, op_cnt, ns, history>>

\* Fault: the count is taken again at every loop head after the stop.
NoticesStopAgain(w) == ~running

NoticesStop(w) == ~running /\ ~flag[w]

\* Loop head: the first time it sees the clock stopped, the worker notes how
\* many operations it had finished; it executes the rest all the same.
LoopHead(w) ==
  /\ wpc[w] = "top" /\ idx[w] < Limit(w, phase)
  /\ flag' = [flag EXCEPT ![w] = @ \/ NoticesStop(w)]
  /\ op_cnt' = [op_cnt EXCEPT ![w] = IF NoticesStop(w) THEN idx[w] - Start(w, phase) ELSE @]
  /\ wpc' = [wpc EXCEPT ![w] = "op"]
  /\ UNCHANGED <<mainVars, shared, idx, ns, history>>

\* Whether the loop can report operation op as failed.
MayReport(op) ==
  \/ op \notin OpKinds
  \/ op \in {LOOKUP, RANGE_QUERY} /\ ~Through /\ Verify /\ IndexMayErr

Execute(w) ==
  /\ wpc[w] = "op"
  /\ LET op == Ops[w][idx[w] + 1] IN
       \/ op \in OpKinds /\ UNCHANGED run_failed
       \/ MayReport(op) /\ run_failed' = TRUE
  /\ applied' = [applied EXCEPT ![w] = @ + 1]
  /\ wpc' = [wpc EXCEPT ![w] = "chk"]
  /\ UNCHANGED <<mainVars, running, ready, idx, flag, op_cnt, ns, doneAtStop>>

\* After an operation: leave on a failure, else store the latency and go on.
AfterOp(w) ==
  /\ wpc[w] = "chk"
  /\ \/ /\ run_failed
        /\ wpc' = [wpc EXCEPT ![w] = "done"]
        /\ UNCHANGED <<idx, ns>>
     \/ /\ ~run_failed
        /\ wpc' = [wpc EXCEPT ![w] = "top"]
        /\ idx' = [idx EXCEPT ![w] = @ + 1]
        /\ ns' = IF Through THEN ns
                 ELSE [ns EXCEPT ![SlotBase(w, phase) + idx[w] - Start(w, phase)] = <<rep, phase>>]
  /\ UNCHANGED <<mainVars, shared, flag, op_cnt, history>>

\* Fault: the test of flag is inverted.
StopsClockInverted(w) == flag[w]

StopsClock(w) == ~flag[w]

\* Past the last operation: a worker that has not noticed a stop stops the clock.
LoopEnd(w) ==
  /\ wpc[w] = "top" /\ idx[w] >= Limit(w, phase)
  /\ \/ /\ ~StopsClock(w)
        /\ wpc' = [wpc EXCEPT ![w] = "done"]
        /\ UNCHANGED <<running, doneAtStop>>
     \/ /\ StopsClock(w)
        /\ wpc' = [wpc EXCEPT ![w] = "cnt"]
        /\ running' = FALSE
        /\ doneAtStop' = IF running THEN [u \in Threads |-> applied[u] - Start(u, phase)]
                         ELSE doneAtStop
  /\ UNCHANGED <<mainVars, ready, run_failed, idx, flag, op_cnt, ns, applied>>

CountAll(w) ==
  /\ wpc[w] = "cnt"
  /\ op_cnt' = [op_cnt EXCEPT ![w] = Limit(w, phase) - Start(w, phase)]
  /\ wpc' = [wpc EXCEPT ![w] = "done"]
  /\ UNCHANGED <<mainVars, shared, idx, flag, ns, history>>

-----------------------------------------------------------------------------
Main ==
  \/ BeginRun \/ Build \/ StartPhase \/ CallSingle \/ Spawn \/ Release \/ StopClock
  \/ Join \/ Collect \/ EndRepeat \/ PrintResult

Worker(w) ==
  \/ Ready(w) \/ LeaveSpin(w) \/ LoopHead(w) \/ Execute(w) \/ AfterOp(w)
  \/ LoopEnd(w) \/ CountAll(w)

\* The process has exited.
Exited == mpc = "start" /\ run = NumRuns /\ UNCHANGED vars

Next == Main \/ (\E w \in Threads : Worker(w)) \/ Exited

Spec == Init /\ [][Next]_vars

\* The operating system keeps scheduling every thread that can take a step.
Fairness ==
  WF_vars(Main) /\ \A w \in 1..MaxThreads : WF_vars(w \in Threads /\ Worker(w))
FairSpec == Spec /\ Fairness
-----------------------------------------------------------------------------
(* Properties.                                                              *)

\* Throughput is the sum of op_cnt over the time until the first worker is
\* through (benchmark.h:464-467): each worker's op_cnt is what it had finished
\* when the clock stopped, or one more for the operation it was inside; in
\* particular no count is read that nobody assigned.
CountWindow ==
  mpc = "check" /\ ~run_failed =>
    \A w \in Threads : op_cnt[w] \in doneAtStop[w]..doneAtStop[w] + 1

\* The phases cut every thread's operations into consecutive pieces: a worker
\* executes operation k exactly when it has applied the k before it, and a
\* repeat ends with every operation of every thread applied once.
OpsInOrder ==
  /\ \A w \in Threads : wpc[w] = "op" => applied[w] = idx[w]
  /\ mpc = "phase" /\ phase = NumPhases /\ ~BuildOnly => \A w \in Threads : applied[w] = Len(Ops[w])

\* The expected results of a non-mixed workload are computed as if all inserts
\* of all threads came first (generate.cc): no worker executes a lookup or a
\* range query while an insert of any thread is outstanding.
LookupsSeeAllInserts ==
  Flag = 0 /\ NumBlocks = 1 =>
    \A w, u \in Threads :
      wpc[w] = "op" /\ Ops[w][idx[w] + 1] # INSERT =>
        \A j \in 1..Len(Ops[u]) : Ops[u][j] = INSERT => applied[u] >= j

\* The latency statistics sort and read individual_ns[0 .. exe_cnt - 1], an array
\* that is never cleared: when they are taken, every one of these slots was
\* written in this phase, and none lies outside the array.
SlotsFresh ==
  mpc = "check" /\ ~run_failed /\ ~Through =>
    /\ ExeCnt(phase) <= SlotCount
    /\ \A s \in 0..ExeCnt(phase) - 1 : ns[s] = <<rep, phase>>

\* The row of one index holds one entry per repeat and phase of that index, and a throughput entry
\* never counts more operations than the phase has.
RowComplete ==
  mpc = "print" =>
    /\ Len(results) = NumRepeats * NumPhases
    /\ \A k \in DOMAIN results : results[k] \in 0..ExeCnt((k - 1) % NumPhases)

\* Once every worker of a phase has seen running, the main thread gets through
\* its spin on running and its joins: clearing running is never lost.
StartedPhaseEnds ==
  (mpc = "run" /\ \A w \in Threads : wpc[w] \notin {"none", "ready", "spin"})
    ~> (mpc = "check" \/ run_failed)

\* The testbed executes the workload to the end and stores the results.
RunEnds == <>(mpc = "start" /\ run = NumRuns)

\* With a single thread, where nobody can miss the start (benchmark.h:425-434),
\* it does, whether or not a result is found wrong.
SingleThreadEnds == NumThreads = 1 => RunEnds

\* A failed verification ends the run: once all workers have left because of it,
\* DoOps gets to its check of run_failed and Run deletes the index and returns.
FailureReturns ==
  (run_failed /\ \A w \in Threads : wpc[w] = "done") ~> (mpc = "start")
=============================================================================
