--------------------------- MODULE XIndexRCUProofs ---------------------------
(***************************************************************************)
(* The grace period of XIndex is safe for every number of workers and of   *)
(* background threads, every counter width, with and without the sentinel, *)
(* over any number of phases and indexes.                                  *)
(*                                                                         *)
(* The argument: a worker that holds an outdated version has not touched   *)
(* its counter since the version was replaced, hence not since the barrier *)
(* recorded the counter; and a worker inside an operation never shows the  *)
(* sentinel.  So the recorded value is the counter itself and the barrier  *)
(* cannot pass this worker.                                                *)
(***************************************************************************)
EXTENDS XIndexRCU, TLAPS

\* Worker w holds a version of b's pointer that has been replaced.
Outdated(w, b) == \E v \in held[w][b] : v # cur[b]

\* The barrier of b has recorded worker w's counter.
Recorded(b, w) == bpc[b] = "wait" \/ (bpc[b] = "snap" /\ w < next[b])

HeldInOps ==
  \A w \in Workers : /\ wst[w] # "out" => ~exited
                     /\ wst[w] = "op" => status[w] # StatusMax
                     /\ wst[w] # "op" => \A b \in BG : held[w][b] = {}

VersionsOrdered ==
  /\ \A b \in BG : freed[b] <= cur[b]
  /\ \A w \in Workers, b \in BG : \A v \in held[w][b] : v <= cur[b]

WorkIsClean ==
  \A b \in BG : bpc[b] = "work" => \A w \in Workers : ~Outdated(w, b)

RecordedIsExact ==
  \A b \in BG, w \in Workers :
    Recorded(b, w) /\ Outdated(w, b) => prev[b][w] = status[w]

PassedIsClean ==
  \A b \in BG, w \in Workers :
    bpc[b] = "wait" /\ w < next[b] => ~Outdated(w, b)

\* The inductive invariant.
IInv ==
  /\ TypeOK /\ HeldInOps /\ VersionsOrdered /\ NoUseAfterFree
  /\ WorkIsClean /\ RecordedIsExact /\ PassedIsClean

-----------------------------------------------------------------------------
\* The increment of a counter stays inside the 64-bit range, and from anywhere
\* but one below the sentinel it does not produce the sentinel.
LEMMA ProgressStatus ==
  ASSUME NEW s \in Status
  PROVE  /\ RcuProgress(s) \in Status
         /\ s # StatusMax - 1 => RcuProgress(s) # StatusMax
         /\ RcuProgress(s) # s
BY RCUAssumption DEF RcuProgress, Status, StatusMin

\* What the barrier records is a value of the counter's type, and the counter
\* itself unless the worker has stored the sentinel.
LEMMA SnapshotStatus ==
  ASSUME NEW s \in Status
  PROVE  /\ Snapshot(s) \in Status
         /\ s # StatusMax => Snapshot(s) = s
BY RCUAssumption DEF Snapshot, Status, StatusMin

\* The initial state: nothing is held, nothing replaced, nothing freed.
LEMMA InitIInv == Init => IInv
<1> SUFFICES ASSUME Init PROVE IInv
  OBVIOUS
<1>1. TypeOK
  <2>1. 0 \in Status /\ 1 \in 1..WorkerN + 1
    BY RCUAssumption DEF Status, StatusMin
  <2> QED
    BY <2>1 DEF Init, TypeOK, Nothing
<1>2. HeldInOps /\ VersionsOrdered /\ NoUseAfterFree
  BY DEF Init, HeldInOps, VersionsOrdered, NoUseAfterFree, Nothing
<1>3. WorkIsClean /\ RecordedIsExact /\ PassedIsClean
  BY DEF Init, WorkIsClean, RecordedIsExact, PassedIsClean, Outdated, Recorded, Nothing
<1> QED
  BY <1>1, <1>2, <1>3 DEF IInv

\* Every step keeps the state well typed: the counters stay inside their width
\* although they wrap, and the barrier's index stays inside its loops.
LEMMA NextTypeOK == TypeOK /\ [Next]_vars => TypeOK'
<1> SUFFICES ASSUME TypeOK, [Next]_vars PROVE TypeOK'
  OBVIOUS
<1> USE RCUAssumption DEF TypeOK
<1>1. ASSUME NEW w \in Workers, BeginOp(w) PROVE TypeOK'
  BY <1>1, ProgressStatus DEF BeginOp, bvars
<1>2. ASSUME NEW w \in Workers, Retry(w) PROVE TypeOK'
  BY <1>2, ProgressStatus DEF Retry, bvars, Nothing
<1>3. ASSUME NEW w \in Workers, EndOp(w) PROVE TypeOK'
  BY <1>3 DEF EndOp, bvars, Nothing
<1>4. ASSUME NEW w \in Workers, EndPhase(w) PROVE TypeOK'
  BY <1>4 DEF EndPhase, bvars, Status, StatusMin
<1>5. ASSUME NEW w \in Workers, NEW b \in BG, ReadPointer(w, b) PROVE TypeOK'
  BY <1>5 DEF ReadPointer, bvars
<1>6. ASSUME NEW b \in BG, Publish(b) PROVE TypeOK'
  BY <1>6 DEF Publish, wvars
<1>7. ASSUME NEW b \in BG, TakeSnapshot(b) PROVE TypeOK'
  <2>1. next[b] \in Workers
    BY <1>7 DEF TakeSnapshot, Workers
  <2> QED
    BY <1>7, <2>1, SnapshotStatus DEF TakeSnapshot, wvars
<1>8. ASSUME NEW b \in BG, EndSnapshot(b) PROVE TypeOK'
  BY <1>8 DEF EndSnapshot, wvars
<1>9. ASSUME NEW b \in BG, Pass(b) PROVE TypeOK'
  BY <1>9 DEF Pass, wvars
<1>10. ASSUME NEW b \in BG, Free(b) PROVE TypeOK'
  BY <1>10 DEF Free, wvars
<1>11. CASE StartPhase
  BY <1>11 DEF StartPhase, bvars
<1>12. CASE Terminate
  BY <1>12 DEF Terminate, bvars, wvars
<1>13. CASE Rebuild
  <2>1. phases' \in Nat /\ indexes' \in Nat
    BY <1>13 DEF Rebuild
  <2> QED
    BY <1>13, <2>1, Zenon DEF Rebuild, bvars, wvars
<1>14. CASE UNCHANGED vars
  BY <1>14 DEF vars, bvars, wvars
<1> QED
  BY <1>1, <1>2, <1>3, <1>4, <1>5, <1>6, <1>7, <1>8, <1>9, <1>10, <1>11, <1>12,
     <1>13, <1>14 DEF Next, Worker, Background, Driver, Finished

-----------------------------------------------------------------------------
\* Every step keeps the inductive invariant.  One step per action; a worker's
\* own steps only touch its own entries, a background thread's only its own.
LEMMA NextIInv == IInv /\ [Next]_vars => IInv'
<1> SUFFICES ASSUME IInv, [Next]_vars PROVE IInv'
  OBVIOUS
<1>0. TypeOK /\ TypeOK'
  BY NextTypeOK DEF IInv
<1> DEFINE Rest == /\ HeldInOps /\ VersionsOrdered /\ NoUseAfterFree
                   /\ WorkIsClean /\ RecordedIsExact /\ PassedIsClean
<1> SUFFICES Rest'
  BY <1>0 DEF IInv
<1> USE <1>0, RCUAssumption
         DEF IInv, HeldInOps, VersionsOrdered, NoUseAfterFree, WorkIsClean,
             RecordedIsExact, PassedIsClean, Outdated, Recorded
<1>1. ASSUME NEW w \in Workers, BeginOp(w) PROVE Rest'
  <2>1. /\ \A b \in BG : held[w][b] = {}
        /\ status'[w] # StatusMax
    BY <1>1, ProgressStatus DEF BeginOp, CounterRoom, TypeOK
  <2> QED
    BY <1>1, <2>1 DEF BeginOp, TypeOK, bvars
<1>2. ASSUME NEW w \in Workers, Retry(w) PROVE Rest'
  <2>1. status'[w] # StatusMax
    BY <1>2, ProgressStatus DEF Retry, CounterRoom, TypeOK
  <2>2. \A b \in BG : held'[w][b] = {}
    BY <1>2 DEF Retry, TypeOK, Nothing
  <2> QED
    BY <1>2, <2>1, <2>2 DEF Retry, TypeOK, bvars
<1>3. ASSUME NEW w \in Workers, EndOp(w) PROVE Rest'
  <2>1. \A b \in BG : held'[w][b] = {}
    BY <1>3 DEF EndOp, TypeOK, Nothing
  <2> QED
    BY <1>3, <2>1 DEF EndOp, TypeOK, bvars
<1>4. ASSUME NEW w \in Workers, EndPhase(w) PROVE Rest'
  BY <1>4 DEF EndPhase, TypeOK, bvars
<1>5. ASSUME NEW w \in Workers, NEW b \in BG, ReadPointer(w, b) PROVE Rest'
  <2>1. /\ held'[w][b] = held[w][b] \cup {cur[b]}
        /\ \A u \in Workers, c \in BG : u # w \/ c # b => held'[u][c] = held[u][c]
    BY <1>5 DEF ReadPointer, TypeOK
  <2> QED
    BY <1>5, <2>1 DEF ReadPointer, TypeOK, bvars
<1>6. ASSUME NEW b \in BG, Publish(b) PROVE Rest'
  <2>1. /\ cur[b] \in Nat /\ cur'[b] = cur[b] + 1
        /\ bpc'[b] = "snap" /\ next'[b] = 1
        /\ \A c \in BG : c # b => /\ cur'[c] = cur[c]
                                  /\ bpc'[c] = bpc[c] /\ next'[c] = next[c]
        /\ held' = held /\ status' = status /\ wst' = wst /\ exited' = exited
        /\ freed' = freed /\ prev' = prev
    BY <1>6 DEF Publish, TypeOK, wvars
  <2>2. \A c \in BG : c # b => \A w \in Workers :
          Outdated(w, c)' <=> Outdated(w, c)
    BY <2>1
  <2>3. HeldInOps'
    BY <2>1
  <2>4. VersionsOrdered' /\ NoUseAfterFree'
    <3>1. ASSUME NEW c \in BG
          PROVE  /\ cur[c] \in Nat /\ cur'[c] \in Nat /\ freed[c] \in Nat
                 /\ cur[c] <= cur'[c]
      <4>1. cur[c] \in Nat /\ cur'[c] \in Nat /\ freed[c] \in Nat
        BY DEF TypeOK
      <4> QED
        BY <2>1, <4>1
    <3>2. \A w \in Workers, c \in BG : held[w][c] \subseteq Nat
      BY DEF TypeOK
    <3>3. \A c \in BG : freed[c] <= cur'[c]
      BY <2>1, <3>1
    <3>4. \A w \in Workers, c \in BG : \A v \in held[w][c] : v <= cur'[c]
      BY <2>1, <3>1, <3>2
    <3> QED
      BY <2>1, <3>3, <3>4
  <2>5. WorkIsClean'
    BY <2>1, <2>2
  <2>6. RecordedIsExact' /\ PassedIsClean'
    <3>1. \A w \in Workers : ~(w < 1)
      BY DEF Workers
    <3> QED
      BY <2>1, <2>2, <3>1
  <2> QED
    BY <2>3, <2>4, <2>5, <2>6
<1>7. ASSUME NEW b \in BG, TakeSnapshot(b) PROVE Rest'
  <2> DEFINE w == next[b]
  <2>1. w \in Workers
    BY <1>7 DEF TakeSnapshot, TypeOK, Workers
  <2>2. /\ prev'[b][w] = Snapshot(status[w])
        /\ \A c \in BG, u \in Workers : c # b \/ u # w => prev'[c][u] = prev[c][u]
    BY <1>7, <2>1 DEF TakeSnapshot, TypeOK
  <2>3. Outdated(w, b) => prev'[b][w] = status[w]
    BY <2>1, <2>2, SnapshotStatus DEF TypeOK
  <2>4. \A u \in Workers : u < w + 1 => u < w \/ u = w
    BY <2>1 DEF Workers
  <2>5. RecordedIsExact'
    BY <1>7, <2>1, <2>2, <2>3, <2>4 DEF TakeSnapshot, TypeOK, wvars
  <2> QED
    BY <1>7, <2>5 DEF TakeSnapshot, TypeOK, wvars
<1>8. ASSUME NEW b \in BG, EndSnapshot(b) PROVE Rest'
  BY <1>8 DEF EndSnapshot, TypeOK, wvars, Workers
<1>9. ASSUME NEW b \in BG, Pass(b) PROVE Rest'
  <2> DEFINE w == next[b]
  <2>1. w \in Workers
    BY <1>9 DEF Pass, TypeOK, Workers
  <2>2. ~Outdated(w, b)
    <3>1. CASE exited
      BY <3>1, <2>1
    <3>2. CASE Moved(b, w)
      <4>1. status[w] \in Int /\ prev[b][w] \in Int
        BY <2>1 DEF TypeOK, Status, StatusMin
      <4>2. Outdated(w, b) => prev[b][w] = status[w]
        BY <1>9, <2>1 DEF Pass
      <4> QED
        BY <3>2, <4>1, <4>2 DEF Moved
    <3> QED
      BY <3>1, <3>2, <1>9 DEF Pass
  <2>3. \A u \in Workers : u < w + 1 => u < w \/ u = w
    BY <2>1 DEF Workers
  <2> QED
    BY <1>9, <2>1, <2>2, <2>3 DEF Pass, TypeOK, wvars
<1>10. ASSUME NEW b \in BG, Free(b) PROVE Rest'
  <2>1. \A w \in Workers : ~Outdated(w, b)
    <3>1. \A w \in Workers : w < next[b]
      BY <1>10 DEF Free, Workers
    <3> QED
      BY <1>10, <3>1 DEF Free
  <2> QED
    BY <1>10, <2>1 DEF Free, TypeOK, wvars
<1>11. CASE StartPhase
  BY <1>11 DEF StartPhase, TypeOK, bvars
<1>12. CASE Terminate
  BY <1>12 DEF Terminate, TypeOK, bvars, wvars
<1>13. CASE Rebuild
  BY <1>13 DEF Rebuild, TypeOK, bvars, wvars
<1>14. CASE UNCHANGED vars
  BY <1>14 DEF vars, bvars, wvars
<1> QED
  BY <1>1, <1>2, <1>3, <1>4, <1>5, <1>6, <1>7, <1>8, <1>9, <1>10, <1>11, <1>12,
     <1>13, <1>14 DEF Next, Worker, Background, Driver, Finished

\* The reachable states satisfy the inductive invariant.
THEOREM Safety == Spec => []IInv
BY InitIInv, NextIInv, PTL DEF Spec

\* Type correctness: in particular the wrapping counters stay int64_t values.
THEOREM TypeCorrect == Spec => []TypeOK
<1>1. IInv => TypeOK
  BY DEF IInv
<1> QED
  BY <1>1, Safety, PTL

\* No worker ever holds memory that a background thread has freed.
THEOREM ReclamationSafe == Spec => []NoUseAfterFree
<1>1. IInv => NoUseAfterFree
  BY DEF IInv
<1> QED
  BY <1>1, Safety, PTL

\* Once a barrier has passed a worker, the worker holds current versions only.
THEOREM GracePeriod == Spec => []PassedHoldsCurrent
<1>1. IInv => PassedHoldsCurrent
  BY DEF IInv, PassedIsClean, Outdated, PassedHoldsCurrent, TypeOK
<1> QED
  BY <1>1, Safety, PTL
=============================================================================
