-------------------------- MODULE XIndexRootProofs --------------------------
(***************************************************************************)
(* What the root of XIndex promises, for any number of adjusters and       *)
(* workers, any groups that are loaded and any maintenance: every action   *)
(* keeps RootInv and GroupInv, the invariants of XIndexRootLemmas.         *)
(***************************************************************************)
EXTENDS XIndexRootLemmas

-----------------------------------------------------------------------------
(* What one step of each kind of thread does to the state of this argument.  *)

\* A step of adjuster b.
AdjusterEffect(b) ==
  /\ Shapes'
  /\ UNCHANGED <<wk, root, ralloc, running, bg_running, mpc, new_root>>
  /\ \A c \in Bg \ {b} : adj'[c] = adj[c]
  /\ wait'[BgNum] = wait[BgNum]
  /\ \/ /\ adj[b].pc = "poll" /\ running /\ b \in started
        /\ started' = started \ {b} /\ UNCHANGED finished
        /\ adj'[b].pc = "slot" /\ adj'[b].r = root
     \/ /\ adj[b].pc = "poll" /\ ~running /\ adj'[b].pc = "exit"
        /\ UNCHANGED <<started, finished>>
     \/ /\ Working(b) /\ adj'[b].pc = "poll"
        /\ finished' = finished \cup {b} /\ UNCHANGED started
     \/ /\ Working(b) /\ adj'[b].pc \notin {"poll", "exit"} /\ adj'[b].r = adj[b].r
        /\ UNCHANGED <<started, finished>>

\* A step of worker w.
WorkerEffect(w) ==
  /\ Shapes'
  /\ UNCHANGED <<adj, root, ralloc, started, finished, running, mpc, new_root>>
  /\ \A v \in Workers \ {w} : wk'[v] = wk[v] /\ (v \in wait'[BgNum] <=> v \in wait[BgNum])
  /\ \/ wk'[w].pc # "idle" /\ wk'[w].r \in {wk[w].r, root} /\ UNCHANGED wait
     \/ wk'[w].r = Null

-----------------------------------------------------------------------------
\* Nothing an adjuster does to groups touches the root pointer or the flags of
\* others.
LEMMA AdjusterSteps ==
  ASSUME Shapes, NEW b \in Bg, AdjStep(b)
  PROVE  AdjusterEffect(b)
<1>0. BgNum \notin Bg /\ b # BgNum /\ b \in 0..BgNum /\ BgNum \in 0..BgNum
  BY RootAssumption DEF Bg
<1> USE <1>0
        DEF AdjusterEffect, Shapes, AdjusterFields, BgFrame, Unsignalled,
            Working
<1>1. CASE AdjBegin(b)
  BY <1>1 DEF AdjBegin, Asleep
<1>2. CASE AdjExit(b)
  BY <1>2 DEF AdjExit
<1>3. CASE NextSlot(b)
  BY <1>3 DEF NextSlot, Asleep
<1>4. CASE EndChain(b)
  BY <1>4 DEF EndChain
<1>5. CASE Skip(b)
  BY <1>5 DEF Skip, Onward, AtGroup
<1>6. CASE BeginModel(b)
  BY <1>6 DEF BeginModel, AtGroup, Barrier
<1>7. CASE EndModel(b)
  BY <1>7 DEF EndModel
<1>8. CASE BeginCompact(b)
  BY <1>8 DEF BeginCompact, AtGroup, Barrier
<1>9. CASE BeginMerge(b)
  BY <1>9 DEF BeginMerge, AtGroup, Barrier
<1>10. CASE BeginSplit(b)
  BY <1>10 DEF BeginSplit, AtGroup, Barrier
<1>11. CASE Drain(b)
  <2>1. /\ adj[b].pc = "drain" /\ Working(b)
        /\ UNCHANGED <<wk, root, ralloc, running, bg_running, mpc, new_root, wait,
                       started, finished>>
    BY <1>11 DEF Drain
  <2>2. \E n : adj' = [adj EXCEPT ![b].pc = "publish", ![b].new = n]
    BY <1>11 DEF Drain
  <2> QED
    BY <2>1, <2>2
<1>12. CASE Publish(b)
  BY <1>12 DEF Publish, Barrier
<1>13. CASE PublishSecond(b)
  BY <1>13 DEF PublishSecond, Barrier
<1>14. CASE Quiesce(b)
  BY <1>14 DEF Quiesce, Barrier
<1>15. CASE Settle(b)
  BY <1>15 DEF Settle, Onward
<1> QED
  BY <1>1, <1>2, <1>3, <1>4, <1>5, <1>6, <1>7, <1>8, <1>9, <1>10, <1>11,
     <1>12, <1>13, <1>14, <1>15
     DEF AdjStep

\* A worker takes a root from the root pointer only, and drops it together with
\* its place in the waiting lists.
LEMMA WorkerSteps ==
  ASSUME RootInv, NEW w \in Workers, Begin(w) \/ Continue(w)
  PROVE  WorkerEffect(w)
<1>0. BgNum \in 0..BgNum
  BY RootAssumption
<1> USE <1>0
        DEF WorkerEffect, RootInv, Shapes, WorkerFields, Shared, heap, flags
<1>1. CASE Begin(w)
  <2>1. PICK c \in plan.calls :
          wk' = [wk EXCEPT ![w] = [Idle EXCEPT !.pc = "root", !.op = c.op,
                                               !.key = c.key, !.end = c.end]]
    BY <1>1 DEF Begin
  <2>2. DOMAIN wk'[w] = WorkerFields /\ wk'[w].r = Null
    BY <2>1 DEF Idle
  <2> QED
    BY <1>1, <2>1, <2>2 DEF Begin
<1>2. CASE ReadRoot(w)
  BY <1>2 DEF ReadRoot
<1>3. CASE Predict(w)
  BY <1>3 DEF Predict
<1>4. CASE ReadSlot(w)
  BY <1>4 DEF ReadSlot
<1>5. CASE Chain(w)
  BY <1>5 DEF Chain, Goto
<1>6. CASE Use(w)
  BY <1>6 DEF Use, Retry, Return, Idle
<1>7. CASE FirstVisit(w)
  BY <1>7 DEF FirstVisit, Visit
<1>8. CASE ScanNext(w)
  BY <1>8 DEF ScanNext
<1>9. CASE ScanGroup(w)
  <2>1. /\ UNCHANGED <<adj, root, ralloc, started, finished, running, mpc, new_root>>
        /\ wk[w].pc = "scan"
    BY <1>9 DEF ScanGroup
  <2>2. CASE Return(w)
    BY <2>1, <2>2 DEF Return, Idle
  <2>3. ASSUME UNCHANGED wait, NEW k, Visit(w, k) PROVE WorkerEffect(w)
    BY <2>1, <2>3 DEF Visit
  <2>4. ASSUME UNCHANGED wait, NEW i, NEW g, wk' = [wk EXCEPT ![w].i = i, ![w].g = g]
        PROVE  WorkerEffect(w)
    BY <2>1, <2>4
  <2> QED
    BY <1>9, <2>2, <2>3, <2>4 DEF ScanGroup
<1> QED
  BY <1>1, <1>2, <1>3, <1>4, <1>5, <1>6, <1>7, <1>8, <1>9 DEF Continue

\* Locals stay records, waiting lists stay sets of workers.
LEMMA NextShapes == RootInv /\ [Next]_vars => Shapes'
<1> SUFFICES ASSUME RootInv, [Next]_vars PROVE Shapes'
  OBVIOUS
<1> USE RootAssumption DEF RootInv, Shapes
<1>1. ASSUME NEW w \in Workers, Begin(w) \/ Continue(w) PROVE Shapes'
  BY <1>1, WorkerSteps DEF WorkerEffect
<1>2. ASSUME NEW b \in Bg, AdjStep(b) PROVE Shapes'
  BY <1>2, AdjusterSteps DEF AdjusterEffect
<1>3. CASE StartRound
  BY <1>3 DEF StartRound, MasterFrame, heap, flags
<1>4. CASE StopRounds
  BY <1>4 DEF StopRounds, MasterFrame, heap, flags
<1>5. CASE Collect
  BY <1>5 DEF Collect, Barrier, MasterFrame, heap, flags
<1>6. CASE CreateRoot
  BY <1>6 DEF CreateRoot, MasterFrame, heap, flags
<1>7. CASE Train
  BY <1>7 DEF Train, MasterFrame, heap, flags
<1>8. CASE SwapRoot
  BY <1>8 DEF SwapRoot, Barrier, MasterFrame, heap, flags
<1>9. CASE Trim
  BY <1>9 DEF Trim, MasterFrame, heap, flags
<1>10. CASE DeleteRoot
  BY <1>10 DEF DeleteRoot, Barrier, MasterFrame, heap, flags
<1>11. CASE EndRound
  BY <1>11 DEF EndRound, MasterFrame, heap, flags
<1>12. CASE Join
  BY <1>12 DEF Join, MasterFrame, heap, flags
<1>13. CASE Terminate
  BY <1>13 DEF Terminate, MasterFrame, heap, flags
<1>14. CASE Ended
  BY <1>14 DEF Ended, vars, heap, flags
<1>15. CASE UNCHANGED vars
  BY <1>15 DEF vars, heap, flags
<1> QED
  BY <1>1, <1>2, <1>3, <1>4, <1>5, <1>6, <1>7, <1>8, <1>9, <1>10, <1>11,
     <1>12, <1>13, <1>14, <1>15
     DEF Next, MasterStep

\* The handshake of started and finished.
LEMMA NextRounds == RootInv /\ [Next]_vars => Rounds'
<1> SUFFICES ASSUME RootInv, [Next]_vars PROVE Rounds'
  OBVIOUS
<1> USE RootAssumption DEF RootInv, Rounds, Working
<1>1. ASSUME NEW w \in Workers, Begin(w) \/ Continue(w) PROVE Rounds'
  BY <1>1, WorkerSteps DEF WorkerEffect
<1>2. ASSUME NEW b \in Bg, AdjStep(b) PROVE Rounds'
  BY <1>2, AdjusterSteps DEF AdjusterEffect
<1>3. CASE StartRound
  BY <1>3 DEF StartRound, MasterFrame, heap, flags
<1>4. CASE StopRounds
  BY <1>4 DEF StopRounds, MasterFrame, heap, flags
<1>5. CASE Collect
  BY <1>5 DEF Collect, Barrier, MasterFrame, heap, flags
<1>6. CASE CreateRoot
  BY <1>6 DEF CreateRoot, MasterFrame, heap, flags
<1>7. CASE Train
  BY <1>7 DEF Train, MasterFrame, heap, flags
<1>8. CASE SwapRoot
  BY <1>8 DEF SwapRoot, Barrier, MasterFrame, heap, flags
<1>9. CASE Trim
  BY <1>9 DEF Trim, MasterFrame, heap, flags
<1>10. CASE DeleteRoot
  BY <1>10 DEF DeleteRoot, Barrier, MasterFrame, heap, flags
<1>11. CASE EndRound
  BY <1>11 DEF EndRound, MasterFrame, heap, flags
<1>12. CASE Join
  BY <1>12 DEF Join, MasterFrame, heap, flags
<1>13. CASE Terminate
  BY <1>13 DEF Terminate, MasterFrame, heap, flags
<1>14. CASE Ended
  BY <1>14 DEF Ended, vars, heap, flags
<1>15. CASE UNCHANGED vars
  BY <1>15 DEF vars, heap, flags
<1> QED
  BY <1>1, <1>2, <1>3, <1>4, <1>5, <1>6, <1>7, <1>8, <1>9, <1>10, <1>11,
     <1>12, <1>13, <1>14, <1>15
     DEF Next, MasterStep

\* A root is freed when nobody holds it.
LEMMA NextRootsLive == RootInv /\ [Next]_vars => RootsLive'
<1> SUFFICES ASSUME RootInv, [Next]_vars PROVE RootsLive'
  OBVIOUS
<1> USE RootAssumption DEF RootInv, RootsLive, Null
<1>1. ASSUME NEW w \in Workers, Begin(w) \/ Continue(w) PROVE RootsLive'
  BY <1>1, WorkerSteps DEF WorkerEffect
<1>2. ASSUME NEW b \in Bg, AdjStep(b) PROVE RootsLive'
  BY <1>2, AdjusterSteps DEF AdjusterEffect
<1>3. CASE StartRound
  BY <1>3 DEF StartRound, MasterFrame, heap, flags
<1>4. CASE StopRounds
  BY <1>4 DEF StopRounds, MasterFrame, heap, flags
<1>5. CASE Collect
  BY <1>5 DEF Collect, Barrier, MasterFrame, heap, flags
<1>6. CASE CreateRoot
  BY <1>6 DEF CreateRoot, MasterFrame, heap, flags
<1>7. CASE Train
  BY <1>7 DEF Train, MasterFrame, heap, flags
<1>8. CASE SwapRoot
  <2>1. wait'[BgNum] = {w \in Workers : wk[w].pc # "idle"}
    BY <1>8 DEF SwapRoot, Barrier, Shapes
  <2> QED
    BY <1>8, <2>1 DEF SwapRoot, MasterFrame, heap, flags
<1>9. CASE Trim
  BY <1>9 DEF Trim, MasterFrame, heap, flags
<1>10. CASE DeleteRoot
  <2>1. \A w \in Workers : wk[w].r \in {root, Null}
    BY <1>10 DEF DeleteRoot, Passed
  <2> QED
    BY <1>10, <2>1 DEF DeleteRoot, MasterFrame, heap, flags
<1>11. CASE EndRound
  BY <1>11 DEF EndRound, MasterFrame, heap, flags
<1>12. CASE Join
  BY <1>12 DEF Join, MasterFrame, heap, flags
<1>13. CASE Terminate
  BY <1>13 DEF Terminate, MasterFrame, heap, flags
<1>14. CASE Ended
  BY <1>14 DEF Ended, vars, heap, flags
<1>15. CASE UNCHANGED vars
  BY <1>15 DEF vars, heap, flags
<1> QED
  BY <1>1, <1>2, <1>3, <1>4, <1>5, <1>6, <1>7, <1>8, <1>9, <1>10, <1>11,
     <1>12, <1>13, <1>14, <1>15
     DEF Next, MasterStep

-----------------------------------------------------------------------------
\* The loaded index has one root, which nobody holds, and no round under way.
LEMMA InitRootInv == Init => RootInv
<1> SUFFICES ASSUME Init PROVE RootInv
  OBVIOUS
<1> USE RootAssumption DEF Init
<1>1. Shapes
  BY DEF Shapes, AdjusterFields, WorkerFields, Asleep, Idle
<1>2. Rounds
  BY DEF Rounds, Working, Asleep
<1>3. RootsLive
  BY DEF RootsLive, Idle
<1> QED
  BY <1>1, <1>2, <1>3 DEF RootInv

\* Every step keeps the invariant of rounds and roots.
LEMMA NextRootInv == RootInv /\ [Next]_vars => RootInv'
BY NextShapes, NextRounds, NextRootsLive DEF RootInv

\* The inductive invariant holds in every reachable state.
THEOREM RootSafety == Spec => []RootInv
BY InitRootInv, NextRootInv, PTL DEF Spec

\* An adjuster works on the root that is published, and the master does not touch
\* it meanwhile, however the flags started, finished and running are seen
\* (xindex_impl.h:145-178, xindex_root_impl.h:327-334).
THEOREM RoundsSeparate == Spec => []RoundOnCurrentRoot
<1>1. RootInv => RoundOnCurrentRoot
  BY DEF RootInv, Rounds, RoundOnCurrentRoot
<1> QED
  BY RootSafety, <1>1, PTL

\* A root is deleted only when no worker and no adjuster holds it
\* (xindex_impl.h:181-185).
THEOREM RootsReclaimedSafely == Spec => []RootsInMemory
<1>1. RootInv => RootsInMemory
  BY DEF RootInv, Rounds, RootsLive, RootsInMemory
<1> QED
  BY RootSafety, <1>1, PTL

-----------------------------------------------------------------------------
(* Groups: the actions of the adjusters.                                    *)

\* What every step of an adjuster leaves as it is.
LEMMA AdjusterOwn ==
  ASSUME RootInv, NEW b \in Bg, AdjStep(b)
  PROVE  Own(b) /\ Shapes'
<1>1. AdjusterEffect(b)
  BY AdjusterSteps DEF RootInv
<1>2. plan' = plan /\ models' = models
  BY DEF AdjStep, BgFrame, AdjBegin, AdjExit, NextSlot, EndChain, Skip, BeginModel,
         EndModel, BeginCompact, BeginMerge, BeginSplit, Drain, Publish, PublishSecond,
         Quiesce, Settle
<1> QED
  BY <1>1, <1>2 DEF AdjusterEffect, Own

\* The action AdjBegin: the adjuster starts on its share of the slots.
LEMMA AdjBeginKeeps ==
  ASSUME RootInv, Store, NEW M, NEW z, NEW p, Hang(M, z, p), NEW b \in Bg, AdjBegin(b)
  PROVE  Store' /\ Hangs'
<1>1. Own(b)
  BY AdjusterOwn DEF AdjStep
<1> DEFINE n == Len(roots[root].slots)
<1>2. /\ adj[b].pc = "poll"
      /\ adj'[b] = [Asleep EXCEPT !.pc = "slot", !.r = root,
                                  !.i = RangeBegin(b, n), !.end = RangeEnd(b, n)]
      /\ UNCHANGED <<roots, group, galloc, update, root>>
  BY DEF AdjBegin, BgFrame, RootInv, Shapes
<1>3. /\ adj'[b].pc = "slot" /\ adj'[b].old = <<>> /\ adj'[b].mid = <<>>
      /\ adj'[b].i = RangeBegin(b, n) /\ adj'[b].end = RangeEnd(b, n)
  BY <1>2 DEF Asleep
<1>4. Unlinked(b) = {} /\ Unlinked(b)' = {} /\ Locals(b)'
  BY <1>2, <1>3 DEF Unlinked, Locals, AdjusterPlaces
<1>5. RangeBegin(b, n) \in RangeBegin(b, n)..RangeEnd(b, n)
  <2>1. n \in Nat
    BY SlotTypes DEF RootInv, RootsLive
  <2> HIDE DEF n
  <2> QED
    BY <2>1, Ranges
<1>6. Job(b, z)'
  <2>1. Place(b, z)'
    BY <1>2, <1>3, <1>5 DEF Place, RangeBegin, RangeEnd
  <2> QED
    BY <1>3, <1>4, <2>1 DEF Job, Owned, Task, Ready, Done
<1> QED
  BY <1>1, <1>2, <1>3, <1>4, <1>6, IdleStep

\* The action AdjExit.
LEMMA AdjExitKeeps ==
  ASSUME RootInv, Store, NEW M, NEW z, NEW p, Hang(M, z, p), NEW b \in Bg, AdjExit(b)
  PROVE  Store' /\ Hangs'
<1>1. Own(b)
  BY AdjusterOwn DEF AdjStep
<1>2. /\ adj[b].pc = "poll" /\ adj'[b] = [adj[b] EXCEPT !.pc = "exit"]
      /\ UNCHANGED <<roots, group, galloc, update, root>>
  BY DEF AdjExit, BgFrame, Unsignalled, RootInv, Shapes
<1>3. /\ adj'[b].pc = "exit" /\ adj'[b].old = adj[b].old /\ adj'[b].mid = adj[b].mid
  BY <1>2 DEF RootInv, Shapes, AdjusterFields
<1>4. Unlinked(b) = {} /\ Unlinked(b)' = {} /\ Locals(b)'
  BY <1>2, <1>3 DEF Unlinked, Locals, AdjusterPlaces, Store
<1> QED
  BY <1>1, <1>2, <1>3, <1>4, IdleStep DEF Working

\* The action NextSlot.
LEMMA NextSlotKeeps ==
  ASSUME RootInv, Store, NEW M, NEW z, NEW p, Hang(M, z, p), NEW b \in Bg, NextSlot(b)
  PROVE  Store' /\ Hangs'
<1>1. Own(b)
  BY AdjusterOwn DEF AdjStep
<1>2. adj[b].pc = "slot" /\ UNCHANGED <<roots, group, galloc, update, root>>
  BY DEF NextSlot, BgFrame
<1>3. Place(b, z) /\ adj[b].old = <<>> /\ adj[b].mid = <<>>
  BY <1>2 DEF Hang, Job, Working, Store
<1>4. CASE adj[b].i < adj[b].end
  <2>1. adj'[b] = [adj[b] EXCEPT !.pc = "group", !.tried = FALSE, !.loc = <<"slot", adj[b].i>>]
    BY <1>4 DEF NextSlot, RootInv, Shapes
  <2>2. /\ adj'[b].pc = "group" /\ adj'[b].old = <<>> /\ adj'[b].mid = <<>>
        /\ adj'[b].i = adj[b].i /\ adj'[b].end = adj[b].end
        /\ adj'[b].loc = <<"slot", adj[b].i>>
    BY <1>3, <2>1 DEF RootInv, Shapes, AdjusterFields
  <2>3. Unlinked(b) = {} /\ Unlinked(b)' = {} /\ Locals(b)'
    BY <1>2, <2>2 DEF Unlinked, Locals, AdjusterPlaces
  <2>4. adj[b].i \in Share(b)
    <3>1. Len(roots[root].slots) \in Nat
      BY SlotTypes DEF RootInv, RootsLive
    <3>2. RangeBegin(b, Len(roots[root].slots)) \in Nat /\ RangeEnd(b, Len(roots[root].slots)) \in Nat
      BY <3>1, Ranges
    <3> QED
      BY <1>3, <1>4, <3>2 DEF Place, Share
  <2>5. Place(b, z)'
    BY <1>2, <1>3, <2>2, <2>4 DEF Place, Share, RangeBegin, RangeEnd
  <2>6. Job(b, z)'
    BY <2>2, <2>3, <2>5 DEF Job, Owned, Task, Ready, Done
  <2> QED
    BY <1>1, <1>2, <2>2, <2>3, <2>6, IdleStep
<1>5. CASE ~(adj[b].i < adj[b].end)
  <2>1. adj'[b] = Asleep
    BY <1>5 DEF NextSlot, RootInv, Shapes
  <2>2. adj'[b].pc = "poll" /\ adj'[b].old = <<>> /\ adj'[b].mid = <<>>
    BY <2>1 DEF Asleep
  <2>3. Unlinked(b) = {} /\ Unlinked(b)' = {} /\ Locals(b)'
    BY <1>2, <2>2 DEF Unlinked, Locals, AdjusterPlaces
  <2> QED
    BY <1>1, <1>2, <2>2, <2>3, IdleStep DEF Working
<1> QED
  BY <1>4, <1>5

\* The action EndChain.
LEMMA EndChainKeeps ==
  ASSUME RootInv, Store, NEW M, NEW z, NEW p, Hang(M, z, p), NEW b \in Bg, EndChain(b)
  PROVE  Store' /\ Hangs'
<1>1. Own(b)
  BY AdjusterOwn DEF AdjStep
<1>2. /\ adj[b].pc = "group" /\ UNCHANGED <<roots, group, galloc, update, root>>
      /\ adj'[b] = [adj[b] EXCEPT !.pc = "slot", !.i = @ + 1, !.loc = <<"slot", 0>>]
  BY DEF EndChain, BgFrame, Unsignalled, RootInv, Shapes
<1>3. Place(b, z) /\ adj[b].old = <<>> /\ adj[b].mid = <<>>
  BY <1>2 DEF Hang, Job, Working, Store
<1>4. /\ adj'[b].pc = "slot" /\ adj'[b].old = <<>> /\ adj'[b].mid = <<>>
      /\ adj'[b].i = adj[b].i + 1 /\ adj'[b].end = adj[b].end
  BY <1>2, <1>3 DEF RootInv, Shapes, AdjusterFields
<1>5. Unlinked(b) = {} /\ Unlinked(b)' = {} /\ Locals(b)'
  BY <1>2, <1>4 DEF Unlinked, Locals, AdjusterPlaces
<1>6. adj[b].i + 1 \in RangeBegin(b, Len(roots[root].slots))..RangeEnd(b, Len(roots[root].slots))
  <2>1. Len(roots[root].slots) \in Nat
    BY SlotTypes DEF RootInv, RootsLive
  <2>2. RangeBegin(b, Len(roots[root].slots)) \in Nat /\ RangeEnd(b, Len(roots[root].slots)) \in Nat
    BY <2>1, Ranges
  <2> QED
    BY <1>2, <1>3, <2>2 DEF Place, Share
<1>7. Job(b, z)'
  <2>1. Place(b, z)'
    BY <1>2, <1>3, <1>4, <1>6 DEF Place, RangeBegin, RangeEnd
  <2> QED
    BY <1>4, <1>5, <2>1 DEF Job, Owned, Task, Ready, Done
<1> QED
  BY <1>1, <1>2, <1>4, <1>5, <1>7, IdleStep

\* The action Skip: the pointer moves on to the next of the group.
LEMMA SkipKeeps ==
  ASSUME RootInv, Store, NEW M, NEW z, NEW p, Hang(M, z, p), NEW b \in Bg, Skip(b)
  PROVE  Store' /\ Hangs'
<1>1. Own(b)
  BY AdjusterOwn DEF AdjStep
<1>2. /\ adj[b].pc = "group" /\ Here(b) # Null
      /\ UNCHANGED <<roots, group, galloc, update, root>>
      /\ adj'[b] = Onward(b, Here(b))
  BY DEF Skip, AtGroup, BgFrame, Unsignalled, RootInv, Shapes
<1>3. Place(b, z) /\ adj[b].i \in Share(b) /\ Here(b) \in Linked /\ z[Here(b)] = adj[b].i
  BY <1>2, AtHand DEF Hang, Job, Working
<1>4. /\ adj'[b].pc = "group" /\ adj'[b].old = <<>> /\ adj'[b].mid = <<>>
      /\ adj'[b].i = adj[b].i /\ adj'[b].end = adj[b].end
      /\ adj'[b].loc = <<"next", Here(b)>>
  BY <1>2 DEF RootInv, Shapes, AdjusterFields, Onward
<1>5. Unlinked(b) = {} /\ Unlinked(b)' = {} /\ Locals(b)'
  BY <1>2, <1>4 DEF Unlinked, Locals, AdjusterPlaces
<1>6. Here(b) \in Linked'
  BY <1>1, <1>2, <1>3, <1>5, LinkedAfter
<1>7. Place(b, z)'
  BY <1>2, <1>3, <1>4, <1>6 DEF Place, Share, RangeBegin, RangeEnd
<1>8. Job(b, z)'
  BY <1>4, <1>5, <1>7 DEF Job, Owned, Task, Ready, Done
<1> QED
  BY <1>1, <1>2, <1>4, <1>5, <1>8, IdleStep

\* A group is written, or a new one is made.
LEMMA GroupWritten ==
  ASSUME NEW G, NEW A, GroupsTyped(G, A), NEW g \in GroupIds,
         NEW r \in GroupRecords, r.pivot \in Keys, r.span \subseteq r.held
  PROVE  GroupsTyped([G EXCEPT ![g] = r], A \cup {g})
BY DEF GroupsTyped

\* Groups are deleted.
LEMMA GroupsDeleted ==
  ASSUME NEW G, NEW A, GroupsTyped(G, A), NEW S
  PROVE  GroupsTyped([g \in GroupIds |-> IF g \in S THEN NoGroup ELSE G[g]], A \ S)
<1>1. NoGroup \in GroupRecords
  BY DEF NoGroup, GroupRecords, Null
<1>2. \A g \in GroupIds : G[g] \in GroupRecords
  BY DEF GroupsTyped
<1> QED
  BY <1>1, <1>2 DEF GroupsTyped

\* The old groups are frozen.
Frozen(G, g) == [G EXCEPT ![g].frozen = TRUE]

\* Freezing a buffer does not touch the links.
LEMMA GroupFrozen ==
  ASSUME NEW G, NEW A, GroupsTyped(G, A), NEW g \in A
  PROVE  /\ GroupsTyped(Frozen(G, g), A) /\ Frozen(G, g) \in [GroupIds -> GroupRecords]
         /\ \A x \in GroupIds : Frozen(G, g)[x].next = G[x].next
<1>1. g \in GroupIds /\ G[g] \in GroupRecords /\ G \in [GroupIds -> GroupRecords]
  BY DEF GroupsTyped
<1> DEFINE r == [G[g] EXCEPT !.frozen = TRUE]
<1>2. /\ r \in GroupRecords /\ r.pivot = G[g].pivot /\ r.span = G[g].span /\ r.held = G[g].held
      /\ r.next = G[g].next
  BY <1>1 DEF GroupRecords
<1>3. Frozen(G, g) = [G EXCEPT ![g] = r]
  BY DEF Frozen
<1> HIDE DEF r
<1>4. GroupsTyped(Frozen(G, g), A)
  <2>1. r.pivot \in Keys /\ r.span \subseteq r.held
    BY <1>2 DEF GroupsTyped
  <2>2. A \cup {g} = A
    OBVIOUS
  <2>3. GroupsTyped([G EXCEPT ![g] = r], A \cup {g})
    BY <1>1, <1>2, <2>1, GroupWritten
  <2> QED
    BY <1>3, <2>2, <2>3
<1>5. \A x \in GroupIds : Frozen(G, g)[x].next = G[x].next
  BY <1>1, <1>2, <1>3
<1> QED
  BY <1>4, <1>5 DEF GroupsTyped

\* The link to the group at hand, when links are as they were.
LEMMA HereAfter ==
  ASSUME RootInv, Store, NEW M, NEW z, NEW p, Hang(M, z, p), NEW b \in Bg, Working(b),
         adj[b].pc # "slot", adj'[b].r = adj[b].r, adj'[b].loc = adj[b].loc,
         UNCHANGED roots, \A x \in GroupIds : group'[x].next = group[x].next
  PROVE  Here(b)' = Here(b)
<1>1. \/ adj[b].loc = <<"slot", adj[b].i>>
      \/ \E l \in GroupIds : adj[b].loc = <<"next", l>>
  BY AtHand, LinkTypes
<1>2. CASE adj[b].loc = <<"slot", adj[b].i>>
  BY <1>2 DEF Here, Deref
<1>3. ASSUME NEW l \in GroupIds, adj[b].loc = <<"next", l>> PROVE Here(b)' = Here(b)
  BY <1>3 DEF Here, Deref
<1> QED
  BY <1>1, <1>2, <1>3

\* The place of adjuster b, when what loc hangs off is still linked.
LEMMA PlaceAfter ==
  ASSUME RootInv, Store, NEW M, NEW z, NEW p, Hang(M, z, p), NEW b \in Bg, Working(b),
         adj[b].pc # "slot", root' = root,
         Len(roots'[root].slots) = Len(roots[root].slots),
         adj'[b].i = adj[b].i, adj'[b].end = adj[b].end, adj'[b].loc = adj[b].loc,
         NEW z2, \A x \in Linked : adj[b].loc = <<"next", x>> => x \in Linked' /\ z2[x] = z[x]
  PROVE  Place(b, z2)'
<1>1. Place(b, z)
  BY DEF Hang, Job
<1>2. Share(b)' = Share(b)
  BY DEF Share, RangeBegin, RangeEnd
<1> QED
  BY <1>1, <1>2 DEF Place, RangeBegin, RangeEnd

\* The action BeginCompact.
LEMMA BeginCompactKeeps ==
  ASSUME RootInv, Store, NEW M, NEW z, NEW p, Hang(M, z, p), NEW b \in Bg, BeginCompact(b)
  PROVE  Store' /\ Hangs'
<1>1. Own(b)
  BY AdjusterOwn DEF AdjStep
<1> PICK h : h = Here(b)
  OBVIOUS
<1>2. /\ adj[b].pc = "group" /\ h # Null /\ Room(b, 1)
      /\ UNCHANGED <<roots, galloc, update, root>>
      /\ adj'[b] = [adj[b] EXCEPT !.pc = "drain", !.kind = "compact", !.old = <<h>>]
      /\ group' = Frozen(group, h)
  BY DEF BeginCompact, AtGroup, BgFrame, Unsignalled, RootInv, Shapes, Frozen
<1>3. h \in Linked /\ h \in galloc /\ h \in GroupIds /\ adj[b].mid = <<>> /\ Working(b)
  BY <1>2, AtHand, LinkTypes DEF Working, Store
<1>4. /\ adj'[b].pc = "drain" /\ adj'[b].kind = "compact" /\ adj'[b].old = <<h>>
      /\ adj'[b].mid = <<>> /\ adj'[b].r = adj[b].r
      /\ adj'[b].i = adj[b].i /\ adj'[b].end = adj[b].end /\ adj'[b].loc = adj[b].loc
  BY <1>2, <1>3 DEF RootInv, Shapes, AdjusterFields
<1>5. Unlinked(b) = {} /\ Unlinked(b)' = {} /\ Locals(b)'
  BY <1>2, <1>4 DEF Unlinked, Locals, AdjusterPlaces
<1>6. GroupsTyped(group', galloc') /\ \A x \in GroupIds : group'[x].next = group[x].next
  BY <1>2, <1>3, GroupFrozen DEF Store
<1>7. Store'
  BY <1>1, <1>2, <1>3, <1>5, <1>6, SameRoot, AdjusterStore DEF Store
<1>8. Linked' = Linked
  BY <1>1, <1>2, <1>5, LinkedAfter
<1>9. Place(b, z)'
  BY <1>2, <1>3, <1>4, <1>8, PlaceAfter
<1>10. Here(b)' = h
  BY <1>2, <1>3, <1>4, <1>6, HereAfter
<1>11. Job(b, z)'
  <2>1. Compacting(b, h)'
    BY <1>4 DEF Compacting
  <2>2. Task(b)'
    BY <1>3, <1>10, <2>1 DEF Task
  <2>3. Ready(b)'
    BY <1>2, <1>4, RoomFacts DEF Ready
  <2> QED
    BY <1>4, <1>5, <1>9, <2>2, <2>3 DEF Job, Owned, Done
<1> QED
  BY <1>1, <1>2, <1>4, <1>5, <1>6, <1>7, <1>11, StillStep

\* The action BeginMerge: the second group hangs off the share of the adjuster, too.
LEMMA BeginMergeKeeps ==
  ASSUME RootInv, Store, NEW M, NEW z, NEW p, Hang(M, z, p), NEW b \in Bg, BeginMerge(b)
  PROVE  Store' /\ Hangs'
<1>1. Own(b)
  BY AdjusterOwn DEF AdjStep
<1> PICK o : o = Here(b)
  OBVIOUS
<1> PICK i : i = adj[b].i
  OBVIOUS
<1> PICK nl \in MergeWith(b) :
        /\ group' = [group EXCEPT ![o].frozen = TRUE, ![Deref(adj[b].r, nl)].frozen = TRUE]
        /\ adj' = [adj EXCEPT ![b].pc = "drain", ![b].kind = "merge",
                              ![b].old = <<o, Deref(adj[b].r, nl)>>, ![b].nloc = nl]
  BY DEF BeginMerge
<1> PICK q : q = Deref(adj[b].r, nl)
  OBVIOUS
<1>3. /\ adj[b].pc = "group" /\ o # Null /\ Room(b, 1)
      /\ UNCHANGED <<roots, galloc, update, root>>
      /\ adj'[b] = [adj[b] EXCEPT !.pc = "drain", !.kind = "merge", !.old = <<o, q>>,
                                  !.nloc = nl]
      /\ group' = Frozen(Frozen(group, o), q)
  BY DEF BeginMerge, AtGroup, BgFrame, Unsignalled, RootInv, Shapes, Frozen
<1>4. /\ o \in Linked /\ o \in galloc /\ o \in GroupIds /\ adj[b].mid = <<>> /\ Working(b)
      /\ z[o] = i /\ i \in Share(b) /\ i \in Slots
  BY <1>3, AtHand, LinkTypes, SMTT(30) DEF Working, Store
<1>5. adj[b].r = root /\ root \in ralloc /\ Links[o] = group[o].next
  BY <1>4, LinkTypes DEF RootInv, Rounds, RootsLive
<1>6. /\ adj'[b].pc = "drain" /\ adj'[b].kind = "merge" /\ adj'[b].old = <<o, q>>
      /\ adj'[b].mid = <<>> /\ adj'[b].r = adj[b].r /\ adj'[b].nloc = nl
      /\ adj'[b].i = adj[b].i /\ adj'[b].end = adj[b].end /\ adj'[b].loc = adj[b].loc
  BY <1>3, <1>4 DEF RootInv, Shapes, AdjusterFields
<1>7. Unlinked(b) = {} /\ Unlinked(b)' = {} /\ Locals(b)'
  BY <1>3, <1>6 DEF Unlinked, Locals, AdjusterPlaces
<1>8. \/ nl = <<"next", o>> /\ q = Links[o] /\ q # Null
      \/ /\ nl = <<"slot", i + 1>> /\ Links[o] = Null
         /\ i # adj[b].end - 1 /\ roots[root].slots[i + 2] # Null
  <2>1. CASE group[o].next # Null
    <3>1. nl = <<"next", o>>
      BY <2>1 DEF MergeWith
    <3> QED
      BY <1>5, <2>1, <3>1 DEF Deref
  <2>2. CASE group[o].next = Null
    BY <1>5, <2>2 DEF MergeWith
  <2> QED
    BY <2>1, <2>2
<1>9. /\ q \in Linked /\ q \in galloc /\ q \in GroupIds
      /\ \/ nl = <<"next", o>> /\ Links[o] = q
         \/ /\ nl = <<"slot", i + 1>> /\ i + 1 \in Share(b) /\ Links[o] = Null
            /\ roots[root].slots[i + 2] = q
  <2>1. CASE nl = <<"next", o>> /\ q = Links[o] /\ q # Null
    BY <1>4, <2>1, LinkTypes DEF Hang, Chains
  <2>2. CASE nl = <<"slot", i + 1>> /\ Links[o] = Null /\ i # adj[b].end - 1
             /\ roots[root].slots[i + 2] # Null
    <3> PICK j : j = i + 1
      OBVIOUS
    <3>1. Place(b, z) /\ Len(roots[root].slots) \in Nat /\ i \in Nat
      BY <1>4, <1>5, SlotTypes DEF Hang, Job
    <3>2. RangeBegin(b, Len(roots[root].slots)) \in Nat /\ RangeEnd(b, Len(roots[root].slots)) \in Nat
      BY <3>1, Ranges
    <3>3. j \in Share(b) /\ j + 1 = i + 2
      BY <1>4, <2>2, <3>1, <3>2 DEF Place, Share
    <3>4. j \in Slots
      BY <1>5, <3>3, Shares
    <3>5. q = roots[root].slots[j + 1]
      BY <1>5, <2>2, <3>3 DEF Deref
    <3>6. ~Masked(j)
      BY <1>3, <1>4, <3>3, NotMasked
    <3>7. Heads[j] = q /\ j \in DOMAIN Heads /\ q # Null
      BY <1>5, <2>2, <3>3, <3>4, <3>5, <3>6, SlotTypes
    <3>8. q \in Linked /\ q \in galloc /\ q \in GroupIds
      BY <3>7, LinkTypes DEF Hang, Chains
    <3> QED
      BY <2>2, <3>3, <3>5, <3>8
  <2> QED
    BY <1>8, <2>1, <2>2
<1>10. GroupsTyped(group', galloc') /\ \A x \in GroupIds : group'[x].next = group[x].next
  <2>1. /\ GroupsTyped(Frozen(group, o), galloc)
        /\ \A x \in GroupIds : Frozen(group, o)[x].next = group[x].next
    BY <1>4, GroupFrozen DEF Store
  <2>2. /\ GroupsTyped(Frozen(Frozen(group, o), q), galloc)
        /\ \A x \in GroupIds : Frozen(Frozen(group, o), q)[x].next = Frozen(group, o)[x].next
    BY <1>9, <2>1, GroupFrozen
  <2> QED
    BY <1>3, <2>1, <2>2
<1>11. Store'
  BY <1>1, <1>3, <1>4, <1>7, <1>10, SameRoot, AdjusterStore DEF Store
<1>12. Linked' = Linked
  BY <1>1, <1>3, <1>7, LinkedAfter
<1>13. Place(b, z)'
  BY <1>3, <1>4, <1>6, <1>12, PlaceAfter
<1>14. Here(b)' = o
  BY <1>3, <1>4, <1>6, <1>10, HereAfter
<1>15. Job(b, z)'
  <2>1. Merging(b, o, q)'
    BY <1>6 DEF Merging
  <2>2. Links'[o] = Links[o]
    BY <1>4, <1>10 DEF Links
  <2>3. \/ ByNext(b, o)' /\ Links'[o] = q
        \/ BySlot(b)' /\ Links'[o] = Null /\ SecondSlot(b)' = q
    <3>1. Share(b)' = Share(b)
      BY <1>3 DEF Share, RangeBegin, RangeEnd
    <3> QED
      BY <1>3, <1>6, <1>9, <2>2, <3>1 DEF ByNext, BySlot, SecondSlot
  <2>4. Task(b)'
    BY <1>4, <1>9, <1>14, <2>1, <2>3 DEF Task
  <2>5. Ready(b)'
    BY <1>3, <1>6, RoomFacts DEF Ready
  <2> QED
    BY <1>6, <1>7, <1>13, <2>4, <2>5 DEF Job, Owned, Done
<1> QED
  BY <1>1, <1>3, <1>6, <1>7, <1>10, <1>11, <1>15, StillStep

\* A step that leaves the chains as they are.
LEMMA QuietStep ==
  ASSUME RootInv, Store, Store', NEW M, NEW z, NEW p, Hang(M, z, p), NEW b \in Bg, Own(b),
         NEW z2 \in [GroupIds -> Nat], Elsewhere(b, z, z2), Linked' = Linked,
         \A i \in Slots : Heads'[i] = Heads[i],
         \A x \in Linked : group'[x].next = group[x].next /\ z2[x] = z[x],
         Working(b)' => Job(b, z2)'
  PROVE  Hangs'
<1>1. M \in Nat /\ p \in [GroupIds -> 0..M]
  BY DEF Hang
<1>2. Chains(Heads', Links', Linked', z2, p)
  BY QuietChains DEF Elsewhere
<1>3. Hang(M, z2, p)'
  BY <1>1, <1>2, Stepped DEF Own
<1> QED
  BY <1>3 DEF Hangs

\* What a working adjuster can rely on.
LEMMA AtWork ==
  ASSUME RootInv, Store, NEW M, NEW z, NEW p, Hang(M, z, p), NEW b \in Bg, Working(b)
  PROVE  /\ adj[b].r = root /\ root \in ralloc /\ Job(b, z) /\ Place(b, z)
         /\ Owned(b, z) /\ Task(b) /\ Ready(b) /\ Done(b, z)
         /\ M \in Nat /\ z \in [GroupIds -> Nat] /\ p \in [GroupIds -> 0..M]
         /\ Share(b) \subseteq Slots /\ Slots \subseteq Nat
BY Shares, SlotTypes DEF RootInv, Rounds, RootsLive, Hang, Job

\* The groups that only adjuster b knows are deleted.
LEMMA FreeStep ==
  ASSUME RootInv, Store, NEW M, NEW z, NEW p, Hang(M, z, p), NEW b \in Bg, Own(b), Working(b),
         UNCHANGED roots, galloc' = galloc \ Unlinked(b), update' \subseteq Bg,
         group' = [g \in GroupIds |-> IF g \in Unlinked(b) THEN NoGroup ELSE group[g]],
         Locals(b)', Unlinked(b)' = {},
         adj[b].pc \notin {"second", "quiesce"}, adj'[b].pc \notin {"second", "quiesce"},
         Linked' = Linked => Job(b, z)'
  PROVE  Store' /\ Hangs'
<1>1. /\ GroupsTyped(group', galloc') /\ RootKept
  BY GroupsDeleted, SameRoot DEF Store
<1>2. Store'
  BY <1>1, AdjusterStore
<1>3. Linked' = Linked
  BY LinkedAfter
<1>4. /\ \A x \in Unlinked(b) : x \notin Linked /\ z[x] \in Share(b)
      /\ galloc \subseteq GroupIds /\ Linked \subseteq GroupIds
  BY OwnedApart, LinkTypes
<1>5. \A x \in GroupIds \ Unlinked(b) : group'[x] = group[x]
  OBVIOUS
<1>6. \A i \in Slots : Heads'[i] = Heads[i]
  <2>1. \A i \in Slots : Masked(i)' <=> Masked(i)
    BY MaskedAfter DEF Masks
  <2> QED
    BY <2>1 DEF Heads, Slots, Own
<1>7. Elsewhere(b, z, z)
  BY <1>3, <1>4, <1>5 DEF Elsewhere, Own
<1>8. \A x \in Linked : group'[x].next = group[x].next
  BY <1>4, <1>5
<1> QED
  BY <1>2, <1>3, <1>6, <1>7, <1>8, AtWork, QuietStep

\* The action EndModel: the old group is freed.
LEMMA EndModelKeeps ==
  ASSUME RootInv, Store, NEW M, NEW z, NEW p, Hang(M, z, p), NEW b \in Bg, EndModel(b)
  PROVE  Store' /\ Hangs'
<1>1. Own(b)
  BY AdjusterOwn DEF AdjStep
<1>2. /\ adj[b].pc = "discard" /\ UNCHANGED <<roots, update>>
      /\ adj'[b] = [adj[b] EXCEPT !.pc = "group", !.old = <<>>]
      /\ Delete(Unlinked(b)) /\ Unlinked(b) = {adj[b].old[1]}
  BY DEF EndModel, BgFrame, Unsignalled, RootInv, Shapes, Unlinked
<1>3. adj[b].mid = <<>> /\ Working(b)
  BY <1>2 DEF Working, Store
<1>4. /\ adj'[b].pc = "group" /\ adj'[b].old = <<>> /\ adj'[b].mid = <<>>
      /\ adj'[b].i = adj[b].i /\ adj'[b].end = adj[b].end /\ adj'[b].loc = adj[b].loc
  BY <1>2, <1>3 DEF RootInv, Shapes, AdjusterFields
<1>5. Unlinked(b)' = {} /\ Locals(b)'
  BY <1>4 DEF Unlinked, Locals, AdjusterPlaces
<1>6. ASSUME Linked' = Linked PROVE Job(b, z)'
  <2>1. Place(b, z)'
    BY <1>1, <1>2, <1>3, <1>4, <1>6, PlaceAfter DEF Own
  <2> QED
    BY <1>4, <1>5, <2>1 DEF Job, Owned, Task, Ready, Done
<1>7. update' \subseteq Bg
  BY <1>2 DEF Store
<1> QED
  BY <1>1, <1>2, <1>3, <1>4, <1>5, <1>6, <1>7, FreeStep DEF Delete

\* The action Settle: the old groups are freed.
LEMMA SettleKeeps ==
  ASSUME RootInv, Store, NEW M, NEW z, NEW p, Hang(M, z, p), NEW b \in Bg, Settle(b)
  PROVE  Store' /\ Hangs'
<1>1. Own(b)
  BY AdjusterOwn DEF AdjStep
<1> PICK l : l = adj[b].new[Len(adj[b].new)]
  OBVIOUS
<1>2. /\ adj[b].pc = "settle" /\ UNCHANGED roots /\ update' \in {update, update \cup {b}}
      /\ adj'[b] = Onward(b, l)
      /\ Delete(Unlinked(b))
  BY DEF Settle, BgFrame, Unsignalled, RootInv, Shapes, Unlinked
<1>3. Working(b) /\ Place(b, z) /\ Done(b, z) /\ update' \subseteq Bg
  BY <1>2, AtWork DEF Working, Store
<1>4. /\ adj'[b].pc = "group" /\ adj'[b].old = <<>> /\ adj'[b].mid = <<>>
      /\ adj'[b].i = adj[b].i /\ adj'[b].end = adj[b].end /\ adj'[b].loc = <<"next", l>>
  BY <1>2 DEF RootInv, Shapes, AdjusterFields, Onward
<1>5. Unlinked(b)' = {} /\ Locals(b)'
  BY <1>4 DEF Unlinked, Locals, AdjusterPlaces
<1>6. l \in Linked /\ z[l] = adj[b].i
  <2>1. CASE adj[b].kind # "split"
    <3>1. PICK n \in Linked : adj[b].new = <<n>> /\ z[n] = adj[b].i
      BY <1>2, <1>3, <2>1 DEF Done
    <3> QED
      BY <3>1
  <2>2. CASE adj[b].kind = "split"
    <3>1. PICK n, k \in Linked : adj[b].new = <<n, k>> /\ z[n] = adj[b].i /\ z[k] = adj[b].i
      BY <1>2, <1>3, <2>2 DEF Done
    <3> QED
      BY <3>1
  <2> QED
    BY <2>1, <2>2
<1>7. ASSUME Linked' = Linked PROVE Job(b, z)'
  <2>1. Place(b, z)'
    BY <1>1, <1>2, <1>3, <1>4, <1>6, <1>7 DEF Place, Share, RangeBegin, RangeEnd, Own
  <2> QED
    BY <1>4, <1>5, <2>1 DEF Job, Owned, Task, Ready, Done
<1> QED
  BY <1>1, <1>2, <1>3, <1>4, <1>5, <1>7, FreeStep DEF Delete

\* A merge has replaced the first group; nloc leads to the second.
LEMMA AtSecond ==
  ASSUME RootInv, Store, NEW M, NEW z, NEW p, Hang(M, z, p), NEW b \in Bg,
         adj[b].pc \in {"second", "quiesce"}, adj[b].kind = "merge"
  PROVE  \E o, q \in GroupIds : \E n \in Linked :
           /\ Merging(b, o, q) /\ adj[b].new = <<n>> /\ z[n] = adj[b].i
           /\ Unlinked(b) = {o, q}
           /\ ByNext(b, o) \/ (BySlot(b) /\ (adj[b].pc = "second" => SecondSlot(b) = q))
<1>1. Done(b, z)
  BY AtWork DEF Working
<1>2. PICK o, q \in GroupIds :
        /\ Merging(b, o, q)
        /\ ByNext(b, o) \/ (BySlot(b) /\ (adj[b].pc = "second" => SecondSlot(b) = q))
  BY <1>1 DEF Done, Compacting, Splitting
<1>3. PICK n \in Linked : adj[b].new = <<n>> /\ z[n] = adj[b].i
  BY <1>1 DEF Done
<1>4. Unlinked(b) = {o, q}
  BY <1>2 DEF Unlinked, Merging, Range
<1> QED
  BY <1>2, <1>3, <1>4

\* The link that led to the second group is changed: to the new group, then to none.
LEMMA SecondPointed ==
  ASSUME RootInv, Store, NEW M, NEW z, NEW p, Hang(M, z, p), NEW b \in Bg, Own(b),
         adj[b].pc \in {"second", "quiesce"}, adj[b].kind = "merge",
         NEW l \in {"quiesce", "settle"}, NEW g,
         \/ l = "quiesce" /\ adj[b].pc = "second" /\ g = adj[b].new[1]
         \/ l = "settle" /\ adj[b].pc = "quiesce" /\ g = Null,
         adj'[b] = [adj[b] EXCEPT !.pc = l],
         Point(b, adj[b].nloc, g, group), galloc' = galloc, update' = update
  PROVE  Store' /\ Hangs'
<1> PICK o, q \in GroupIds, n \in Linked :
           /\ Merging(b, o, q) /\ adj[b].new = <<n>> /\ z[n] = adj[b].i
           /\ Unlinked(b) = {o, q}
           /\ ByNext(b, o) \/ (BySlot(b) /\ (adj[b].pc = "second" => SecondSlot(b) = q))
  BY AtSecond
<1> PICK i : i = adj[b].i
  OBVIOUS
<1>1. /\ Working(b) /\ Place(b, z) /\ Owned(b, z) /\ i \in Share(b) /\ i \in Nat
      /\ adj[b].r = root /\ root \in ralloc /\ Share(b) \subseteq Slots /\ Slots \subseteq Nat
      /\ z \in [GroupIds -> Nat] /\ i \in Slots /\ i + 2 # 1 /\ i + 1 + 1 = i + 2
  <2>1. /\ Working(b) /\ Place(b, z) /\ Owned(b, z) /\ adj[b].r = root /\ root \in ralloc
        /\ Share(b) \subseteq Slots /\ Slots \subseteq Nat /\ z \in [GroupIds -> Nat]
    BY AtWork DEF Working
  <2>2. i \in Share(b) /\ i \in Nat /\ i \in Slots
    BY <2>1 DEF Place
  <2> QED
    BY <2>1, <2>2
<1>2. /\ adj'[b].pc = l /\ adj'[b].kind = "merge" /\ adj'[b].old = adj[b].old
      /\ adj'[b].mid = adj[b].mid /\ adj'[b].new = adj[b].new /\ adj'[b].i = adj[b].i
      /\ adj'[b].nloc = adj[b].nloc /\ adj'[b].end = adj[b].end /\ adj'[b].loc = adj[b].loc
  BY DEF RootInv, Shapes, AdjusterFields
<1>3. Unlinked(b)' = Unlinked(b) /\ Locals(b)'
  BY <1>2 DEF Unlinked, Locals, AdjusterPlaces
<1>4. g \in GroupIds \cup {Null} /\ (g # Null => g \in Linked /\ g = n)
      /\ Linked \subseteq galloc /\ galloc \subseteq GroupIds /\ Null \notin GroupIds
  BY LinkTypes
<1>5. PointEffect(adj[b].nloc, g, group)
  <2>1. \/ \E k \in Slots : adj[b].nloc = <<"slot", k>>
        \/ \E x \in GroupIds : adj[b].nloc = <<"next", x>>
    BY <1>1 DEF ByNext, BySlot
  <2> QED
    BY <1>1, <1>4, <2>1, PointFacts DEF Store, GroupsTyped
<1>6. LinksAfter(adj[b].nloc, g, group)
  BY <1>5, PointLinks DEF Store, GroupsTyped
<1>7. \A x \in GroupIds : adj[b].nloc # <<"next", x>> => group'[x] = group[x]
  BY <1>6 DEF LinksAfter
<1>8. \A x \in GroupIds : adj[b].nloc = <<"next", x>> => ByNext(b, o) /\ x = o
  BY DEF ByNext, BySlot
<1>9. \/ /\ ByNext(b, o) /\ roots' = roots
      \/ /\ BySlot(b) /\ i + 1 \in Share(b) /\ roots'[root].slots[i + 2] = g
         /\ \A j \in Slots \ {i + 1} : roots'[root].slots[j + 1] = roots[root].slots[j + 1]
  <2>1. CASE ByNext(b, o)
    BY <1>5, <2>1 DEF PointEffect, ByNext
  <2>2. CASE BySlot(b)
    <3>1. adj[b].nloc = <<"slot", i + 1>> /\ i + 1 \in Share(b)
      BY <2>2 DEF BySlot
    <3>2. /\ roots'[root].slots[i + 1 + 1] = g
          /\ \A j \in Slots \ {i + 1} : roots'[root].slots[j + 1] = roots[root].slots[j + 1]
      BY <1>5, <3>1 DEF PointEffect
    <3> QED
      BY <1>1, <2>2, <3>1, <3>2
  <2> QED
    BY <2>1, <2>2
<1>10. RootKept
  <2>1. roots[root].slots[1] # Null /\ Len(roots[root].slots) \in Nat \ {0} /\ 0 \in Slots
    <3>1. roots[root].slots[1] # Null /\ Len(roots[root].slots) \in Nat \ {0}
      BY <1>1, SlotTypes
    <3> QED
      BY <3>1 DEF Slots
  <2>2. roots'[root].slots[0 + 1] # Null
    <3>1. CASE roots' = roots
      BY <2>1, <3>1
    <3>2. CASE \A j \in Slots \ {i + 1} : roots'[root].slots[j + 1] = roots[root].slots[j + 1]
      <4>1. 0 # i + 1
        BY <1>1
      <4> QED
        BY <2>1, <3>2, <4>1
    <3> QED
      BY <1>9, <3>1, <3>2
  <2> QED
    BY <1>5, <2>2 DEF PointEffect, RootKept
<1>11. GroupsTyped(group', galloc')
  <2>1. \A x \in GroupIds : x \notin galloc => group'[x] = group[x]
    BY <1>7, <1>8, OwnedApart
  <2>2. \A x \in GroupIds : /\ group'[x].pivot = group[x].pivot /\ group'[x].span = group[x].span
                            /\ group'[x].held = group[x].held
    <3> SUFFICES ASSUME NEW x \in GroupIds
                 PROVE  /\ group'[x].pivot = group[x].pivot /\ group'[x].span = group[x].span
                        /\ group'[x].held = group[x].held
      OBVIOUS
    <3>1. group'[x] = [group[x] EXCEPT !.next = Links'[x]] /\ group[x] \in GroupRecords
      BY <1>6 DEF LinksAfter, Store, GroupsTyped
    <3> QED
      BY <3>1 DEF GroupRecords
  <2> QED
    BY <1>5, <2>1, <2>2 DEF GroupsTyped, Store, PointEffect
<1>12. Store'
  BY <1>1, <1>3, <1>10, <1>11, AdjusterStore DEF Store
<1>13. Linked' = Linked
  BY <1>3, LinkedAfter
<1>14. \A x \in GroupIds : x \in Linked \/ z[x] \notin Share(b) => group'[x] = group[x]
  <2>1. o \notin Linked /\ z[o] \in Share(b)
    BY OwnedApart
  <2> QED
    BY <1>7, <1>8, <2>1
<1>15. \A j \in Slots : Heads'[j] = Heads[j]
  <2>1. Slots' = Slots /\ root' = root
    BY <1>10 DEF Slots, RootKept, Own
  <2> SUFFICES ASSUME NEW j \in Slots
               PROVE  (IF Masked(j) THEN Null ELSE roots[root].slots[j + 1])
                        = (IF Masked(j)' THEN Null ELSE roots'[root].slots[j + 1])
    BY <2>1 DEF Heads
  <2>2. CASE ByNext(b, o)
    <3>1. Masked(j)' <=> Masked(j)
      <4>1. ~Masks(b, j) /\ ~Masks(b, j)'
        BY <1>2, <2>2 DEF Masks, ByNext
      <4> QED
        BY <4>1, MaskedAfter
    <3>2. roots' = roots
      BY <1>9, <2>2 DEF ByNext, BySlot
    <3> QED
      BY <3>1, <3>2
  <2>3. CASE BySlot(b) /\ j # i + 1
    <3>1. Masked(j)' <=> Masked(j)
      <4>1. ~Masks(b, j) /\ ~Masks(b, j)'
        BY <1>2, <2>3 DEF Masks, BySlot
      <4> QED
        BY <4>1, MaskedAfter
    <3>2. roots'[root].slots[j + 1] = roots[root].slots[j + 1]
      BY <1>9, <2>3
    <3> QED
      BY <3>1, <3>2
  <2>4. CASE BySlot(b) /\ j = i + 1
    <3>1. Masks(b, j)
      BY <2>4 DEF Masks, BySlot
    <3>2. Masked(j)
      BY <3>1, MaskedAfter
    <3>3. CASE l = "quiesce"
      <4>1. Masks(b, j)'
        BY <1>2, <3>1, <3>3 DEF Masks
      <4>2. Masked(j)'
        BY <4>1, MaskedAfter
      <4> QED
        BY <3>2, <4>2
    <3>4. CASE l = "settle"
      <4>1. roots'[root].slots[i + 2] = Null
        BY <1>9, <2>4, <3>4 DEF ByNext, BySlot
      <4>2. roots'[root].slots[j + 1] = Null
        BY <1>1, <2>4, <4>1
      <4> QED
        BY <3>2, <4>2
    <3> QED
      BY <3>3, <3>4
  <2> QED
    BY <2>2, <2>3, <2>4
<1>16. Elsewhere(b, z, z)
  <2>1. \A j \in Slots \ Share(b) : roots'[root].slots[j + 1] = roots[root].slots[j + 1]
    BY <1>9
  <2> QED
    BY <1>4, <1>10, <1>13, <1>14, <2>1 DEF Elsewhere, Own, RootKept
<1>17. Job(b, z)'
  <2>1. Share(b)' = Share(b)
    BY <1>10 DEF Share, RangeBegin, RangeEnd, RootKept, Own
  <2>2. Place(b, z)'
    <3>1. adj[b].pc # "slot"
      OBVIOUS
    <3> QED
      BY <1>1, <1>2, <1>10, <1>13, <3>1, PlaceAfter DEF RootKept, Own
  <2>3. Owned(b, z)'
    <3> SUFFICES ASSUME NEW x \in Unlinked(b)
                 PROVE  /\ x \in galloc' /\ z[x] \in Share(b)'
                        /\ \/ Links'[x] = Null
                           \/ Links'[x] \in Unlinked(b)'
                           \/ Links'[x] \in Linked' /\ z[Links'[x]] \in Share(b)'
      BY <1>3 DEF Owned
    <3>1. /\ x \in galloc /\ z[x] \in Share(b) /\ x \in GroupIds
          /\ \/ Links[x] = Null
             \/ Links[x] \in Unlinked(b)
             \/ Links[x] \in Linked /\ z[Links[x]] \in Share(b)
      BY <1>1, <1>4 DEF Owned
    <3>2. Links'[x] = g \/ Links'[x] = Links[x]
      BY <1>6, <3>1, LinkTypes DEF LinksAfter
    <3>3. g = Null \/ (g \in Linked /\ z[g] \in Share(b))
      BY <1>1, <1>4
    <3> QED
      BY <1>3, <1>13, <2>1, <3>1, <3>2, <3>3
  <2>4. Done(b, z)'
    <3>1. Merging(b, o, q)'
      BY <1>2 DEF Merging
    <3>2. ByNext(b, o)' \/ (BySlot(b)' /\ (l = "quiesce" => SecondSlot(b)' = n))
      <4>1. CASE ByNext(b, o)
        BY <1>2, <4>1 DEF ByNext
      <4>2. CASE BySlot(b)
        <5>1. BySlot(b)'
          BY <1>2, <2>1, <4>2 DEF BySlot
        <5>2. roots'[root].slots[i + 2] = g
          BY <1>9, <4>2 DEF ByNext, BySlot
        <5> QED
          BY <1>2, <5>1, <5>2 DEF SecondSlot, Own
      <4> QED
        BY <4>1, <4>2
    <3> QED
      BY <1>2, <1>13, <3>1, <3>2 DEF Done
  <2>5. Task(b)' /\ Ready(b)'
    BY <1>2 DEF Task, Ready
  <2> QED
    BY <2>2, <2>3, <2>4, <2>5 DEF Job
<1> QED
  BY <1>1, <1>4, <1>12, <1>13, <1>14, <1>15, <1>16, <1>17, QuietStep

\* The action PublishSecond: a second pointer leads to the new group of a merge.
LEMMA PublishSecondKeeps ==
  ASSUME RootInv, Store, NEW M, NEW z, NEW p, Hang(M, z, p), NEW b \in Bg, PublishSecond(b)
  PROVE  Store' /\ Hangs'
<1>1. Own(b)
  BY AdjusterOwn DEF AdjStep
<1>2. /\ adj[b].pc = "second" /\ Point(b, adj[b].nloc, adj[b].new[1], group)
      /\ adj'[b] = [adj[b] EXCEPT !.pc = "quiesce"] /\ galloc' = galloc /\ update' = update
  BY DEF PublishSecond, Unsignalled, RootInv, Shapes
<1>3. adj[b].kind = "merge"
  BY <1>2, AtWork DEF Working, Done
<1> QED
  BY <1>1, <1>2, <1>3, SecondPointed

\* The action Quiesce: after a merge the second pointer is cleared.
LEMMA QuiesceKeeps ==
  ASSUME RootInv, Store, NEW M, NEW z, NEW p, Hang(M, z, p), NEW b \in Bg, Quiesce(b)
  PROVE  Store' /\ Hangs'
<1>1. Own(b)
  BY AdjusterOwn DEF AdjStep
<1>2. /\ adj[b].pc = "quiesce" /\ adj'[b] = [adj[b] EXCEPT !.pc = "settle"]
      /\ galloc' = galloc /\ update' = update
      /\ IF adj[b].kind = "merge" THEN Point(b, adj[b].nloc, Null, group)
                                  ELSE UNCHANGED <<roots, group>>
  BY DEF Quiesce, Unsignalled, RootInv, Shapes
<1>3. CASE adj[b].kind = "merge"
  BY <1>1, <1>2, <1>3, SecondPointed
<1>4. CASE adj[b].kind # "merge"
  <2>1. UNCHANGED <<roots, group>> /\ Working(b) /\ root' = root
    BY <1>1, <1>2, <1>4 DEF Working, Own
  <2>2. /\ adj'[b].pc = "settle" /\ adj'[b].kind = adj[b].kind /\ adj'[b].old = adj[b].old
        /\ adj'[b].mid = adj[b].mid /\ adj'[b].new = adj[b].new /\ adj'[b].i = adj[b].i
        /\ adj'[b].nloc = adj[b].nloc /\ adj'[b].end = adj[b].end /\ adj'[b].loc = adj[b].loc
    BY <1>2 DEF RootInv, Shapes, AdjusterFields
  <2>3. Unlinked(b)' = Unlinked(b) /\ Locals(b)'
    BY <1>2, <2>2 DEF Unlinked, Locals, AdjusterPlaces
  <2>4. GroupsTyped(group', galloc') /\ update' \subseteq Bg /\ RootKept
    BY <1>2, <2>1, SameRoot DEF Store
  <2>5. Store'
    BY <1>1, <2>1, <2>3, <2>4, AdjusterStore
  <2>6. Linked' = Linked /\ Links' = Links /\ Share(b)' = Share(b)
    BY <1>1, <1>2, <2>1, <2>3, LinkedAfter DEF Links, Share, RangeBegin, RangeEnd
  <2>7. \A j \in Slots : Heads'[j] = Heads[j]
    <3>1. \A j \in Slots : Masked(j)' <=> Masked(j)
      BY <1>1, <1>4, <2>2, MaskedAfter DEF Masks
    <3> QED
      BY <2>1, <3>1 DEF Heads, Slots
  <2>8. Elsewhere(b, z, z)
    BY <1>1, <1>2, <2>1, <2>6 DEF Elsewhere, Own
  <2>9. Place(b, z)' /\ Owned(b, z) /\ Done(b, z) /\ z \in [GroupIds -> Nat]
    <3>1. Place(b, z)'
      BY <1>2, <2>1, <2>2, <2>6, PlaceAfter
    <3> QED
      BY <2>1, <3>1, AtWork
  <2>10. Owned(b, z)'
    BY <1>2, <2>3, <2>6, <2>9 DEF Owned
  <2>11. Done(b, z)'
    BY <1>2, <1>4, <2>2, <2>6, <2>9 DEF Done, Compacting, Splitting, Merging
  <2>12. Job(b, z)'
    BY <2>2, <2>9, <2>10, <2>11 DEF Job, Task, Ready
  <2> QED
    BY <1>1, <2>1, <2>5, <2>6, <2>7, <2>8, <2>9, <2>12, QuietStep
<1> QED
  BY <1>3, <1>4

\* A group forwards its puts.
Forwarding(G, g) == [G EXCEPT ![g].temp = TRUE]

\* Setting buffer_temp does not touch the links.
LEMMA GroupForwards ==
  ASSUME NEW G, NEW A, GroupsTyped(G, A), NEW g \in A
  PROVE  /\ GroupsTyped(Forwarding(G, g), A)
         /\ \A x \in GroupIds : Forwarding(G, g)[x].next = G[x].next
<1>1. g \in GroupIds /\ G[g] \in GroupRecords /\ G \in [GroupIds -> GroupRecords]
  BY DEF GroupsTyped
<1> DEFINE r == [G[g] EXCEPT !.temp = TRUE]
<1>2. /\ r \in GroupRecords /\ r.pivot = G[g].pivot /\ r.span = G[g].span /\ r.held = G[g].held
      /\ r.next = G[g].next
  BY <1>1 DEF GroupRecords
<1>3. Forwarding(G, g) = [G EXCEPT ![g] = r]
  BY DEF Forwarding
<1> HIDE DEF r
<1>4. GroupsTyped(Forwarding(G, g), A)
  <2>1. r.pivot \in Keys /\ r.span \subseteq r.held
    BY <1>2 DEF GroupsTyped
  <2>2. A \cup {g} = A
    OBVIOUS
  <2>3. GroupsTyped([G EXCEPT ![g] = r], A \cup {g})
    BY <1>1, <1>2, <2>1, GroupWritten
  <2> QED
    BY <1>3, <2>2, <2>3
<1> QED
  BY <1>1, <1>2, <1>3, <1>4

\* A new group with the pivot of g.
LEMMA MadeFacts ==
  ASSUME Store, NEW g \in galloc, NEW K \in SUBSET Keys, NEW x \in GroupIds \cup {Null}
  PROVE  /\ Made(g, K, x) \in GroupRecords /\ Made(g, K, x).next = x
         /\ Made(g, K, x).pivot \in Keys /\ Made(g, K, x).span \subseteq Made(g, K, x).held
<1>1. group[g].pivot \in Keys /\ group[g].pivot \in Nat
  BY DEF Store, GroupsTyped, GroupRecords
<1> PICK v : v = group[g].pivot
  OBVIOUS
<1>2. Made(g, K, x) = [NoGroup EXCEPT !.pivot = v, !.next = x, !.array = K, !.held = K,
                                      !.span = K]
  BY DEF Made
<1>3. Made(g, K, x) = [pivot |-> v, next |-> x, array |-> K, held |-> K, span |-> K,
                       frozen |-> FALSE, temp |-> FALSE]
  BY <1>2 DEF NoGroup
<1> QED
  BY <1>1, <1>3 DEF GroupRecords

\* New groups, which only adjuster b knows, before they are published.
Allocated(b, z, New) ==
  /\ New \subseteq PoolOf(b) \ galloc /\ galloc' = galloc \cup New
  /\ GroupsTyped(group', galloc')
  /\ \A x \in GroupIds \ New : group'[x].next = group[x].next
  /\ \A x \in New : \/ group'[x].next = Null
                    \/ group'[x].next \in New
                    \/ group'[x].next \in Linked /\ z[group'[x].next] \in Share(b)

\* What a draining adjuster keeps when it goes on.
Drained(b, new) ==
  /\ adj[b].pc = "drain"
  /\ adj'[b] = [adj[b] EXCEPT !.pc = "publish", !.new = new]

\* The locals of an adjuster after Drain.
LEMMA DrainedFacts ==
  ASSUME RootInv, NEW b \in Bg, NEW new, Drained(b, new)
  PROVE  /\ adj'[b].pc = "publish" /\ adj'[b].new = new /\ adj'[b].kind = adj[b].kind
         /\ adj'[b].old = adj[b].old /\ adj'[b].mid = adj[b].mid /\ adj'[b].i = adj[b].i
         /\ adj'[b].nloc = adj[b].nloc /\ adj'[b].end = adj[b].end
         /\ adj'[b].loc = adj[b].loc /\ adj'[b].r = adj[b].r /\ Working(b) /\ Working(b)'
BY DEF Drained, RootInv, Shapes, AdjusterFields, Working

\* New groups that only their adjuster knows leave the chains as they are.
LEMMA AllocStep ==
  ASSUME RootInv, Store, NEW M, NEW z, NEW p, Hang(M, z, p), NEW b \in Bg, Own(b),
         UNCHANGED <<roots, update>>, NEW new, Drained(b, new),
         NEW New, Allocated(b, z, New), Unlinked(b)' = Unlinked(b) \cup New,
         Task(b)', Ready(b)'
  PROVE  Store' /\ Hangs'
<1> USE DEF Allocated
<1> PICK i : i = adj[b].i
  OBVIOUS
<1>1. /\ adj'[b].pc = "publish" /\ adj[b].pc = "drain" /\ Working(b)
      /\ adj'[b].i = adj[b].i /\ adj'[b].end = adj[b].end /\ adj'[b].loc = adj[b].loc
  BY DrainedFacts DEF Drained
<1>2. /\ Place(b, z) /\ Owned(b, z) /\ i \in Share(b) /\ i \in Nat
      /\ root \in ralloc /\ z \in [GroupIds -> Nat] /\ Share(b) \subseteq Slots
  <2>1. /\ Place(b, z) /\ Owned(b, z) /\ root \in ralloc
        /\ Share(b) \subseteq Slots /\ Slots \subseteq Nat /\ z \in [GroupIds -> Nat]
    BY <1>1, AtWork
  <2> QED
    BY <1>1, <2>1 DEF Place
<1>3. New \subseteq GroupIds /\ Linked \subseteq galloc /\ galloc \subseteq GroupIds
      /\ New \cap galloc = {} /\ Null \notin GroupIds
  BY Pools, LinkTypes, RootAssumption DEF Bg
<1> DEFINE z2 == [x \in GroupIds |-> IF x \in New THEN i ELSE z[x]]
<1>4. /\ z2 \in [GroupIds -> Nat] /\ \A x \in New : z2[x] = i
      /\ \A x \in galloc : z2[x] = z[x]
  BY <1>2, <1>3
<1> HIDE DEF z2
<1>5. Locals(b)'
  BY <1>1 DEF Locals, AdjusterPlaces
<1>6. Store'
  <2>1. RootKept /\ update' \subseteq Bg
    BY SameRoot DEF Store
  <2> QED
    BY <1>1, <1>5, <2>1, AdjusterStore
<1>7. Linked' = Linked
  <2>1. \A x : x \in Linked' => x \in Linked
    <3> SUFFICES ASSUME NEW x \in Linked' PROVE x \in Linked
      OBVIOUS
    <3>1. /\ x \in galloc' /\ x \notin Unlinked(b)'
          /\ x \in Linked \/ x \notin galloc \/ x \in Unlinked(b)
      BY LinkedAfter
    <3> QED
      BY <3>1
  <2>2. \A x : x \in Linked => x \in Linked'
    <3> SUFFICES ASSUME NEW x \in Linked PROVE x \in Linked'
      OBVIOUS
    <3>1. x \in galloc /\ x \notin Unlinked(b)
      BY LinkedAfter
    <3>2. x \in galloc' /\ x \notin Unlinked(b)'
      BY <1>3, <3>1
    <3> QED
      BY <3>2, LinkedAfter
  <2> QED
    BY <2>1, <2>2
<1>8. \A j \in Slots : Heads'[j] = Heads[j]
  <2>1. \A j \in Slots : Masked(j)' <=> Masked(j)
    <3> SUFFICES ASSUME NEW j \in Slots PROVE Masked(j)' <=> Masked(j)
      OBVIOUS
    <3>1. ~Masks(b, j) /\ ~Masks(b, j)'
      BY <1>1 DEF Masks
    <3> QED
      BY <3>1, MaskedAfter
  <2> QED
    BY <2>1 DEF Heads, Slots, Own
<1>9. Elsewhere(b, z, z2)
  BY <1>3, <1>4, <1>7 DEF Elsewhere, Own
<1>10. \A x \in Linked : group'[x].next = group[x].next /\ z2[x] = z[x]
  BY <1>3, <1>4
<1>11. Job(b, z2)'
  <2>1. Share(b)' = Share(b) /\ root' = root
    BY DEF Share, RangeBegin, RangeEnd, Own
  <2>2. Place(b, z2)'
    BY <1>1, <1>7, <1>10, <2>1, PlaceAfter
  <2>3. Owned(b, z2)'
    <3> SUFFICES ASSUME NEW x \in Unlinked(b) \cup New
                 PROVE  /\ x \in galloc' /\ z2[x] \in Share(b)
                        /\ \/ Links'[x] = Null
                           \/ Links'[x] \in Unlinked(b) \cup New
                           \/ Links'[x] \in Linked /\ z2[Links'[x]] \in Share(b)
      BY <1>7, <2>1 DEF Owned
    <3>1. CASE x \in New
      <4>1. Links'[x] = group'[x].next
        BY <1>3, <3>1 DEF Links
      <4> QED
        BY <1>2, <1>3, <1>4, <3>1, <4>1
    <3>2. CASE x \in Unlinked(b)
      <4>1. /\ x \in galloc /\ z[x] \in Share(b)
            /\ \/ Links[x] = Null
               \/ Links[x] \in Unlinked(b)
               \/ Links[x] \in Linked /\ z[Links[x]] \in Share(b)
        BY <1>2, <3>2 DEF Owned
      <4>2. x \in GroupIds \ New
        BY <1>3, <4>1
      <4>3. Links'[x] = Links[x]
        BY <4>2 DEF Links
      <4> QED
        BY <1>3, <1>4, <4>1, <4>3
    <3> QED
      BY <3>1, <3>2
  <2> QED
    BY <1>1, <2>2, <2>3 DEF Job, Done
<1> QED
  BY <1>4, <1>6, <1>7, <1>8, <1>9, <1>10, <1>11, QuietStep

\* The link to the group at hand, and the task, are as they were.
LEMMA TaskAfter ==
  ASSUME RootInv, Store, NEW M, NEW z, NEW p, Hang(M, z, p), NEW b \in Bg, Own(b),
         UNCHANGED roots, NEW new, Drained(b, new), NEW New, Allocated(b, z, New)
  PROVE  Task(b)'
<1> USE DEF Allocated
<1>1. /\ adj'[b].kind = adj[b].kind /\ adj'[b].old = adj[b].old /\ adj'[b].mid = adj[b].mid
      /\ adj'[b].i = adj[b].i /\ adj'[b].nloc = adj[b].nloc /\ adj'[b].r = adj[b].r
      /\ adj'[b].loc = adj[b].loc /\ Working(b) /\ adj[b].pc = "drain"
  BY DrainedFacts, ZenonT(30) DEF Drained
<1>2. New \cap galloc = {} /\ galloc \subseteq GroupIds /\ Null \notin GroupIds
      /\ Linked \subseteq galloc
  BY LinkTypes
<1>3. \A x \in galloc : Links'[x] = Links[x]
  BY <1>2 DEF Links
<1>4. Here(b)' = Here(b) /\ (Here(b) # Null => Here(b) \in Linked)
  <2>1. \/ adj[b].loc = <<"slot", adj[b].i>>
        \/ \E l \in Linked : adj[b].loc = <<"next", l>>
    BY <1>1, AtHand
  <2>2. ASSUME adj[b].loc = <<"slot", adj[b].i>> PROVE Here(b)' = Here(b)
    BY <1>1, <2>2 DEF Here, Deref
  <2>3. ASSUME NEW l \in Linked, adj[b].loc = <<"next", l>> PROVE Here(b)' = Here(b)
    <3>1. l \in GroupIds \ New
      BY <1>2
    <3>2. group'[l].next = group[l].next
      BY <3>1
    <3> QED
      BY <1>1, <2>3, <3>2 DEF Here, Deref
  <2> QED
    BY <1>1, <2>1, <2>2, <2>3, AtHand
<1>5. Task(b)
  BY <1>1, AtWork
<1>6. \/ \E o \in GroupIds : Compacting(b, o) /\ Here(b) = o
      \/ \E o, q \in GroupIds :
           /\ Merging(b, o, q) /\ Here(b) = o
           /\ \/ ByNext(b, o) /\ Links[o] = q
              \/ BySlot(b) /\ Links[o] = Null /\ SecondSlot(b) = q
      \/ \E o, m, k \in GroupIds :
           Splitting(b, o, m, k) /\ Here(b) = m /\ Links[m] = k
  BY <1>1, <1>5 DEF Task
<1>7. Share(b)' = Share(b)
  BY DEF Share, RangeBegin, RangeEnd, Own
<1>8. ASSUME NEW o \in GroupIds, Compacting(b, o), Here(b) = o PROVE Task(b)'
  <2>1. Compacting(b, o)'
    BY <1>1, <1>8 DEF Compacting
  <2> QED
    BY <1>4, <1>8, <2>1 DEF Task
<1>9. ASSUME NEW o \in GroupIds, NEW q \in GroupIds, Merging(b, o, q), Here(b) = o,
             \/ ByNext(b, o) /\ Links[o] = q
             \/ BySlot(b) /\ Links[o] = Null /\ SecondSlot(b) = q
      PROVE  Task(b)'
  <2>1. Merging(b, o, q)'
    BY <1>1, <1>9 DEF Merging
  <2>2. Links'[o] = Links[o]
    BY <1>2, <1>3, <1>4, <1>9
  <2>3. \/ ByNext(b, o)' /\ Links'[o] = q
        \/ BySlot(b)' /\ Links'[o] = Null /\ SecondSlot(b)' = q
    BY <1>1, <1>7, <1>9, <2>2 DEF ByNext, BySlot, SecondSlot, Own
  <2> QED
    BY <1>4, <1>9, <2>1, <2>3 DEF Task
<1>10. ASSUME NEW o \in GroupIds, NEW m \in GroupIds, NEW k \in GroupIds,
              Splitting(b, o, m, k), Here(b) = m, Links[m] = k
       PROVE  Task(b)'
  <2>1. Splitting(b, o, m, k)'
    BY <1>1, <1>10 DEF Splitting
  <2>2. Links'[m] = Links[m]
    BY <1>2, <1>3, <1>4, <1>10
  <2> QED
    BY <1>4, <1>10, <2>1, <2>2 DEF Task
<1> QED
  BY <1>6, <1>8, <1>9, <1>10

\* The next group of a chain hangs off the same slot.
LEMMA NextLinked ==
  ASSUME RootInv, Store, NEW M, NEW z, NEW p, Hang(M, z, p), NEW g \in Linked
  PROVE  /\ Links[g] = group[g].next /\ Links[g] \in GroupIds \cup {Null}
         /\ Links[g] = Null \/ (Links[g] \in Linked /\ z[Links[g]] = z[g])
BY LinkTypes DEF Hang, Chains

\* One new group n, with the pivot of group o, the keys K and the successor of group q,
\* when the other groups are those of G.
MadeFrom(n, o, q, K, G) ==
  /\ GroupsTyped(G, galloc) /\ K \in SUBSET Keys
  /\ \A x \in GroupIds : G[x].next = group[x].next
  /\ group' = [G EXCEPT ![n] = Made(o, K, group[q].next)] /\ galloc' = galloc \cup {n}

\* The new group of a compaction or a merge.
LEMMA MadeOne ==
  ASSUME RootInv, Store, NEW M, NEW z, NEW p, Hang(M, z, p), NEW b \in Bg,
         NEW n \in PoolOf(b) \ galloc, NEW o \in Linked, NEW q \in Linked, z[q] \in Share(b),
         NEW K, NEW G, MadeFrom(n, o, q, K, G)
  PROVE  Allocated(b, z, {n}) /\ Links'[n] = Links[q] /\ n \in GroupIds
<1> USE DEF MadeFrom
<1>1. n \in GroupIds /\ o \in galloc /\ q \in GroupIds /\ Linked \subseteq GroupIds
  BY Pools, LinkTypes, RootAssumption DEF Bg
<1>2. /\ group[q].next = Links[q] /\ group[q].next \in GroupIds \cup {Null}
      /\ Links[q] = Null \/ (Links[q] \in Linked /\ z[Links[q]] \in Share(b))
  BY NextLinked
<1> PICK r : r = Made(o, K, group[q].next)
  OBVIOUS
<1>3. /\ r \in GroupRecords /\ r.next = group[q].next
      /\ r.pivot \in Keys /\ r.span \subseteq r.held
  BY <1>1, <1>2, MadeFacts
<1>4. GroupsTyped(group', galloc')
  BY <1>1, <1>3, GroupWritten
<1>5. G \in [GroupIds -> GroupRecords]
  BY DEF GroupsTyped
<1>6. group'[n] = r /\ \A x \in GroupIds \ {n} : group'[x].next = group[x].next
  BY <1>1, <1>5
<1>7. group'[n].next = Links[q]
  BY <1>2, <1>3, <1>6
<1>8. Allocated(b, z, {n})
  BY <1>2, <1>4, <1>6, <1>7 DEF Allocated
<1> QED
  BY <1>1, <1>7, <1>8 DEF Links

\* The second group of a merge hangs off the slot of the first, or off the next one.
LEMMA SecondLinked ==
  ASSUME RootInv, Store, NEW M, NEW z, NEW p, Hang(M, z, p), NEW b \in Bg,
         adj[b].pc \in {"drain", "publish"}, NEW o \in Linked, z[o] \in Share(b),
         NEW q \in GroupIds,
         \/ ByNext(b, o) /\ Links[o] = q
         \/ BySlot(b) /\ Links[o] = Null /\ SecondSlot(b) = q
  PROVE  /\ q \in Linked /\ q \in galloc /\ z[q] \in Share(b)
         /\ ByNext(b, o) => z[q] = z[o]
         /\ BySlot(b) => z[q] = adj[b].i + 1
<1>1. Null \notin GroupIds /\ Linked \subseteq galloc
  BY LinkTypes
<1>2. CASE ByNext(b, o) /\ Links[o] = q
  <2>1. ~BySlot(b)
    BY <1>2 DEF ByNext, BySlot
  <2> QED
    BY <1>1, <1>2, <2>1, NextLinked
<1>3. CASE BySlot(b) /\ SecondSlot(b) = q
  <2> PICK j : j = adj[b].i + 1
    OBVIOUS
  <2>1. j \in Share(b) /\ j \in Slots /\ adj[b].i \in Nat /\ root \in ralloc
    BY <1>3, AtWork DEF BySlot, Place, Working
  <2>2. j + 1 = adj[b].i + 2
    BY <2>1
  <2>3. ~Masked(j)
    BY <2>1, NotMasked DEF Working
  <2>4. j \in DOMAIN Heads /\ Heads[j] = q
    BY <1>3, <2>1, <2>2, <2>3, SlotTypes DEF SecondSlot
  <2>5. q \in Linked /\ z[q] = j
    BY <1>1, <2>4 DEF Hang, Chains
  <2>6. ~ByNext(b, o)
    BY <1>3 DEF ByNext, BySlot
  <2> QED
    BY <1>1, <2>1, <2>5, <2>6
<1> QED
  BY <1>2, <1>3

\* The action Drain in a compaction.
LEMMA DrainCompactKeeps ==
  ASSUME RootInv, Store, NEW M, NEW z, NEW p, Hang(M, z, p), NEW b \in Bg, Drain(b),
         adj[b].kind = "compact"
  PROVE  Store' /\ Hangs'
<1>1. Own(b)
  BY AdjusterOwn DEF AdjStep
<1> PICK n : n = Fresh(b, 1)
  OBVIOUS
<1>2. /\ adj[b].pc = "drain" /\ UNCHANGED <<roots, update>>
      /\ group' = [group EXCEPT ![adj[b].old[1]].temp = TRUE,
                    ![n] = Made(adj[b].old[1], group[adj[b].old[1]].held,
                                group[adj[b].old[1]].next)]
      /\ galloc' = galloc \cup {n}
      /\ adj'[b] = [adj[b] EXCEPT !.pc = "publish", !.new = <<n>>]
  BY DEF Drain, Unsignalled, RootInv, Shapes
<1>3. /\ Working(b) /\ Task(b) /\ Ready(b) /\ adj[b].i \in Share(b)
  BY <1>2, AtWork, AtHand DEF Working
<1>4. PICK o \in GroupIds : Compacting(b, o) /\ Here(b) = o
  BY <1>2, <1>3 DEF Task, Merging, Splitting
<1>5. o \in Linked /\ o \in galloc /\ z[o] \in Share(b) /\ adj[b].old[1] = o /\ Len(adj[b].old) = 1
  BY <1>2, <1>3, <1>4, AtHand, LinkTypes DEF Compacting
<1>6. n \in PoolOf(b) \ galloc
  BY <1>2, <1>3, FreshFacts DEF Ready
<1>7. /\ GroupsTyped(Forwarding(group, o), galloc)
      /\ \A x \in GroupIds : Forwarding(group, o)[x].next = group[x].next
  BY <1>5, GroupForwards DEF Store
<1>8. group' = [Forwarding(group, o) EXCEPT ![n] = Made(o, group[o].held, group[o].next)]
  BY <1>2, <1>5 DEF Forwarding
<1>9. group[o].held \in SUBSET Keys
  BY <1>4 DEF Store, GroupsTyped, GroupRecords
<1>10. Allocated(b, z, {n}) /\ Links'[n] = Links[o] /\ n \in GroupIds
  <2> PICK G : G = Forwarding(group, o)
    OBVIOUS
  <2> PICK K : K = group[o].held
    OBVIOUS
  <2>1. MadeFrom(n, o, o, K, G)
    BY <1>2, <1>7, <1>8, <1>9 DEF MadeFrom
  <2> QED
    BY <1>5, <1>6, <2>1, MadeOne
<1>11. Drained(b, <<n>>)
  BY <1>2 DEF Drained
<1>12. /\ adj'[b].pc = "publish" /\ adj'[b].new = <<n>> /\ adj'[b].kind = "compact"
       /\ adj'[b].old = adj[b].old
  BY <1>11, DrainedFacts
<1>13. Unlinked(b) = {} /\ Unlinked(b)' = {n}
  BY <1>2, <1>12 DEF Unlinked
<1>14. Task(b)'
  BY <1>1, <1>2, <1>10, <1>11, TaskAfter
<1>15. Links'[o] = Links[o]
  BY <1>5, <1>6, <1>10, LinkTypes DEF Links, Allocated
<1>16. Ready(b)'
  BY <1>5, <1>10, <1>12, <1>15 DEF Ready
<1> QED
  BY <1>1, <1>2, <1>10, <1>11, <1>13, <1>14, <1>16, AllocStep

\* The action Drain in a merge.
LEMMA DrainMergeKeeps ==
  ASSUME RootInv, Store, NEW M, NEW z, NEW p, Hang(M, z, p), NEW b \in Bg, Drain(b),
         adj[b].kind = "merge"
  PROVE  Store' /\ Hangs'
<1>1. Own(b)
  BY AdjusterOwn DEF AdjStep
<1> PICK n : n = Fresh(b, 1)
  OBVIOUS
<1>2. /\ adj[b].pc = "drain" /\ UNCHANGED <<roots, update>>
      /\ group' = [group EXCEPT ![adj[b].old[1]].temp = TRUE, ![adj[b].old[2]].temp = TRUE,
                    ![n] = Made(adj[b].old[1],
                                group[adj[b].old[1]].held \cup group[adj[b].old[2]].held,
                                group[adj[b].old[2]].next)]
      /\ galloc' = galloc \cup {n}
      /\ adj'[b] = [adj[b] EXCEPT !.pc = "publish", !.new = <<n>>]
  BY DEF Drain, Unsignalled, RootInv, Shapes
<1>3. /\ Working(b) /\ Task(b) /\ Ready(b) /\ adj[b].i \in Share(b)
  BY <1>2, AtWork, AtHand DEF Working
<1>4. PICK o, q \in GroupIds :
           /\ Merging(b, o, q) /\ Here(b) = o
           /\ \/ ByNext(b, o) /\ Links[o] = q
              \/ BySlot(b) /\ Links[o] = Null /\ SecondSlot(b) = q
  BY <1>2, <1>3 DEF Task, Compacting, Splitting
<1>5. /\ o \in Linked /\ o \in galloc /\ z[o] \in Share(b)
      /\ adj[b].old[1] = o /\ adj[b].old[2] = q /\ Len(adj[b].old) = 2
  BY <1>2, <1>3, <1>4, AtHand, LinkTypes DEF Merging
<1>6. q \in Linked /\ q \in galloc /\ z[q] \in Share(b)
  BY <1>2, <1>3, <1>4, <1>5, SecondLinked
<1>7. n \in PoolOf(b) \ galloc
  BY <1>2, <1>3, FreshFacts DEF Ready
<1>8. /\ GroupsTyped(Forwarding(group, o), galloc)
      /\ \A x \in GroupIds : Forwarding(group, o)[x].next = group[x].next
  BY <1>5, GroupForwards DEF Store
<1>9. /\ GroupsTyped(Forwarding(Forwarding(group, o), q), galloc)
      /\ \A x \in GroupIds : Forwarding(Forwarding(group, o), q)[x].next
                               = Forwarding(group, o)[x].next
  BY <1>6, <1>8, GroupForwards
<1>10. group' = [Forwarding(Forwarding(group, o), q) EXCEPT
                   ![n] = Made(o, group[o].held \cup group[q].held, group[q].next)]
  BY <1>2, <1>5 DEF Forwarding
<1>11. group[o].held \cup group[q].held \in SUBSET Keys
  BY <1>4 DEF Store, GroupsTyped, GroupRecords
<1>12. Allocated(b, z, {n}) /\ Links'[n] = Links[q] /\ n \in GroupIds
  <2> PICK G : G = Forwarding(Forwarding(group, o), q)
    OBVIOUS
  <2> PICK K : K = group[o].held \cup group[q].held
    OBVIOUS
  <2>1. MadeFrom(n, o, q, K, G)
    BY <1>2, <1>8, <1>9, <1>10, <1>11 DEF MadeFrom
  <2> QED
    BY <1>5, <1>6, <1>7, <2>1, MadeOne
<1>13. Drained(b, <<n>>)
  BY <1>2 DEF Drained
<1>14. /\ adj'[b].pc = "publish" /\ adj'[b].new = <<n>> /\ adj'[b].kind = "merge"
       /\ adj'[b].old = adj[b].old
  BY <1>13, DrainedFacts
<1>15. Unlinked(b) = {} /\ Unlinked(b)' = {n}
  <2>1. adj[b].pc = "drain" /\ adj[b].kind = "merge"
    BY <1>2, Zenon
  <2>2. Unlinked(b) = {}
    BY <2>1 DEF Unlinked
  <2>3. Unlinked(b)' = {adj'[b].new[1]}
    BY <1>14 DEF Unlinked
  <2> QED
    BY <1>14, <2>2, <2>3
<1>16. Task(b)'
  BY <1>1, <1>2, <1>12, <1>13, TaskAfter
<1>17. Links'[q] = Links[q]
  BY <1>6, <1>7, <1>12, LinkTypes DEF Links, Allocated
<1>18. Ready(b)'
  BY <1>5, <1>12, <1>14, <1>17 DEF Ready
<1> QED
  BY <1>1, <1>2, <1>12, <1>13, <1>15, <1>16, <1>18, AllocStep

\* The action Drain in a split.
LEMMA DrainSplitKeeps ==
  ASSUME RootInv, Store, NEW M, NEW z, NEW p, Hang(M, z, p), NEW b \in Bg, Drain(b),
         adj[b].kind = "split"
  PROVE  Store' /\ Hangs'
<1>1. Own(b)
  BY AdjusterOwn DEF AdjStep
<1> PICK n : n = Fresh(b, 1)
  OBVIOUS
<1> PICK k : k = Fresh(b, 2)
  OBVIOUS
<1>2. /\ adj[b].pc = "drain" /\ UNCHANGED <<roots, update>>
      /\ group' = [group EXCEPT
                 ![n] = Made(adj[b].mid[1], group[adj[b].mid[1]].span, k),
                 ![k] = Made(adj[b].mid[2], group[adj[b].mid[2]].span,
                             group[adj[b].mid[2]].next)]
      /\ galloc' = galloc \cup {n, k}
      /\ adj'[b] = [adj[b] EXCEPT !.pc = "publish", !.new = <<n, k>>]
  BY DEF Drain, Unsignalled, RootInv, Shapes
<1>3. /\ Working(b) /\ Task(b) /\ Ready(b) /\ adj[b].i \in Share(b)
  BY <1>2, AtWork, AtHand DEF Working
<1>4. PICK o, m, q \in GroupIds : Splitting(b, o, m, q) /\ Here(b) = m /\ Links[m] = q
  BY <1>2, <1>3 DEF Task, Compacting, Merging
<1>5. /\ m \in Linked /\ m \in galloc /\ z[m] \in Share(b)
      /\ adj[b].mid[1] = m /\ adj[b].mid[2] = q /\ adj[b].old[1] = o
  BY <1>2, <1>3, <1>4, AtHand, LinkTypes DEF Splitting
<1>6. q \in Linked /\ q \in galloc /\ z[q] \in Share(b) /\ z[q] = z[m]
  BY <1>4, <1>5, NextLinked, LinkTypes
<1>7. n \in PoolOf(b) \ galloc /\ k \in PoolOf(b) \ galloc /\ n # k
  BY <1>2, <1>3, FreshFacts DEF Ready
<1>8. n \in GroupIds /\ k \in GroupIds
  BY <1>7, Pools, RootAssumption DEF Bg
<1>9. /\ group[m].span \in SUBSET Keys /\ group[q].span \in SUBSET Keys
      /\ GroupsTyped(group, galloc) /\ group \in [GroupIds -> GroupRecords]
  BY <1>4 DEF Store, GroupsTyped, GroupRecords
<1> PICK r : r = Made(m, group[m].span, k)
  OBVIOUS
<1> PICK s : s = Made(q, group[q].span, group[q].next)
  OBVIOUS
<1>10. /\ r \in GroupRecords /\ r.next = k /\ r.pivot \in Keys /\ r.span \subseteq r.held
  BY <1>5, <1>8, <1>9, MadeFacts
<1>11. /\ s \in GroupRecords /\ s.next = Links[q] /\ s.pivot \in Keys /\ s.span \subseteq s.held
  <2>1. group[q].next = Links[q] /\ group[q].next \in GroupIds \cup {Null}
    BY <1>6, NextLinked
  <2> QED
    BY <1>6, <1>9, <2>1, MadeFacts
<1>12. GroupsTyped([group EXCEPT ![n] = r], galloc \cup {n})
  BY <1>8, <1>9, <1>10, GroupWritten
<1>13. GroupsTyped([[group EXCEPT ![n] = r] EXCEPT ![k] = s], (galloc \cup {n}) \cup {k})
  BY <1>8, <1>11, <1>12, GroupWritten
<1>14. /\ group' = [[group EXCEPT ![n] = r] EXCEPT ![k] = s]
       /\ galloc' = (galloc \cup {n}) \cup {k}
  BY <1>2, <1>5
<1>15. /\ group'[n] = r /\ group'[k] = s
       /\ \A x \in GroupIds \ {n, k} : group'[x] = group[x]
  BY <1>7, <1>8, <1>9, <1>14
<1>16. Links[q] = Null \/ (Links[q] \in Linked /\ z[Links[q]] \in Share(b))
  BY <1>6, NextLinked
<1>17. Allocated(b, z, {n, k})
  <2>1. GroupsTyped(group', galloc')
    BY <1>13, <1>14
  <2>2. group'[n].next = k /\ group'[k].next = Links[q]
    BY <1>10, <1>11, <1>15
  <2> QED
    BY <1>2, <1>7, <1>15, <1>16, <2>1, <2>2 DEF Allocated
<1>18. Links'[n] = k /\ Links'[k] = Links[q]
  BY <1>8, <1>10, <1>11, <1>15 DEF Links
<1>19. Links'[q] = Links[q]
  BY <1>6, <1>7, <1>4, <1>15 DEF Links
<1>20. Drained(b, <<n, k>>)
  BY <1>2 DEF Drained
<1>21. /\ adj'[b].pc = "publish" /\ adj'[b].new = <<n, k>> /\ adj'[b].kind = "split"
       /\ adj'[b].old = adj[b].old /\ adj'[b].mid = adj[b].mid
  BY <1>20, DrainedFacts
<1>22. Unlinked(b) = {o} /\ Unlinked(b)' = {o, n, k}
  BY <1>2, <1>5, <1>21 DEF Unlinked
<1>23. Unlinked(b)' = Unlinked(b) \cup {n, k}
  BY <1>22
<1>24. Task(b)'
  BY <1>1, <1>2, <1>17, <1>20, TaskAfter
<1>25. Ready(b)'
  <2>1. o \in galloc
    BY <1>22, OwnedApart
  <2>2. o \notin {n, k}
    BY <1>7, <2>1
  <2> QED
    BY <1>5, <1>7, <1>8, <1>18, <1>19, <1>21, <2>2 DEF Ready
<1> QED
  BY <1>1, <1>2, <1>17, <1>20, <1>23, <1>24, <1>25, AllocStep

\* The action Drain.
LEMMA DrainKeeps ==
  ASSUME RootInv, Store, NEW M, NEW z, NEW p, Hang(M, z, p), NEW b \in Bg, Drain(b)
  PROVE  Store' /\ Hangs'
<1>1. adj[b].kind \in {"compact", "merge", "split"}
  BY DEF Drain
<1> QED
  BY <1>1, DrainCompactKeeps, DrainMergeKeeps, DrainSplitKeeps

\* *loc = a: adjuster b puts groups a and e in the place of c and d; groups that are
\* new are those of G.
Replaced(b, z, a, e, c, d, G) ==
  /\ adj[b].pc \in {"group", "publish"} /\ Working(b)'
  /\ adj'[b].i = adj[b].i /\ adj'[b].end = adj[b].end /\ adj'[b].loc = adj[b].loc
  /\ c = Here(b) /\ c \in GroupIds /\ d \in Linked /\ z[d] \in Share(b)
  /\ c = d \/ Links[c] = d \/ z[d] # adj[b].i
  /\ {a, e} \subseteq GroupIds \ Linked
  /\ Point(b, adj[b].loc, a, G) /\ GroupsTyped(G, galloc')
  /\ \A x \in galloc : G[x].next = Links[x]
  /\ galloc' = galloc \cup {a, e} /\ {a, e} \ galloc \subseteq PoolOf(b)
  /\ \A x \in {a, e} : x \in galloc => x \in Unlinked(b)
  /\ Unlinked(b)' \subseteq Unlinked(b) \cup {c, d} /\ Unlinked(b) \subseteq Unlinked(b)' \cup {a, e}
  /\ {c, d} \subseteq Unlinked(b)' /\ {a, e} \cap Unlinked(b)' = {}
  /\ update' = update /\ Locals(b)'

\* What the adjuster does not write.
LEMMA PointAt ==
  ASSUME RootInv, Store, NEW M, NEW z, NEW p, Hang(M, z, p), NEW b \in Bg, Own(b),
         NEW a, NEW e, NEW c, NEW d, NEW G, Replaced(b, z, a, e, c, d, G)
  PROVE  /\ PointEffect(adj[b].loc, a, G) /\ LinksAfter(adj[b].loc, a, G)
         /\ G \in [GroupIds -> GroupRecords] /\ RootKept
         /\ \A j \in Slots \ Share(b) : roots'[root].slots[j + 1] = roots[root].slots[j + 1]
         /\ c \in Linked /\ z[c] = adj[b].i /\ adj[b].i \in Share(b)
         /\ \A x : adj[b].loc = <<"next", x>> =>
              x \in Linked /\ z[x] = adj[b].i /\ x # c /\ x # d
<1> USE DEF Replaced
<1>1. /\ Working(b) /\ adj[b].pc # "slot" /\ G \in [GroupIds -> GroupRecords]
      /\ Null \notin GroupIds /\ Linked \subseteq GroupIds
  BY LinkTypes DEF Working, GroupsTyped
<1>2. /\ adj[b].r = root /\ root \in ralloc /\ Share(b) \subseteq Slots /\ Slots \subseteq Nat
      /\ M \in Nat /\ p \in [GroupIds -> 0..M]
  BY <1>1, AtWork
<1>3. /\ adj[b].i \in Share(b) /\ adj[b].i \in Slots /\ c \in Linked /\ z[c] = adj[b].i
      /\ \/ adj[b].loc = <<"slot", adj[b].i>>
         \/ \E l \in Linked : adj[b].loc = <<"next", l>> /\ z[l] = adj[b].i /\ c = Links[l]
  BY <1>1, AtHand
<1>4. PointEffect(adj[b].loc, a, G)
  <2>1. \/ \E k \in Slots : adj[b].loc = <<"slot", k>>
        \/ \E x \in GroupIds : adj[b].loc = <<"next", x>>
    BY <1>1, <1>3
  <2> QED
    BY <1>1, <1>2, <2>1, PointFacts
<1>5. LinksAfter(adj[b].loc, a, G)
  BY <1>1, <1>4, PointLinks
<1>6. \A x : adj[b].loc = <<"next", x>> => x \in Linked /\ z[x] = adj[b].i /\ x # c /\ x # d
  <2> SUFFICES ASSUME NEW x, adj[b].loc = <<"next", x>>
               PROVE  x \in Linked /\ z[x] = adj[b].i /\ x # c /\ x # d
    OBVIOUS
  <2>1. x \in Linked /\ z[x] = adj[b].i /\ c = Links[x]
    BY <1>3
  <2>2. p[x] \in Int /\ p[c] \in Int /\ p[d] \in Int
    BY <1>1, <1>2, <1>3, <2>1
  <2>3. p[x] < p[c]
    BY <1>1, <1>3, <2>1 DEF Hang, Chains
  <2>4. Links[c] = d => p[c] < p[d]
    BY <1>1, <1>3 DEF Hang, Chains
  <2> QED
    BY <2>1, <2>2, <2>3, <2>4
<1>7. \A j \in Slots \ {adj[b].i} : roots'[root].slots[j + 1] = roots[root].slots[j + 1]
  BY <1>3, <1>4 DEF PointEffect
<1>8. RootKept
  <2>1. roots[root].slots[1] # Null /\ Len(roots[root].slots) \in Nat \ {0}
    BY <1>2, SlotTypes
  <2>2. 0 \in Slots
    BY <2>1 DEF Slots
  <2>3. roots'[root].slots[0 + 1] # Null
    <3>1. CASE adj[b].loc = <<"slot", 0>>
      <4>1. roots'[root].slots[0 + 1] = a
        BY <1>4, <3>1 DEF PointEffect
      <4> QED
        BY <1>1, <4>1
    <3>2. CASE adj[b].loc # <<"slot", 0>>
      <4>1. roots'[root].slots[0 + 1] = roots[root].slots[0 + 1]
        BY <1>4, <2>2, <3>2 DEF PointEffect
      <4> QED
        BY <2>1, <4>1
    <3> QED
      BY <3>1, <3>2
  <2> QED
    BY <1>4, <2>3 DEF PointEffect, RootKept
<1> QED
  BY <1>1, <1>3, <1>4, <1>5, <1>6, <1>7, <1>8

\* What becomes of the store and the linked groups.
LEMMA ReplacedStore ==
  ASSUME RootInv, Store, NEW M, NEW z, NEW p, Hang(M, z, p), NEW b \in Bg, Own(b),
         NEW a, NEW e, NEW c, NEW d, NEW G, Replaced(b, z, a, e, c, d, G)
  PROVE  Store' /\ Linked' = (Linked \ {c, d}) \cup {a, e}
<1>0. Linked \subseteq galloc
  BY LinkTypes
<1>1. /\ PointEffect(adj[b].loc, a, G) /\ LinksAfter(adj[b].loc, a, G)
      /\ G \in [GroupIds -> GroupRecords] /\ RootKept
      /\ \A x : adj[b].loc = <<"next", x>> => x \in Linked
  BY PointAt
<1> USE DEF Replaced
<1>2. GroupsTyped(group', galloc')
  <2>1. \A x \in GroupIds \ galloc' : group'[x] = G[x]
    BY <1>0, <1>1 DEF LinksAfter
  <2>2. \A x \in GroupIds : /\ group'[x].pivot = G[x].pivot /\ group'[x].span = G[x].span
                            /\ group'[x].held = G[x].held
    <3> SUFFICES ASSUME NEW x \in GroupIds
                 PROVE  /\ group'[x].pivot = G[x].pivot /\ group'[x].span = G[x].span
                        /\ group'[x].held = G[x].held
      OBVIOUS
    <3>1. group'[x] = [G[x] EXCEPT !.next = Links'[x]] /\ G[x] \in GroupRecords
      BY <1>1 DEF LinksAfter
    <3> QED
      BY <3>1 DEF GroupRecords
  <2> QED
    BY <1>1, <2>1, <2>2 DEF GroupsTyped, PointEffect
<1>3. Store'
  <2>1. Working(b) /\ update' \subseteq Bg
    BY DEF Working, Store
  <2> QED
    BY <1>1, <1>2, <2>1, AdjusterStore
<1>4. \A x \in Linked' : x \in (Linked \ {c, d}) \cup {a, e}
  <2> SUFFICES ASSUME NEW x \in Linked' PROVE x \in (Linked \ {c, d}) \cup {a, e}
    OBVIOUS
  <2>1. x \in galloc' /\ x \notin Unlinked(b)' /\ (x \in Linked \/ x \notin galloc \/ x \in Unlinked(b))
    BY LinkedAfter
  <2> QED
    BY <2>1
<1>5. \A x \in (Linked \ {c, d}) \cup {a, e} : x \in Linked'
  <2> SUFFICES ASSUME NEW x \in (Linked \ {c, d}) \cup {a, e} PROVE x \in Linked'
    OBVIOUS
  <2>1. x \in Linked => x \in galloc /\ x \notin Unlinked(b)
    BY LinkedAfter
  <2>2. x \in galloc' /\ x \notin Unlinked(b)' /\ (x \in Linked \/ x \notin galloc \/ x \in Unlinked(b))
    BY <2>1
  <2> QED
    BY <2>2, LinkedAfter
<1> QED
  BY <1>3, <1>4, <1>5

\* Which slots the groups hang off afterwards.
Moves(b, z, a, e, z2) ==
  /\ z2 \in [GroupIds -> Nat] /\ z2[a] = adj[b].i /\ z2[e] = adj[b].i
  /\ \A x \in GroupIds \ {a, e} :
       /\ z[x] \notin Share(b) \/ z[x] = adj[b].i => z2[x] = z[x]
       /\ z[x] \in Share(b) => z2[x] \in Share(b)

\* The place of an adjuster that replaces groups, and the groups that it owns.
LEMMA ReplacedJob ==
  ASSUME RootInv, Store, NEW M, NEW z, NEW p, Hang(M, z, p), NEW b \in Bg, Own(b),
         NEW a, NEW e, NEW c, NEW d, NEW G, Replaced(b, z, a, e, c, d, G),
         NEW z2, Moves(b, z, a, e, z2)
  PROVE  Elsewhere(b, z, z2) /\ Place(b, z2)' /\ Owned(b, z2)'
<1> PICK i : i = adj[b].i
  OBVIOUS
<1>1. /\ LinksAfter(adj[b].loc, a, G) /\ RootKept
      /\ \A j \in Slots \ Share(b) : roots'[root].slots[j + 1] = roots[root].slots[j + 1]
      /\ c \in Linked /\ z[c] = i /\ i \in Share(b)
      /\ \A x : adj[b].loc = <<"next", x>> => x \in Linked /\ z[x] = i /\ x # c /\ x # d
  BY PointAt
<1>2. Linked' = (Linked \ {c, d}) \cup {a, e}
  BY ReplacedStore
<1> USE DEF Replaced
<1>3. /\ Linked \subseteq galloc /\ galloc \subseteq GroupIds /\ Null \notin GroupIds
      /\ root' = root /\ Len(roots'[root].slots) = Len(roots[root].slots)
  BY <1>1, LinkTypes DEF Own, RootKept
<1>4. Share(b)' = Share(b)
  BY <1>3 DEF Share, RangeBegin, RangeEnd
<1>5. Owned(b, z) /\ Working(b)
  BY AtWork DEF Working
<1>6. /\ z2[a] = i /\ z2[e] = i
      /\ \A x \in GroupIds \ {a, e} : /\ z[x] \notin Share(b) \/ z[x] = i => z2[x] = z[x]
                                      /\ z[x] \in Share(b) => z2[x] \in Share(b)
  BY DEF Moves
<1>7. \A x \in galloc : z[x] \notin Share(b) => x \notin {a, e, c, d}
  BY <1>1, <1>5 DEF Owned
<1>8. \A x \in galloc : adj[b].loc # <<"next", x>> => group'[x].next = group[x].next
  <2> SUFFICES ASSUME NEW x \in galloc, adj[b].loc # <<"next", x>>
               PROVE  group'[x].next = group[x].next
    OBVIOUS
  <2>1. x \in GroupIds /\ group'[x] = G[x]
    BY <1>1, <1>3 DEF LinksAfter
  <2>2. Links[x] = group[x].next
    BY <2>1 DEF Links
  <2> QED
    BY <2>1, <2>2
<1>9. Elsewhere(b, z, z2)
  <2>1. \A x \in galloc : z[x] \notin Share(b) =>
          /\ x \in galloc' /\ (x \in Linked => x \in Linked')
          /\ group'[x].next = group[x].next /\ z2[x] = z[x]
    <3> SUFFICES ASSUME NEW x \in galloc, z[x] \notin Share(b)
                 PROVE  /\ x \in galloc' /\ (x \in Linked => x \in Linked')
                        /\ group'[x].next = group[x].next /\ z2[x] = z[x]
      OBVIOUS
    <3>1. x \notin {a, e, c, d} /\ adj[b].loc # <<"next", x>> /\ x \in GroupIds
      BY <1>1, <1>3, <1>7
    <3> QED
      BY <1>2, <1>6, <1>8, <3>1
  <2>2. galloc' \ galloc \subseteq PoolOf(b)
    OBVIOUS
  <2> QED
    BY <1>1, <1>3, <2>1, <2>2 DEF Elsewhere, Own
<1>10. Place(b, z2)'
  <2>1. \A x \in Linked : adj[b].loc = <<"next", x>> => x \in Linked' /\ z2[x] = z[x]
    BY <1>1, <1>2, <1>3, <1>6
  <2>2. adj[b].pc # "slot"
    OBVIOUS
  <2> QED
    BY <1>3, <1>5, <2>1, <2>2, PlaceAfter
<1>11. Owned(b, z2)'
  <2> SUFFICES ASSUME NEW x \in Unlinked(b)'
               PROVE  /\ x \in galloc' /\ z2[x] \in Share(b)
                      /\ \/ Links'[x] = Null
                         \/ Links'[x] \in Unlinked(b)'
                         \/ Links'[x] \in Linked' /\ z2[Links'[x]] \in Share(b)
    BY <1>4 DEF Owned
  <2>1. \/ x \in Unlinked(b)
        \/ x \in Linked /\ z[x] \in Share(b)
    BY <1>1
  <2>2. /\ x \in galloc /\ x \in GroupIds /\ z[x] \in Share(b)
        /\ \/ Links[x] = Null
           \/ Links[x] \in Unlinked(b)
           \/ Links[x] \in Linked /\ z[Links[x]] \in Share(b)
    BY <1>3, <1>5, <2>1, NextLinked DEF Owned
  <2>3. \A y \in galloc : z[y] \in Share(b) => z2[y] \in Share(b)
    BY <1>1, <1>3, <1>6
  <2>4. adj[b].loc # <<"next", x>>
    <3>1. \A y \in Linked : y \notin Unlinked(b)
      BY LinkedAfter
    <3> QED
      BY <1>1, <3>1
  <2>5. Links'[x] = Links[x]
    BY <1>8, <2>2, <2>4 DEF Links
  <2>6. CASE Links[x] \in Unlinked(b)
    <3>1. Links[x] \in galloc /\ z[Links[x]] \in Share(b)
      BY <1>5, <2>6 DEF Owned
    <3>2. z2[Links[x]] \in Share(b)
      BY <2>3, <3>1
    <3>3. Links[x] \in Unlinked(b)' \/ Links[x] \in Linked'
      BY <1>2, <2>6
    <3> QED
      BY <2>2, <2>3, <2>5, <3>2, <3>3
  <2>7. CASE Links[x] \in Linked /\ z[Links[x]] \in Share(b)
    <3>1. z2[Links[x]] \in Share(b)
      BY <1>3, <2>3, <2>7
    <3>2. Links[x] \in Unlinked(b)' \/ Links[x] \in Linked'
      BY <1>2, <2>7
    <3> QED
      BY <2>2, <2>3, <2>5, <3>1, <3>2
  <2> QED
    BY <2>2, <2>3, <2>5, <2>6, <2>7
<1> QED
  BY <1>9, <1>10, <1>11

\* Where adjuster b is afterwards.
LEMMA ReplacedHere ==
  ASSUME RootInv, Store, NEW M, NEW z, NEW p, Hang(M, z, p), NEW b \in Bg, Own(b),
         NEW a, NEW e, NEW c, NEW d, NEW G, Replaced(b, z, a, e, c, d, G),
         adj'[b].r = adj[b].r
  PROVE  Here(b)' = a
<1>1. PointEffect(adj[b].loc, a, G) /\ G \in [GroupIds -> GroupRecords]
  BY PointAt
<1>2. adj[b].r = root /\ adj'[b].loc = adj[b].loc
  BY AtWork DEF Working, Replaced
<1>3. ASSUME NEW k \in Slots, adj[b].loc = <<"slot", k>>, roots'[root].slots[k + 1] = a
      PROVE  Here(b)' = a
  BY <1>2, <1>3 DEF Here, Deref
<1>4. ASSUME NEW l \in GroupIds, adj[b].loc = <<"next", l>>, group' = [G EXCEPT ![l].next = a]
      PROVE  Here(b)' = a
  <2>1. group'[l].next = a
    BY <1>1, <1>4 DEF GroupRecords
  <2> QED
    BY <1>2, <1>4, <2>1 DEF Here, Deref
<1> QED
  BY <1>1, <1>3, <1>4 DEF PointEffect

\* A replacement within a chain.
LEMMA ReplaceStep ==
  ASSUME RootInv, Store, NEW M, NEW z, NEW p, Hang(M, z, p), NEW b \in Bg, Own(b),
         NEW a, NEW e, NEW c, NEW d, NEW G, Replaced(b, z, a, e, c, d, G),
         c = d \/ Links[c] = d, a = e \/ G[a].next = e, G[e].next = Links[d],
         \A j \in Slots : ~Masks(b, j)', Task(b)', Ready(b)',
         \A z2 : z2[a] = adj[b].i /\ z2[e] = adj[b].i => Done(b, z2)'
  PROVE  Store' /\ Hangs'
<1>0. PointEffect(adj[b].loc, a, G) /\ G \in [GroupIds -> GroupRecords]
  BY PointAt
<1>1. M \in Nat /\ z \in [GroupIds -> Nat] /\ Linked \subseteq galloc
  BY LinkTypes DEF Hang
<1>2. Store' /\ Linked' = (Linked \ {c, d}) \cup {a, e}
  BY ReplacedStore
<1>3. Rehung(GroupIds, 2 * M + 1, Heads', Links', Linked', z, {a, e}, adj[b].i)
  <2>1. \A j \in Slots : Masked(j)' <=> Masked(j)
    <3> SUFFICES ASSUME NEW j \in Slots PROVE Masked(j)' <=> Masked(j)
      OBVIOUS
    <3>1. ~Masks(b, j)
      BY DEF Masks, Replaced
    <3> QED
      BY <3>1, MaskedAfter
  <2>2. \A x \in Linked \ {c, d} : G[x].next = Links[x]
    BY <1>1 DEF Replaced
  <2>3. /\ adj[b].pc \in {"group", "publish"} /\ c \in GroupIds /\ c = Here(b) /\ d \in Linked
        /\ a \in GroupIds \ Linked /\ e \in GroupIds \ Linked /\ root' = root
    BY DEF Replaced, Own
  <2> QED
    BY <1>0, <1>2, <2>1, <2>2, <2>3, Spliced, ZenonT(30)
<1>4. PICK z2 \in [GroupIds -> Nat], p2 \in [GroupIds -> 0..2 * M + 1] :
        /\ Chains(Heads', Links', Linked', z2, p2)
        /\ \A x \in {a, e} : z2[x] = adj[b].i
        /\ \A x \in GroupIds \ {a, e} : z2[x] = z[x]
  BY <1>3 DEF Rehung
<1>5. Moves(b, z, a, e, z2)
  BY <1>4 DEF Moves
<1>6. Elsewhere(b, z, z2) /\ Place(b, z2)' /\ Owned(b, z2)'
  BY <1>5, ReplacedJob
<1>7. Job(b, z2)'
  BY <1>4, <1>6 DEF Job
<1>8. 2 * M + 1 \in Nat
  BY <1>1
<1>9. Hang(2 * M + 1, z2, p2)'
  BY <1>2, <1>4, <1>6, <1>7, <1>8, Stepped DEF Own
<1> QED
  BY <1>2, <1>9 DEF Hangs

\* A group with other models takes the place of a group.
LEMMA BeginModelKeeps ==
  ASSUME RootInv, Store, NEW M, NEW z, NEW p, Hang(M, z, p), NEW b \in Bg, BeginModel(b)
  PROVE  Store' /\ Hangs'
<1>1. Own(b)
  BY AdjusterOwn DEF AdjStep
<1> PICK g : g = Here(b)
  OBVIOUS
<1> PICK n : n = Fresh(b, 1)
  OBVIOUS
<1> PICK s : s = [group[g] EXCEPT !.frozen = FALSE]
  OBVIOUS
<1> PICK G : G = [group EXCEPT ![n] = s]
  OBVIOUS
<1>2. /\ adj[b].pc = "group" /\ g # Null /\ Room(b, 1) /\ update' = update
      /\ Point(b, adj[b].loc, n, G) /\ galloc' = galloc \cup {n}
      /\ adj'[b] = [adj[b] EXCEPT !.pc = "discard", !.old = <<g>>, !.tried = TRUE]
  BY DEF BeginModel, AtGroup, Unsignalled, RootInv, Shapes
<1>3. /\ g \in Linked /\ g \in galloc /\ g \in GroupIds /\ z[g] \in Share(b)
      /\ Working(b) /\ adj[b].mid = <<>> /\ galloc \subseteq GroupIds /\ Linked \subseteq galloc
  BY <1>2, AtHand, LinkTypes DEF Working, Store
<1>4. n \in PoolOf(b) \ galloc /\ n \in GroupIds
  BY <1>2, RoomFacts, FreshFacts, Pools, RootAssumption DEF Bg
<1>5. group \in [GroupIds -> GroupRecords] /\ GroupsTyped(group, galloc)
      /\ group[g].pivot \in Keys /\ group[g].span \subseteq group[g].held
      /\ Links[g] = group[g].next
  BY <1>3, LinkTypes DEF Store, GroupsTyped
<1>6. /\ s \in GroupRecords /\ s.next = group[g].next /\ s.pivot \in Keys
      /\ s.span \subseteq s.held
  BY <1>3, <1>5 DEF GroupRecords
<1>7. GroupsTyped(G, galloc') /\ G[n] = s /\ \A x \in galloc : G[x].next = Links[x]
  <2>1. GroupsTyped(G, galloc')
    BY <1>2, <1>4, <1>5, <1>6, GroupWritten
  <2> QED
    BY <1>3, <1>4, <1>5, <2>1 DEF Links
<1>8. /\ adj'[b].pc = "discard" /\ adj'[b].old = <<g>> /\ adj'[b].mid = <<>>
      /\ adj'[b].i = adj[b].i /\ adj'[b].end = adj[b].end /\ adj'[b].loc = adj[b].loc
  BY <1>2, <1>3 DEF RootInv, Shapes, AdjusterFields
<1>9. Unlinked(b) = {} /\ Unlinked(b)' = {g} /\ Locals(b)' /\ Working(b)'
  BY <1>2, <1>8 DEF Unlinked, Locals, AdjusterPlaces, Working
<1>10. Replaced(b, z, n, n, g, g, G)
  <2>1. n \notin Linked /\ n # g
    BY <1>3, <1>4
  <2> QED
    BY <1>2, <1>3, <1>4, <1>7, <1>8, <1>9, <2>1 DEF Replaced
<1>11. G[n].next = Links[g]
  BY <1>5, <1>6, <1>7
<1>12. /\ \A j \in Slots : ~Masks(b, j)'
       /\ Task(b)' /\ Ready(b)' /\ \A z2 : Done(b, z2)'
  BY <1>8 DEF Masks, Task, Ready, Done
<1> QED
  BY <1>1, <1>10, <1>11, <1>12, ReplaceStep

\* The median of an array is one of its keys.
LEMMA MedianFacts ==
  ASSUME Store, NEW g \in GroupIds, Cardinality(group[g].array) > 1
  PROVE  Median(g) \in Keys
<1> PICK S : S = group[g].array
  OBVIOUS
<1>1. S \in SUBSET Keys
  BY DEF Store, GroupsTyped, GroupRecords
<1>2. S \in SUBSET Nat /\ IsFiniteSet(S) /\ Cardinality(S) \in Nat
  BY <1>1, RootAssumption, FS_Subset, FS_CardinalityType
<1>3. Len(Sorted(S)) = Cardinality(S)
  BY <1>2, SortedFacts
<1> PICK c : c = Cardinality(S)
  OBVIOUS
<1>4. c \div 2 + 1 \in 1..c
  BY <1>2
<1>5. Sorted(S)[c \div 2 + 1] \in S
  BY <1>2, <1>4, SortedRank
<1> QED
  BY <1>1, <1>3, <1>5 DEF Median

\* The action BeginSplit: a chain of two takes the place of the group.
LEMMA BeginSplitKeeps ==
  ASSUME RootInv, Store, NEW M, NEW z, NEW p, Hang(M, z, p), NEW b \in Bg, BeginSplit(b)
  PROVE  Store' /\ Hangs'
<1>1. Own(b)
  BY AdjusterOwn DEF AdjStep
<1>0g. PICK g : g = Here(b)
  OBVIOUS
<1>0v. PICK v : v = Median(g)
  OBVIOUS
<1>0m. PICK m : m = Fresh(b, 1)
  OBVIOUS
<1>0k. PICK k : k = Fresh(b, 2)
  OBVIOUS
<1>0h. PICK h : h = group[g]
  OBVIOUS
<1>0r. PICK r : r = [[h EXCEPT !.frozen = TRUE, !.temp = TRUE] EXCEPT
                    !.next = k, !.span = {x \in @ : x < v}]
  OBVIOUS
<1>0s. PICK s : s = [[h EXCEPT !.frozen = TRUE, !.temp = TRUE] EXCEPT
                    !.pivot = v, !.span = {x \in @ : x >= v}]
  OBVIOUS
<1>0G. PICK G : G = [[group EXCEPT ![m] = r] EXCEPT ![k] = s]
  OBVIOUS
<1>2. /\ adj[b].pc = "group" /\ g # Null /\ Room(b, 4) /\ update' = update
      /\ Cardinality(group[g].array) > 1
      /\ Point(b, adj[b].loc, m, G) /\ galloc' = galloc \cup {m, k}
      /\ adj'[b] = [adj[b] EXCEPT !.pc = "drain", !.kind = "split", !.old = <<g>>,
                                  !.mid = <<m, k>>]
  BY <1>0g, <1>0v, <1>0m, <1>0k, <1>0h, <1>0r, <1>0s, <1>0G
     DEF BeginSplit, AtGroup, Unsignalled, RootInv, Shapes
<1>3. /\ g \in Linked /\ g \in galloc /\ g \in GroupIds /\ z[g] \in Share(b)
      /\ Working(b) /\ galloc \subseteq GroupIds /\ Linked \subseteq galloc
  BY <1>0g, <1>2, AtHand, LinkTypes DEF Working
<1>4. /\ m \in PoolOf(b) \ galloc /\ k \in PoolOf(b) \ galloc /\ m # k
      /\ m \in GroupIds /\ k \in GroupIds
  BY <1>0m, <1>0k, <1>2, RoomFacts, FreshFacts, Pools, RootAssumption DEF Bg
<1>5. group \in [GroupIds -> GroupRecords] /\ GroupsTyped(group, galloc)
      /\ h \in GroupRecords /\ h.pivot \in Keys /\ h.span \subseteq h.held
      /\ Links[g] = h.next
  BY <1>0h, <1>3, LinkTypes DEF Store, GroupsTyped
<1>6. v \in Keys /\ v \in Nat
  BY <1>0v, <1>2, <1>3, MedianFacts, RootAssumption
<1>7. /\ r \in GroupRecords /\ r.next = k /\ r.pivot \in Keys /\ r.span \subseteq r.held
  BY <1>0r, <1>4, <1>5 DEF GroupRecords
<1>8. /\ s \in GroupRecords /\ s.next = Links[g] /\ s.pivot \in Keys /\ s.span \subseteq s.held
  BY <1>0s, <1>5, <1>6 DEF GroupRecords
<1>9. GroupsTyped(G, galloc')
  <2>1. GroupsTyped([group EXCEPT ![m] = r], galloc \cup {m})
    BY <1>4, <1>5, <1>7, GroupWritten
  <2>2. GroupsTyped(G, (galloc \cup {m}) \cup {k})
    BY <1>0G, <1>4, <1>8, <2>1, GroupWritten
  <2>3. galloc' = (galloc \cup {m}) \cup {k}
    BY <1>2
  <2> QED
    BY <2>2, <2>3
<1>10. G[m] = r /\ G[k] = s /\ \A x \in galloc : G[x].next = Links[x]
  <2>1. G[m] = r /\ G[k] = s /\ \A x \in galloc : G[x] = group[x]
    BY <1>0G, <1>3, <1>4, <1>5
  <2> QED
    BY <1>3, <2>1 DEF Links
<1>11. /\ adj'[b].pc = "drain" /\ adj'[b].kind = "split" /\ adj'[b].old = <<g>>
       /\ adj'[b].mid = <<m, k>> /\ adj'[b].r = adj[b].r
       /\ adj'[b].i = adj[b].i /\ adj'[b].end = adj[b].end /\ adj'[b].loc = adj[b].loc
  BY <1>2 DEF RootInv, Shapes, AdjusterFields
<1>12. Unlinked(b) = {} /\ Unlinked(b)' = {g} /\ Locals(b)' /\ Working(b)'
  BY <1>2, <1>11 DEF Unlinked, Locals, AdjusterPlaces, Working
<1>13. Replaced(b, z, m, k, g, g, G)
  <2>1. /\ m \notin Linked /\ k \notin Linked /\ m # g /\ k # g
        /\ {m, k} \ galloc \subseteq PoolOf(b) /\ {m, k} \cap galloc = {}
    BY <1>3, <1>4
  <2> QED
    BY <1>0g, <1>2, <1>3, <1>4, <1>9, <1>10, <1>11, <1>12, <2>1 DEF Replaced
<1>14. G[m].next = k /\ G[k].next = Links[g]
  BY <1>7, <1>8, <1>10
<1>15. /\ \A j \in Slots : ~Masks(b, j)'
       /\ \A z2 : Done(b, z2)'
  BY <1>11 DEF Masks, Done
<1>16. Task(b)'
  <2>1. Here(b)' = m
    BY <1>1, <1>11, <1>13, ReplacedHere
  <2>2. LinksAfter(adj[b].loc, m, G)
    BY <1>1, <1>13, PointAt
  <2>3. adj[b].loc # <<"next", m>>
    BY <1>1, <1>3, <1>4, <1>13, PointAt
  <2>4. Links'[m] = k
    BY <1>4, <1>14, <2>2, <2>3 DEF LinksAfter
  <2>5. Splitting(b, g, m, k)'
    BY <1>11 DEF Splitting
  <2> QED
    BY <1>3, <1>4, <2>1, <2>4, <2>5 DEF Task
<1>17. Ready(b)'
  <2>1. \E x, y \in PoolOf(b) : x # y /\ {x, y} \cap galloc' = {}
    BY <1>2, RoomFacts
  <2>2. \E x \in PoolOf(b) : x \notin galloc'
    BY <2>1
  <2> QED
    BY <1>11, <2>1, <2>2 DEF Ready
<1> QED
  BY <1>1, <1>13, <1>14, <1>15, <1>16, <1>17, ReplaceStep

\* *group = new_group, and what the adjuster goes on with.
Published(b, l) ==
  /\ adj[b].pc = "publish" /\ galloc' = galloc /\ update' = update
  /\ Point(b, adj[b].loc, adj[b].new[1], group)
  /\ adj'[b] = [adj[b] EXCEPT !.pc = l]

\* The locals of an adjuster after Publish.
LEMMA PublishedFacts ==
  ASSUME RootInv, Store, NEW M, NEW z, NEW p, Hang(M, z, p), NEW b \in Bg,
         NEW l \in {"second", "quiesce"}, Published(b, l)
  PROVE  /\ adj'[b].pc = l /\ adj'[b].kind = adj[b].kind /\ adj'[b].old = adj[b].old
         /\ adj'[b].mid = adj[b].mid /\ adj'[b].new = adj[b].new /\ adj'[b].i = adj[b].i
         /\ adj'[b].nloc = adj[b].nloc /\ adj'[b].end = adj[b].end
         /\ adj'[b].loc = adj[b].loc /\ adj'[b].r = adj[b].r
         /\ adj[b].pc = "publish" /\ Working(b) /\ Working(b)' /\ Locals(b)'
         /\ Task(b)' /\ Ready(b)' /\ Task(b) /\ Ready(b)
<1>1. /\ adj'[b].pc = l /\ adj'[b].kind = adj[b].kind /\ adj'[b].old = adj[b].old
      /\ adj'[b].mid = adj[b].mid /\ adj'[b].new = adj[b].new /\ adj'[b].i = adj[b].i
      /\ adj'[b].nloc = adj[b].nloc /\ adj'[b].end = adj[b].end
      /\ adj'[b].loc = adj[b].loc /\ adj'[b].r = adj[b].r
      /\ adj[b].pc = "publish" /\ Working(b) /\ Working(b)'
  BY DEF Published, RootInv, Shapes, AdjusterFields, Working
<1>2. Locals(b)' /\ Task(b)' /\ Ready(b)'
  BY <1>1 DEF Locals, AdjusterPlaces, Task, Ready
<1> QED
  BY <1>1, <1>2, AtWork

\* The action Publish in a compaction.
LEMMA PublishCompactKeeps ==
  ASSUME RootInv, Store, NEW M, NEW z, NEW p, Hang(M, z, p), NEW b \in Bg, Own(b),
         Published(b, "quiesce"), NEW o \in GroupIds, Compacting(b, o), Here(b) = o
  PROVE  Store' /\ Hangs'
<1>1. /\ adj'[b].pc = "quiesce" /\ adj'[b].kind = adj[b].kind /\ adj'[b].old = adj[b].old
      /\ adj'[b].mid = adj[b].mid /\ adj'[b].new = adj[b].new /\ adj'[b].i = adj[b].i
      /\ adj'[b].end = adj[b].end /\ adj'[b].loc = adj[b].loc /\ adj[b].pc = "publish"
      /\ Working(b) /\ Working(b)' /\ Locals(b)' /\ Task(b)' /\ Ready(b)' /\ Ready(b)
  BY PublishedFacts
<1>2. PICK n \in GroupIds : adj[b].new = <<n>> /\ Links[n] = Links[o]
  BY <1>1 DEF Ready, Compacting
<1>3. /\ galloc' = galloc /\ update' = update /\ Point(b, adj[b].loc, n, group)
  BY <1>2 DEF Published
<1>4. Unlinked(b) = {n} /\ Unlinked(b)' = {o}
  BY <1>1, <1>2 DEF Unlinked, Compacting, Range
<1>5. /\ o \in Linked /\ z[o] \in Share(b) /\ Linked \subseteq GroupIds
      /\ GroupsTyped(group, galloc) /\ group \in [GroupIds -> GroupRecords]
      /\ \A x \in GroupIds : group[x].next = Links[x]
      /\ galloc \subseteq GroupIds /\ Null \notin GroupIds
  BY <1>1, AtHand, LinkTypes DEF Store, GroupsTyped
<1>6. n \notin Linked /\ n \in galloc /\ n # o
  BY <1>4, <1>5, OwnedApart
<1>7. Replaced(b, z, n, n, o, o, group)
  BY <1>1, <1>3, <1>4, <1>5, <1>6 DEF Replaced
<1>8. group[n].next = Links[o]
  BY <1>2, <1>5
<1>9. \A j \in Slots : ~Masks(b, j)'
  BY <1>1 DEF Masks, Compacting
<1>10. ASSUME NEW z2, z2[n] = adj[b].i PROVE Done(b, z2)'
  <2>1. Linked' = (Linked \ {o, o}) \cup {n, n}
    BY <1>7, ReplacedStore
  <2>2. n \in Linked' /\ Compacting(b, o)' /\ adj'[b].new = <<n>> /\ adj'[b].kind = "compact"
    BY <1>1, <1>2, <2>1 DEF Compacting
  <2> QED
    BY <1>1, <1>10, <2>2 DEF Done
<1> QED
  BY <1>1, <1>7, <1>8, <1>9, <1>10, ReplaceStep

\* The action Publish in a split.
LEMMA PublishSplitKeeps ==
  ASSUME RootInv, Store, NEW M, NEW z, NEW p, Hang(M, z, p), NEW b \in Bg, Own(b),
         Published(b, "quiesce"), NEW o \in GroupIds, NEW m \in GroupIds, NEW q \in GroupIds,
         Splitting(b, o, m, q), Here(b) = m, Links[m] = q
  PROVE  Store' /\ Hangs'
<1>1. /\ adj'[b].pc = "quiesce" /\ adj'[b].kind = adj[b].kind /\ adj'[b].old = adj[b].old
      /\ adj'[b].mid = adj[b].mid /\ adj'[b].new = adj[b].new /\ adj'[b].i = adj[b].i
      /\ adj'[b].end = adj[b].end /\ adj'[b].loc = adj[b].loc /\ adj[b].pc = "publish"
      /\ Working(b) /\ Working(b)' /\ Locals(b)' /\ Task(b)' /\ Ready(b)' /\ Ready(b)
  BY PublishedFacts
<1>2. PICK n, k \in GroupIds :
        adj[b].new = <<n, k>> /\ n # k /\ Links[n] = k /\ Links[k] = Links[q]
  BY <1>1 DEF Ready, Splitting
<1>3. /\ galloc' = galloc /\ update' = update /\ Point(b, adj[b].loc, n, group)
  BY <1>2 DEF Published
<1>4. Unlinked(b) = {o, n, k} /\ Unlinked(b)' = {o, m, q}
  <2>1. Unlinked(b) = {o, n, k}
    BY <1>1, <1>2 DEF Unlinked, Splitting
  <2>2. Unlinked(b)' = Range(<<o>>) \cup Range(<<m, q>>)
    BY <1>1, <1>2 DEF Unlinked, Splitting
  <2> QED
    BY <2>1, <2>2 DEF Range
<1>5. /\ m \in Linked /\ z[m] \in Share(b) /\ Linked \subseteq GroupIds
      /\ GroupsTyped(group, galloc) /\ group \in [GroupIds -> GroupRecords]
      /\ \A x \in GroupIds : group[x].next = Links[x]
      /\ galloc \subseteq GroupIds /\ Null \notin GroupIds
  BY <1>1, AtHand, LinkTypes DEF Store, GroupsTyped
<1>6. q \in Linked /\ z[q] \in Share(b)
  BY <1>5, NextLinked
<1>7. /\ n \notin Linked /\ n \in galloc /\ k \notin Linked /\ k \in galloc
      /\ o \notin Linked
  BY <1>4, OwnedApart
<1>8. n # o /\ k # o
  BY <1>1, <1>2 DEF Ready, Splitting
<1>9. Replaced(b, z, n, k, m, q, group)
  BY <1>1, <1>3, <1>4, <1>5, <1>6, <1>7, <1>8 DEF Replaced
<1>10. group[n].next = k /\ group[k].next = Links[q]
  BY <1>2, <1>5
<1>11. \A j \in Slots : ~Masks(b, j)'
  BY <1>1 DEF Masks, Splitting
<1>12. ASSUME NEW z2, z2[n] = adj[b].i, z2[k] = adj[b].i PROVE Done(b, z2)'
  <2>1. Linked' = (Linked \ {m, q}) \cup {n, k}
    BY <1>9, ReplacedStore
  <2>2. /\ n \in Linked' /\ k \in Linked' /\ Splitting(b, o, m, q)' /\ adj'[b].new = <<n, k>>
        /\ adj'[b].kind = "split"
    BY <1>1, <1>2, <2>1 DEF Splitting
  <2> QED
    BY <1>1, <1>12, <2>2 DEF Done
<1> QED
  BY <1>1, <1>9, <1>10, <1>11, <1>12, ReplaceStep

\* The action Publish in a merge: the new group takes the place of the first group, and
\* what hung off the second hangs off the new group.
LEMMA PublishMergeKeeps ==
  ASSUME RootInv, Store, NEW M, NEW z, NEW p, Hang(M, z, p), NEW b \in Bg, Own(b),
         Published(b, "second"), NEW o \in GroupIds, NEW q \in GroupIds,
         Merging(b, o, q), Here(b) = o,
         \/ ByNext(b, o) /\ Links[o] = q
         \/ BySlot(b) /\ Links[o] = Null /\ SecondSlot(b) = q
  PROVE  Store' /\ Hangs'
<1>1. /\ adj'[b].pc = "second" /\ adj'[b].kind = adj[b].kind /\ adj'[b].old = adj[b].old
      /\ adj'[b].mid = adj[b].mid /\ adj'[b].new = adj[b].new /\ adj'[b].i = adj[b].i
      /\ adj'[b].nloc = adj[b].nloc
      /\ adj'[b].end = adj[b].end /\ adj'[b].loc = adj[b].loc /\ adj[b].pc = "publish"
      /\ Working(b) /\ Working(b)' /\ Locals(b)' /\ Task(b)' /\ Ready(b)' /\ Ready(b)
  BY PublishedFacts
<1> PICK i : i = adj[b].i
  OBVIOUS
<1>2. PICK n \in GroupIds : adj[b].new = <<n>> /\ Links[n] = Links[q]
  BY <1>1 DEF Ready, Merging
<1>3. /\ galloc' = galloc /\ update' = update /\ Point(b, adj[b].loc, n, group)
  BY <1>2 DEF Published
<1>4. Unlinked(b) = {n} /\ Unlinked(b)' = {o, q}
  BY <1>1, <1>2 DEF Unlinked, Merging, Range
<1>5. /\ o \in Linked /\ z[o] = i /\ i \in Share(b) /\ Linked \subseteq GroupIds
      /\ GroupsTyped(group, galloc) /\ group \in [GroupIds -> GroupRecords]
      /\ \A x \in GroupIds : group[x].next = Links[x]
      /\ galloc \subseteq GroupIds /\ Null \notin GroupIds
  BY <1>1, AtHand, LinkTypes DEF Store, GroupsTyped
<1>6. /\ q \in Linked /\ q \in galloc /\ z[q] \in Share(b)
      /\ BySlot(b) => z[q] = i + 1
  BY <1>1, <1>5, SecondLinked
<1>7. n \notin Linked /\ n \in galloc
  BY <1>4, OwnedApart
<1>8. z \in [GroupIds -> Nat] /\ i \in Nat /\ i + 1 # i
  <2>1. z \in [GroupIds -> Nat] /\ Share(b) \subseteq Slots /\ Slots \subseteq Nat
    BY <1>1, AtWork
  <2> QED
    BY <1>5, <2>1
<1>9. Replaced(b, z, n, n, o, q, group)
  <2>1. o = q \/ Links[o] = q \/ z[q] # adj[b].i
    BY <1>6, <1>8
  <2> QED
    BY <1>1, <1>3, <1>4, <1>5, <1>6, <1>7, <2>1 DEF Replaced
<1>10. Store' /\ Linked' = (Linked \ {o, q}) \cup {n}
  <2>1. Store' /\ Linked' = (Linked \ {o, q}) \cup {n, n}
    BY <1>9, ReplacedStore
  <2> QED
    BY <2>1
<1>11. /\ RootKept /\ PointEffect(adj[b].loc, n, group) /\ root' = root
  BY <1>9, PointAt DEF Own
<1>12. Share(b)' = Share(b)
  BY <1>11 DEF Share, RangeBegin, RangeEnd, RootKept
<1>13. BySlot(b) => SecondSlot(b)' = q
  <2> SUFFICES ASSUME BySlot(b) PROVE SecondSlot(b)' = q
    OBVIOUS
  <2>1. SecondSlot(b) = q
    BY DEF ByNext, BySlot
  <2>2. adj[b].loc # <<"slot", i + 1>>
    <3>1. adj[b].loc = <<"slot", i>> \/ \E l \in Linked : adj[b].loc = <<"next", l>>
      BY <1>1, AtHand
    <3> QED
      BY <1>8, <3>1
  <2>3. i + 1 \in Slots /\ i + 1 + 1 = i + 2
    BY <1>1, <1>8, AtWork DEF BySlot
  <2>4. roots'[root].slots[i + 1 + 1] = roots[root].slots[i + 1 + 1]
    BY <1>11, <2>2, <2>3 DEF PointEffect
  <2> QED
    BY <1>1, <1>11, <2>1, <2>3, <2>4 DEF SecondSlot
<1>14. ASSUME NEW z2, z2[n] = adj[b].i PROVE Done(b, z2)'
  <2>1. /\ n \in Linked' /\ Merging(b, o, q)' /\ adj'[b].new = <<n>> /\ adj'[b].kind = "merge"
    BY <1>1, <1>2, <1>10 DEF Merging
  <2>2. ByNext(b, o)' \/ (BySlot(b)' /\ SecondSlot(b)' = q)
    <3>1. CASE ByNext(b, o)
      BY <1>1, <3>1 DEF ByNext
    <3>2. CASE BySlot(b)
      BY <1>1, <1>12, <1>13, <3>2 DEF BySlot
    <3> QED
      BY <3>1, <3>2
  <2> QED
    BY <1>1, <1>14, <2>1, <2>2 DEF Done
<1>15. CASE ByNext(b, o) /\ Links[o] = q
  <2>1. group[n].next = Links[q]
    BY <1>2, <1>5
  <2>2. \A j \in Slots : ~Masks(b, j)'
    BY <1>1, <1>15 DEF Masks, ByNext
  <2> QED
    BY <1>1, <1>9, <1>14, <1>15, <2>1, <2>2, ReplaceStep
<1>16. CASE BySlot(b) /\ Links[o] = Null /\ SecondSlot(b) = q
  <2>1. \A j \in Slots : Masked(j)' <=> Masked(j) \/ j = i + 1
    <3> SUFFICES ASSUME NEW j \in Slots PROVE Masked(j)' <=> Masked(j) \/ j = i + 1
      OBVIOUS
    <3>1. ~Masks(b, j)
      BY <1>1 DEF Masks
    <3>2. Masks(b, j)' <=> j = i + 1
      BY <1>1, <1>16 DEF Masks, Merging, BySlot
    <3> QED
      BY <3>1, <3>2, MaskedAfter
  <2>2. Appended(n, z, adj[b].i)
    <3>1. \A j \in Slots : Masked(j)' <=> Masked(j) \/ j = adj[b].i + 1
      BY <2>1
    <3>2. n \in GroupIds \ Linked /\ Store' /\ Linked' = (Linked \ {o, q}) \cup {n}
      BY <1>7, <1>10
    <3>3. adj[b].pc = "publish" /\ Links[n] = Links[q] /\ PointEffect(adj[b].loc, n, group)
          /\ root' = root
      BY <1>1, <1>2, <1>11
    <3> QED
      BY <1>16, <3>1, <3>2, <3>3, SplicedSlot
  <2>3. PICK N \in Nat : \E z2 \in [GroupIds -> Nat], p2 \in [GroupIds -> 0..N] :
           /\ Chains(Heads', Links', Linked', z2, p2)
           /\ z2[n] = i
           /\ \A x \in GroupIds \ {n} :
                z2[x] = IF x \in Linked /\ z[x] = i + 1 THEN i ELSE z[x]
    BY <2>2 DEF Appended
  <2>4. PICK z2 \in [GroupIds -> Nat], p2 \in [GroupIds -> 0..N] :
           /\ Chains(Heads', Links', Linked', z2, p2)
           /\ z2[n] = i
           /\ \A x \in GroupIds \ {n} :
                z2[x] = IF x \in Linked /\ z[x] = i + 1 THEN i ELSE z[x]
    BY <2>3
  <2>5. Moves(b, z, n, n, z2)
    <3>1. i + 1 \in Share(b)
      BY <1>16 DEF BySlot
    <3> QED
      BY <1>5, <1>8, <2>4, <3>1 DEF Moves
  <2>6. Elsewhere(b, z, z2) /\ Place(b, z2)' /\ Owned(b, z2)'
    BY <1>9, <2>5, ReplacedJob
  <2>7. Job(b, z2)'
    BY <1>1, <1>14, <2>4, <2>6 DEF Job
  <2>8. Hang(N, z2, p2)'
    BY <1>10, <2>3, <2>4, <2>6, <2>7, Stepped DEF Own
  <2> QED
    BY <1>10, <2>8 DEF Hangs
<1> QED
  BY <1>15, <1>16

\* The action Publish.
LEMMA PublishKeeps ==
  ASSUME RootInv, Store, NEW M, NEW z, NEW p, Hang(M, z, p), NEW b \in Bg, Publish(b)
  PROVE  Store' /\ Hangs'
<1>1. Own(b)
  BY AdjusterOwn DEF AdjStep
<1>2. /\ adj[b].pc = "publish"
      /\ adj[b].kind = "merge" => Published(b, "second")
      /\ adj[b].kind # "merge" => Published(b, "quiesce")
  BY DEF Publish, Unsignalled, Published, RootInv, Shapes
<1>3. Task(b)
  BY <1>2, AtWork DEF Working
<1>4. CASE \E o \in GroupIds : Compacting(b, o) /\ Here(b) = o
  <2>1. adj[b].kind # "merge"
    BY <1>4 DEF Compacting
  <2> QED
    BY <1>1, <1>2, <1>4, <2>1, PublishCompactKeeps
<1>5. CASE \E o, q \in GroupIds :
         /\ Merging(b, o, q) /\ Here(b) = o
         /\ \/ ByNext(b, o) /\ Links[o] = q
            \/ BySlot(b) /\ Links[o] = Null /\ SecondSlot(b) = q
  <2>1. adj[b].kind = "merge"
    BY <1>5 DEF Merging
  <2> QED
    BY <1>1, <1>2, <1>5, <2>1, PublishMergeKeeps
<1>6. CASE \E o, m, k \in GroupIds :
         Splitting(b, o, m, k) /\ Here(b) = m /\ Links[m] = k
  <2>1. adj[b].kind # "merge"
    BY <1>6 DEF Splitting
  <2> QED
    BY <1>1, <1>2, <1>6, <2>1, PublishSplitKeeps
<1> QED
  BY <1>2, <1>3, <1>4, <1>5, <1>6 DEF Task

\* Every step of an adjuster keeps the groups in order.
LEMMA AdjusterKeeps ==
  ASSUME RootInv, Store, Hangs, NEW b \in Bg, AdjStep(b)
  PROVE  Store' /\ Hangs'
<1>1. PICK M, z, p : Hang(M, z, p)
  BY DEF Hangs
<1> QED
  BY <1>1, AdjBeginKeeps, AdjExitKeeps, NextSlotKeeps, EndChainKeeps, SkipKeeps,
     BeginModelKeeps, EndModelKeeps, BeginCompactKeeps, BeginMergeKeeps, BeginSplitKeeps,
     DrainKeeps, PublishKeeps, PublishSecondKeeps, QuiesceKeeps, SettleKeeps DEF AdjStep

\* Groups that are about to be freed are in memory, and no slot leads to them.
LEMMA DoomedFacts ==
  RootInv /\ Store /\ Hangs => \A b \in Bg : Doomed(b) \subseteq galloc
<1> SUFFICES ASSUME RootInv, Store, Hangs, NEW b \in Bg, NEW x \in Doomed(b)
             PROVE  x \in galloc
  OBVIOUS
<1>1. PICK M, z, p : Hang(M, z, p)
  BY DEF Hangs
<1>2. x \in Unlinked(b)
  BY DEF Doomed
<1> QED
  BY <1>1, <1>2, OwnedApart

\* A slot leads to a group that hangs off it, and such a group is not freed.
LEMMA HangsAlive ==
  RootInv /\ Store /\ Hangs /\ ralloc = {root} => SlotsAlive
<1> SUFFICES ASSUME RootInv, Store, Hangs, ralloc = {root},
                    NEW j \in DOMAIN roots[root].slots, roots[root].slots[j] # Null
             PROVE  /\ roots[root].slots[j] \in galloc
                    /\ \A b \in Bg : roots[root].slots[j] \notin Doomed(b)
  BY DEF SlotsAlive
<1>1. PICK M, z, p : Hang(M, z, p)
  BY DEF Hangs
<1>2. /\ Len(roots[root].slots) \in Nat /\ roots[root].slots \in Seq(GroupIds \cup {Null})
  BY SlotTypes
<1>3. j \in 1..Len(roots[root].slots)
  BY <1>2
<1> PICK i : i = j - 1
  OBVIOUS
<1>4. i \in Slots /\ i + 1 = j
  BY <1>2, <1>3 DEF Slots
<1> QED
  BY <1>1, <1>4, RootSlotsAlive

\* The same of the next state.
LEMMA NextDoomedFacts ==
  (RootInv /\ Store /\ Hangs => \A b \in Bg : Doomed(b) \subseteq galloc)'
BY DoomedFacts, PTL

\* The same of the next state.
LEMMA NextHangsAlive ==
  (RootInv /\ Store /\ Hangs /\ ralloc = {root} => SlotsAlive)'
BY HangsAlive, PTL

\* Groups are freed behind a barrier that was entered when they were unlinked.
LEMMA AdjusterBarrier ==
  ASSUME RootInv, NEW b \in Bg, AdjStep(b)
  PROVE  /\ galloc \ galloc' # {} =>
              wait[b] = {} /\ galloc \ galloc' \subseteq Doomed(b)
         /\ \/ Doomed(b)' = {}
            \/ Doomed(b)' = Doomed(b) /\ wait'[b] = wait[b]
            \/ wait'[b] = {w \in Workers : wk[w].pc # "idle"}
         /\ \A c \in Bg \ {b} : wait'[c] = wait[c] /\ Doomed(c)' = Doomed(c)
<1> USE DEF RootInv, Shapes
<1>1. Own(b)
  BY AdjusterOwn
<1>2. \A c \in Bg \ {b} : Doomed(c)' = Doomed(c)
  BY <1>1 DEF Own, Doomed, Unlinked
<1>3. BgNum \in Nat /\ Bg \subseteq 0..BgNum
  BY RootAssumption DEF Bg
<1>4. \A c \in Bg \ {b} : wait'[c] = wait[c]
  BY <1>3 DEF AdjStep, AdjBegin, AdjExit, NextSlot, EndChain, Skip, BeginModel, EndModel,
     BeginCompact, BeginMerge, BeginSplit, Drain, Publish, PublishSecond, Quiesce, Settle,
     Barrier
<1>5. ASSUME AdjBegin(b) \/ AdjExit(b) \/ NextSlot(b) \/ EndChain(b) \/ Skip(b)
             \/ BeginCompact(b) \/ BeginMerge(b) \/ BeginSplit(b) \/ Drain(b)
      PROVE  galloc \subseteq galloc' /\ adj'[b].pc \notin {"discard", "quiesce", "settle"}
  <2>1. CASE AdjBegin(b)
    BY <2>1 DEF AdjBegin
  <2>2. CASE AdjExit(b)
    BY <2>2 DEF AdjExit, AdjusterFields
  <2>3. CASE NextSlot(b)
    BY <2>3 DEF NextSlot, AdjusterFields, Asleep
  <2>4. CASE EndChain(b)
    BY <2>4 DEF EndChain, AdjusterFields
  <2>5. CASE Skip(b)
    BY <2>5 DEF Skip, AdjusterFields, Onward
  <2>6. CASE BeginCompact(b)
    BY <2>6 DEF BeginCompact, AdjusterFields
  <2>7. CASE BeginMerge(b)
    <3>1. galloc' = galloc
      BY <2>7 DEF BeginMerge
    <3>2. adj'[b].pc = "drain"
      BY <2>7 DEF BeginMerge, AdjusterFields
    <3> QED
      BY <3>1, <3>2
  <2>8. CASE BeginSplit(b)
    <3>1. galloc \subseteq galloc'
      BY <2>8 DEF BeginSplit
    <3>2. adj'[b].pc = "drain"
      BY <2>8 DEF BeginSplit, AdjusterFields
    <3> QED
      BY <3>1, <3>2
  <2>9. CASE Drain(b)
    <3>1. galloc \subseteq galloc'
      BY <2>9 DEF Drain
    <3>2. adj'[b].pc = "publish"
      BY <2>9 DEF Drain, AdjusterFields
    <3> QED
      BY <3>1, <3>2
  <2> QED
    BY <1>5, <2>1, <2>2, <2>3, <2>4, <2>5, <2>6, <2>7, <2>8, <2>9
<1>6. ASSUME EndModel(b) \/ Settle(b)
      PROVE  /\ wait[b] = {} /\ galloc \ galloc' \subseteq Doomed(b)
             /\ adj'[b].pc = "group"
  <2>1. CASE EndModel(b)
    <3>1. adj[b].pc = "discard" /\ galloc' = galloc \ {adj[b].old[1]} /\ wait[b] = {}
      BY <2>1 DEF EndModel, Delete, Passed
    <3>2. adj'[b].pc = "group"
      BY <2>1 DEF EndModel, AdjusterFields
    <3> QED
      BY <3>1, <3>2 DEF Doomed, Unlinked
  <2>2. CASE Settle(b)
    <3>1. adj[b].pc = "settle" /\ galloc' = galloc \ (Range(adj[b].old) \cup Range(adj[b].mid))
          /\ wait[b] = {}
      BY <2>2 DEF Settle, Delete, Passed
    <3>2. adj'[b].pc = "group"
      BY <2>2 DEF Settle, AdjusterFields, Onward
    <3> QED
      BY <3>1, <3>2 DEF Doomed, Unlinked
  <2> QED
    BY <1>6, <2>1, <2>2
<1>7. ASSUME BeginModel(b) \/ Publish(b) \/ PublishSecond(b) \/ Quiesce(b)
      PROVE  /\ galloc \subseteq galloc'
             /\ \/ adj'[b].pc = "second"
                \/ wait'[b] = {w \in Workers : wk[w].pc # "idle"}
  BY <1>3, <1>7 DEF BeginModel, Publish, PublishSecond, Quiesce, Barrier, AdjusterFields
<1> QED
  BY <1>2, <1>4, <1>5, <1>6, <1>7 DEF AdjStep, Doomed

\* The pivots of a root are never written.
LEMMA PivotsKept ==
  ASSUME RootInv, Store, NEW b \in Bg, AdjStep(b)
  PROVE  roots'[root].pivots = roots[root].pivots
<1>1. root \in RootIds /\ roots \in [RootIds -> RootRecords] /\ roots[root] \in RootRecords
  BY DEF RootInv, RootsLive, Store
<1>2. ASSUME NEW loc, NEW g, NEW G, Point(b, loc, g, G)
      PROVE  roots'[root].pivots = roots[root].pivots
  <2>1. CASE roots' = roots
    BY <2>1
  <2>2. CASE roots' = [roots EXCEPT ![adj[b].r].slots[loc[2] + 1] = g]
    <3>1. CASE adj[b].r = root
      <4> DEFINE s == [roots[root].slots EXCEPT ![loc[2] + 1] = g]
      <4>1. roots'[root] = [roots[root] EXCEPT !.slots = s]
        BY <1>1, <2>2, <3>1
      <4> HIDE DEF s
      <4> QED
        BY <1>1, <4>1 DEF RootRecords
    <3>2. CASE adj[b].r # root
      BY <1>1, <2>2, <3>2
    <3> QED
      BY <3>1, <3>2
  <2> QED
    BY <1>2, <2>1, <2>2 DEF Point
<1>3. \/ roots' = roots
      \/ \E loc, g, G : Point(b, loc, g, G)
  BY DEF AdjStep, AdjBegin, AdjExit, NextSlot, EndChain, Skip, BeginModel, EndModel,
     BeginCompact, BeginMerge, BeginSplit, Drain, Publish, PublishSecond, Quiesce, Settle
<1> QED
  BY <1>2, <1>3

\* The argument about the groups in the different phases of the master.
LEMMA LinksPhases ==
  LinksInv <=> IF mpc = "trim"
               THEN /\ Lists(root)
                    /\ \A g \in galloc : group[g].next \in galloc \cup {Null}
               ELSE Hangs /\ (mpc \in {"train", "swap"} => Lists(new_root))
<1>1. CASE mpc = "trim"
  <2>1. 0 \in Nat /\ [g \in GroupIds |-> 0] \in [GroupIds -> Nat]
        /\ [g \in GroupIds |-> 0] \in [GroupIds -> 0..0]
    OBVIOUS
  <2> QED
    BY <1>1, <2>1 DEF LinksInv, LinksWith
<1>2. CASE mpc # "trim"
  <2>1. ASSUME LinksInv PROVE Hangs /\ (mpc \in {"train", "swap"} => Lists(new_root))
    <3>1. PICK M \in Nat : \E z \in [GroupIds -> Nat], p \in [GroupIds -> 0..M] : LinksWith(z, p)
      BY <2>1 DEF LinksInv
    <3>2. PICK z \in [GroupIds -> Nat], p \in [GroupIds -> 0..M] : LinksWith(z, p)
      BY <3>1
    <3>3. Hang(M, z, p)
      BY <1>2, <3>2 DEF LinksWith, Hang
    <3> QED
      BY <1>2, <3>2, <3>3 DEF Hangs, LinksWith
  <2>2. ASSUME Hangs, mpc \in {"train", "swap"} => Lists(new_root) PROVE LinksInv
    <3>1. PICK M, z, p : Hang(M, z, p)
      BY <2>2 DEF Hangs
    <3>2. M \in Nat /\ z \in [GroupIds -> Nat] /\ p \in [GroupIds -> 0..M] /\ LinksWith(z, p)
      BY <1>2, <2>2, <3>1 DEF LinksWith, Hang
    <3> QED
      BY <3>2 DEF LinksInv
  <2> QED
    BY <1>2, <2>1, <2>2
<1> QED
  BY <1>1, <1>2

\* The same of the next state.
LEMMA NextLinksPhases ==
  (LinksInv <=> IF mpc = "trim"
                THEN /\ Lists(root)
                     /\ \A g \in galloc : group[g].next \in galloc \cup {Null}
                ELSE Hangs /\ (mpc \in {"train", "swap"} => Lists(new_root)))'
BY LinksPhases, PTL

\* Adjusters leave calls alone: what a worker holds stays in memory.
LEMMA AdjusterCalls ==
  ASSUME RootInv, RootInv', Store, Store', Hangs, Hangs', Calls, ralloc = {root},
         NEW b \in Bg, AdjStep(b)
  PROVE  Calls'
<1> SUFFICES ASSUME NEW w \in Workers PROVE Call(w)'
  BY DEF Calls
<1> PICK g : g = wk[w].g
  OBVIOUS
<1>1. /\ wk' = wk /\ Call(w)
  BY AdjusterSteps DEF RootInv, Calls, AdjusterEffect
<1>2. Len(roots'[root].slots) = Len(roots[root].slots) /\ root' = root /\ ralloc' = ralloc
  <2>1. root' = root /\ ralloc' = ralloc
    BY AdjusterOwn DEF Own
  <2>2. root \in ralloc
    OBVIOUS
  <2> QED
    BY <2>1, <2>2, PivotsKept DEF Store
<1>3. wk[w].r \in {root, Null}
  BY DEF RootInv, RootsLive
<1>4. /\ galloc \ galloc' # {} => wait[b] = {} /\ galloc \ galloc' \subseteq Doomed(b)
      /\ \/ Doomed(b)' = {}
         \/ Doomed(b)' = Doomed(b) /\ wait'[b] = wait[b]
         \/ wait'[b] = {v \in Workers : wk[v].pc # "idle"}
      /\ \A c \in Bg \ {b} : wait'[c] = wait[c] /\ Doomed(c)' = Doomed(c)
  BY AdjusterBarrier
<1>5. g \in galloc' \cup {Null}
  BY <1>1, <1>4 DEF Call
<1>6. ASSUME NEW c \in Bg, g \in Doomed(c)' PROVE w \in wait'[c]
  <2>1. CASE c # b
    BY <1>1, <1>4, <1>6, <2>1 DEF Call
  <2>2. CASE c = b
    <3>1. CASE Doomed(b)' = Doomed(b) /\ wait'[b] = wait[b]
      BY <1>1, <1>6, <2>2, <3>1 DEF Call
    <3>2. CASE wait'[b] = {v \in Workers : wk[v].pc # "idle"}
      <4>1. g \in galloc'
        BY <1>6, NextDoomedFacts
      <4>2. galloc' \subseteq GroupIds /\ Null \notin GroupIds
        BY DEF Store, GroupsTyped, GroupIds, Null
      <4>3. wk[w].pc # "idle"
        BY <1>1, <4>1, <4>2 DEF Call
      <4> QED
        BY <2>2, <3>2, <4>3
    <3> QED
      BY <1>4, <1>6, <2>2, <3>1, <3>2
  <2> QED
    BY <2>1, <2>2
<1>7. wk[w].pc \notin {"idle", "root", "predict"} =>
        wk[w].i \in 0..(Len(roots'[wk[w].r].slots) - 1)
  BY <1>1, <1>2, <1>3 DEF Call
<1> QED
  BY <1>1, <1>5, <1>6, <1>7 DEF Call

\* A step of an adjuster keeps the invariant.
LEMMA AdjusterGroups ==
  ASSUME GroupInv, RootInv', NEW b \in Bg, AdjStep(b)
  PROVE  GroupInv'
<1>1. AdjusterEffect(b)
  BY AdjusterSteps DEF GroupInv, RootInv
<1>2. mpc \notin {"train", "swap", "trim"} /\ mpc' = mpc /\ ralloc = {root} /\ ralloc' = {root'}
  BY <1>1 DEF AdjusterEffect, GroupInv, RootInv, Rounds, RootsLive
<1>3. Hangs
  BY <1>2, LinksPhases DEF GroupInv
<1>4. Store' /\ Hangs'
  BY <1>3, AdjusterKeeps DEF GroupInv
<1>5. Calls'
  BY <1>2, <1>3, <1>4, AdjusterCalls DEF GroupInv
<1>6. SlotsAlive'
  BY <1>2, <1>4, NextHangsAlive
<1>7. LinksInv'
  BY <1>2, <1>4, NextLinksPhases
<1> QED
  BY <1>4, <1>5, <1>6, <1>7 DEF GroupInv

\* A step that writes no group, no slot of the root and no local of an adjuster.
LEMMA SameJobs ==
  ASSUME UNCHANGED <<root, roots, group, galloc, adj>>
  PROVE  (Hangs => Hangs') /\ \A b \in Bg : Doomed(b)' = Doomed(b) /\ (Working(b)' <=> Working(b))
<1>1. \A b \in Bg : Unlinked(b)' = Unlinked(b) /\ (Working(b)' <=> Working(b))
  BY DEF Unlinked, Working
<1>2. Linked' = Linked /\ Links' = Links
  BY <1>1 DEF Linked, Links
<1>3. \A i : Masked(i)' <=> Masked(i)
  BY DEF Masked
<1>4. Heads' = Heads
  BY <1>3 DEF Heads, Slots
<1>5. ASSUME NEW b \in Bg, NEW z, Job(b, z) PROVE Job(b, z)'
  <2>1. Place(b, z) => Place(b, z)'
    BY <1>2 DEF Place, Share, RangeBegin, RangeEnd
  <2>2. Owned(b, z) => Owned(b, z)'
    BY <1>1, <1>2 DEF Owned, Share, RangeBegin, RangeEnd
  <2>3. Here(b)' = Here(b) /\ SecondSlot(b)' = SecondSlot(b) /\ (BySlot(b) => BySlot(b)')
    BY DEF Here, Deref, SecondSlot, BySlot, Share, RangeBegin, RangeEnd
  <2>4. /\ \A o : Compacting(b, o) => Compacting(b, o)'
        /\ \A o, q : Merging(b, o, q) => Merging(b, o, q)'
        /\ \A o, m, k : Splitting(b, o, m, k) => Splitting(b, o, m, k)'
        /\ \A o : ByNext(b, o) => ByNext(b, o)'
    BY DEF Compacting, Merging, Splitting, ByNext
  <2>5. Task(b) => Task(b)'
    <3> SUFFICES ASSUME Task(b), adj[b].pc \in {"drain", "publish"} PROVE Task(b)'
      BY DEF Task
    <3>1. CASE \E o \in GroupIds : Compacting(b, o) /\ Here(b) = o
      BY <2>3, <2>4, <3>1 DEF Task
    <3>2. CASE \E o, q \in GroupIds :
                 /\ Merging(b, o, q) /\ Here(b) = o
                 /\ \/ ByNext(b, o) /\ Links[o] = q
                    \/ BySlot(b) /\ Links[o] = Null /\ SecondSlot(b) = q
      BY <1>2, <2>3, <2>4, <3>2 DEF Task
    <3>3. CASE \E o, m, k \in GroupIds :
                 Splitting(b, o, m, k) /\ Here(b) = m /\ Links[m] = k
      BY <1>2, <2>3, <2>4, <3>3 DEF Task
    <3> QED
      BY <3>1, <3>2, <3>3 DEF Task
  <2>6. Ready(b) => Ready(b)'
    BY <1>2 DEF Ready
  <2>7. Done(b, z) => Done(b, z)'
    <3> SUFFICES ASSUME Done(b, z), adj[b].pc \in {"second", "quiesce", "settle"}
                 PROVE  Done(b, z)'
      BY DEF Done
    <3>1. CASE \E o \in GroupIds : Compacting(b, o)
      BY <1>2, <2>4, <3>1 DEF Done
    <3>2. CASE \E o, q \in GroupIds :
                 /\ Merging(b, o, q)
                 /\ \/ ByNext(b, o)
                    \/ /\ BySlot(b)
                       /\ adj[b].pc = "second" => SecondSlot(b) = q
                       /\ adj[b].pc = "quiesce" => SecondSlot(b) = adj[b].new[1]
      BY <1>2, <2>3, <2>4, <3>2 DEF Done
    <3>3. CASE \E o, m, k \in GroupIds : Splitting(b, o, m, k)
      BY <1>2, <2>4, <3>3 DEF Done
    <3> QED
      BY <3>1, <3>2, <3>3 DEF Done
  <2> QED
    BY <1>5, <2>1, <2>2, <2>5, <2>6, <2>7 DEF Job
<1>6. ASSUME NEW M, NEW z, NEW p, Hang(M, z, p) PROVE Hang(M, z, p)'
  BY <1>1, <1>2, <1>4, <1>5, <1>6 DEF Hang
<1>7. \A b \in Bg : Doomed(b)' = Doomed(b)
  BY <1>1 DEF Doomed
<1> QED
  BY <1>1, <1>6, <1>7 DEF Hangs

\* What a call may rely on: the next group of a chain is freed no earlier than the group.
LEMMA Alive ==
  ASSUME GroupInv
  PROVE  /\ galloc \subseteq GroupIds /\ Null \notin galloc
         /\ \A b \in Bg : Doomed(b) \subseteq galloc
         /\ \A g \in galloc : group[g].next # Null =>
              /\ group[g].next \in galloc
              /\ \A b \in Bg : group[g].next \in Doomed(b) => g \in Doomed(b)
<1>1. galloc \subseteq GroupIds /\ Null \notin GroupIds
  BY LinkTypes DEF GroupInv
<1>2. CASE mpc = "trim"
  <2>1. \A b \in Bg : Doomed(b) = {}
    BY <1>2 DEF GroupInv, RootInv, Rounds, Working, Doomed
  <2> QED
    BY <1>1, <1>2, <2>1, LinksPhases DEF GroupInv
<1>3. CASE mpc # "trim"
  <2>1. Hangs
    BY <1>3, LinksPhases DEF GroupInv
  <2>2. PICK M, z, p : Hang(M, z, p)
    BY <2>1 DEF Hangs
  <2>3. \A g \in galloc : group[g].next # Null =>
              /\ group[g].next \in galloc
              /\ \A b \in Bg : group[g].next \in Doomed(b) => g \in Doomed(b)
    <3> SUFFICES ASSUME NEW g \in galloc, group[g].next # Null
                 PROVE  /\ group[g].next \in galloc
                        /\ \A b \in Bg : group[g].next \in Doomed(b) => g \in Doomed(b)
      OBVIOUS
    <3>1. Links[g] = group[g].next
      BY <1>1 DEF Links
    <3>2. RootInv /\ Store
      BY DEF GroupInv
    <3> QED
      BY <2>2, <3>1, <3>2, NextAlive
  <2> QED
    BY <1>1, <2>1, <2>3, DoomedFacts DEF GroupInv
<1> QED
  BY <1>2, <1>3

\* The root of a call: its slots lead to groups in memory, its first slot is not null.
LEMMA RootAlive ==
  ASSUME GroupInv, NEW w \in Workers, wk[w].r # Null
  PROVE  /\ wk[w].r \in ralloc /\ Len(roots[wk[w].r].slots) \in Nat \ {0}
         /\ Len(roots[wk[w].r].pivots) = Len(roots[wk[w].r].slots)
         /\ roots[wk[w].r].slots[0 + 1] # Null
         /\ \A i \in 0..Len(roots[wk[w].r].slots) - 1 :
              \/ roots[wk[w].r].slots[i + 1] = Null
              \/ /\ roots[wk[w].r].slots[i + 1] \in galloc
                 /\ \A b \in Bg : roots[wk[w].r].slots[i + 1] \notin Doomed(b)
<1> PICK r : r = wk[w].r
  OBVIOUS
<1>1. r \in ralloc /\ r \in RootIds
  BY DEF GroupInv, RootInv, RootsLive, Store
<1> PICK s : s = roots[r].slots
  OBVIOUS
<1>2. /\ s \in Seq(GroupIds \cup {Null}) /\ Len(s) \in Nat /\ Len(s) > 0 /\ s[1] # Null
      /\ Len(s) = Len(roots[r].pivots)
  BY <1>1 DEF GroupInv, Store, RootRecords
<1>3. \A j \in 1..Len(s) : s[j] = Null \/ (s[j] \in galloc /\ \A b \in Bg : s[j] \notin Doomed(b))
  <2>1. DOMAIN s = 1..Len(s)
    BY <1>2
  <2> QED
    BY <1>1, <2>1 DEF GroupInv, SlotsAlive
<1>4. \A i \in 0..Len(s) - 1 : i + 1 \in 1..Len(s)
  BY <1>2
<1> QED
  BY <1>1, <1>2, <1>3, <1>4

-----------------------------------------------------------------------------
(* Groups: the calls of the workers.                                        *)

\* A call goes on with c in the place of wk[w]: c holds a group that is in memory,
\* and that is not freed earlier than the group it held.
Advances(w, c) ==
  /\ c.pc \in WorkerPlaces \ {"idle"}
  /\ c.pc \in {"chain", "use", "next"} => c.g # Null
  /\ c.pc # "root" => c.r # Null
  /\ c.pc \notin {"root", "predict"} => c.i \in 0..(Len(roots[c.r].slots) - 1)
  /\ c.g \in galloc \cup {Null}
  /\ c.out \in Seq(Keys)
  /\ \A b \in Bg : c.g \in Doomed(b) => wk[w].g \in Doomed(b)

\* The call is over or starts again with nothing in its hands.
LetsGo(c) == c.pc \in {"idle", "root"} /\ c.g = Null /\ c.out \in Seq(Keys)

\* Workers write nothing but their locals and the waiting lists.
LEMMA WorkerFrame ==
  ASSUME RootInv, NEW w \in Workers, Begin(w) \/ Continue(w)
  PROVE  /\ Shared
         /\ wait' = wait \/ wait' = [t \in 0..BgNum |-> wait[t] \ {w}]
         /\ \A v \in Workers \ {w} : wk'[v] = wk[v] /\ \A b \in Bg : v \in wait'[b] <=> v \in wait[b]
<1>1. Shared /\ (wait' = wait \/ wait' = [t \in 0..BgNum |-> wait[t] \ {w}])
  BY DEF Begin, Continue, ReadRoot, Predict, ReadSlot, Chain, Use, FirstVisit,
         ScanNext, ScanGroup, Retry, Return
<1>2. \A v \in Workers \ {w} : wk'[v] = wk[v]
  BY WorkerSteps DEF WorkerEffect
<1>3. Bg \subseteq 0..BgNum
  BY RootAssumption DEF Bg
<1> QED
  BY <1>1, <1>2, <1>3

\* A group of the slots, or Null.
LEMMA VisitKeeps ==
  ASSUME RootInv, Store, NEW w \in Workers, Call(w), wk[w].g # Null,
         wk[w].pc \notin {"idle", "root", "predict"}, NEW k, Visit(w, k)
  PROVE  Advances(w, wk'[w])
<1>1. wk[w].g \in GroupIds
  BY DEF Call, Store, GroupsTyped
<1>2. group[wk[w].g].held \subseteq Keys
  BY <1>1 DEF Store, GroupsTyped, GroupRecords
<1> PICK S : S = {x \in group[wk[w].g].held : x >= k /\ x <= wk[w].end}
  OBVIOUS
<1>3. S \subseteq Keys /\ S \in SUBSET Nat /\ IsFiniteSet(S)
  <2>1. S \subseteq Keys
    BY <1>2
  <2> QED
    BY <2>1, FS_Subset, RootAssumption
<1>4. Sorted(S) \in Seq(S)
  BY <1>3, SortedFacts
<1>5. Sorted(S) \in Seq(Keys)
  BY <1>3, <1>4
<1>6. wk[w].out \in Seq(Keys)
  BY DEF Call
<1>7. wk[w].out \o Sorted(S) \in Seq(Keys)
  BY <1>5, <1>6
<1>8. /\ wk'[w].pc = "next" /\ wk'[w].out = wk[w].out \o Sorted(S)
      /\ wk'[w].r = wk[w].r /\ wk'[w].i = wk[w].i /\ wk'[w].g = wk[w].g
  BY DEF Visit, Found, RootInv, Shapes, WorkerFields
<1> QED
  BY <1>7, <1>8 DEF Advances, Call, WorkerPlaces

\* Every step of a call goes on with a group in memory or lets everything go.
LEMMA WorkerMoves ==
  ASSUME GroupInv, NEW w \in Workers, Begin(w) \/ Continue(w)
  PROVE  \/ UNCHANGED wait /\ Advances(w, wk'[w])
         \/ wait' = [t \in 0..BgNum |-> wait[t] \ {w}] /\ LetsGo(wk'[w])
<1>1. RootInv /\ Store /\ Call(w) /\ DOMAIN wk = Workers /\ DOMAIN wk[w] = WorkerFields
  BY DEF GroupInv, Calls, RootInv, Shapes
<1>2. \A b \in Bg : Null \notin Doomed(b)
  BY Alive
<1>3. <<>> \in Seq(Keys)
  OBVIOUS
<1>4. CASE Begin(w)
  <2>1. PICK c \in plan.calls :
          wk' = [wk EXCEPT ![w] = [Idle EXCEPT !.pc = "root", !.op = c.op,
                                               !.key = c.key, !.end = c.end]]
    BY <1>4 DEF Begin
  <2>2. wk'[w].pc = "root" /\ wk'[w].g = Null /\ wk'[w].out = <<>>
    BY <1>1, <2>1 DEF Idle
  <2> QED
    BY <1>2, <1>3, <1>4, <2>2 DEF Begin, Advances, WorkerPlaces
<1>5. CASE ReadRoot(w)
  <2>1. /\ UNCHANGED wait /\ wk'[w].pc = "predict" /\ wk'[w].r = root
        /\ wk'[w].g = wk[w].g /\ wk'[w].out = wk[w].out
    BY <1>1, <1>5 DEF ReadRoot, WorkerFields
  <2>2. root # Null
    BY RootAssumption, <1>1 DEF RootInv, RootsLive
  <2> QED
    BY <1>1, <2>1, <2>2 DEF Advances, WorkerPlaces, Call
<1>6. CASE Predict(w)
  <2>1. wk[w].r # Null
    BY <1>1, <1>6 DEF Predict, Call
  <2> PICK n : n = Len(roots[wk[w].r].slots)
    OBVIOUS
  <2>2. n \in Nat \ {0} /\ Len(roots[wk[w].r].pivots) = n
    BY <2>1, RootAlive
  <2>3. PICK guess \in 0..(n - 1) :
          /\ UNCHANGED wait
          /\ wk' = [wk EXCEPT ![w].pc = "slot", ![w].i = SlotOf(wk[w].r, wk[w].key, guess)]
    BY <1>6 DEF Predict
  <2>4. guess \in 0..n
    BY <2>2
  <2>5. plan.class \in SearchClasses
    BY <1>1, RootAssumption DEF Store
  <2>6. \A B : SearchFrom(plan.class, B, n, guess) \in 0..n
    BY <2>2, <2>4, <2>5, SearchesExact
  <2>7. SlotOf(wk[w].r, wk[w].key, guess) \in 0..(n - 1)
    <3> PICK x : x = SearchFrom(plan.class,
                 {j \in 0..(n - 1) : roots[wk[w].r].pivots[j + 1] <= wk[w].key}, n, guess)
      OBVIOUS
    <3>1. x \in 0..n
      BY <2>6
    <3>2. SlotOf(wk[w].r, wk[w].key, guess) = IF x - 1 < 0 THEN 0 ELSE x - 1
      BY <2>2 DEF SlotOf
    <3>3. ASSUME NEW m \in Nat \ {0}, NEW y \in 0..m
          PROVE  (IF y - 1 < 0 THEN 0 ELSE y - 1) \in 0..(m - 1)
      OBVIOUS
    <3>4. (IF x - 1 < 0 THEN 0 ELSE x - 1) \in 0..(n - 1)
      BY <2>2, <3>1, <3>3
    <3> QED
      BY <3>2, <3>4
  <2>8. /\ wk'[w].pc = "slot" /\ wk'[w].i \in 0..(n - 1) /\ wk'[w].r = wk[w].r
        /\ wk'[w].g = wk[w].g /\ wk'[w].out = wk[w].out
    BY <1>1, <2>3, <2>7 DEF WorkerFields
  <2> QED
    BY <1>1, <2>1, <2>3, <2>8 DEF Advances, WorkerPlaces, Call
<1>7. CASE ReadSlot(w)
  <2>1. wk[w].r # Null /\ wk[w].i \in 0..(Len(roots[wk[w].r].slots) - 1)
    BY <1>1, <1>7 DEF ReadSlot, Call
  <2> PICK n, s : n = Len(roots[wk[w].r].slots) /\ s = roots[wk[w].r].slots[wk[w].i + 1]
    OBVIOUS
  <2>2. /\ n \in Nat \ {0} /\ wk[w].i \in 0..(n - 1)
        /\ s = Null \/ (s \in galloc /\ \A b \in Bg : s \notin Doomed(b))
        /\ wk[w].i = 0 => s # Null
    BY <2>1, RootAlive
  <2>3. wk'[w].r = wk[w].r /\ wk'[w].out = wk[w].out /\ UNCHANGED wait
    BY <1>1, <1>7 DEF ReadSlot, WorkerFields
  <2>4. CASE s = Null /\ wk[w].i > 0
    <3>1. wk'[w].pc = "slot" /\ wk'[w].i = wk[w].i - 1 /\ wk'[w].g = wk[w].g
      BY <1>1, <1>7, <2>4 DEF ReadSlot, WorkerFields
    <3>2. wk[w].i - 1 \in 0..(n - 1)
      BY <2>2, <2>4
    <3> QED
      BY <1>1, <2>1, <2>3, <3>1, <3>2 DEF Advances, WorkerPlaces, Call
  <2>5. CASE ~(s = Null /\ wk[w].i > 0)
    <3>1. wk'[w].pc = "chain" /\ wk'[w].i = wk[w].i /\ wk'[w].g = s
      BY <1>1, <1>7, <2>5 DEF ReadSlot, WorkerFields
    <3>2. s # Null
      BY <2>2, <2>5
    <3> QED
      BY <1>1, <2>1, <2>2, <2>3, <3>1, <3>2 DEF Advances, WorkerPlaces, Call
  <2> QED
    BY <2>4, <2>5
<1>8. CASE Chain(w)
  <2>1. wk[w].g \in galloc /\ wk[w].g # Null /\ wk[w].r # Null
    BY <1>1, <1>8 DEF Chain, Call
  <2>2. group[wk[w].g].next # Null =>
          /\ group[wk[w].g].next \in galloc
          /\ \A b \in Bg : group[wk[w].g].next \in Doomed(b) => wk[w].g \in Doomed(b)
    BY <2>1, Alive
  <2>3. /\ UNCHANGED wait /\ wk'[w].r = wk[w].r /\ wk'[w].i = wk[w].i
        /\ wk'[w].out = wk[w].out
        /\ \/ group[wk[w].g].next # Null /\ wk'[w].pc = "chain" /\ wk'[w].g = group[wk[w].g].next
           \/ wk'[w].pc = "use" /\ wk'[w].g = wk[w].g
    BY <1>1, <1>8 DEF Chain, Goto, WorkerFields
  <2>4. wk[w].i \in 0..(Len(roots[wk[w].r].slots) - 1) /\ wk[w].out \in Seq(Keys)
    BY <1>1, <1>8 DEF Chain, Call
  <2> QED
    BY <2>1, <2>2, <2>3, <2>4 DEF Advances, WorkerPlaces
<1>9. CASE Use(w)
  <2>1. CASE Return(w)
    BY <1>1, <1>3, <2>1 DEF Return, Idle, LetsGo
  <2>2. CASE Retry(w)
    BY <1>1, <2>2 DEF Retry, LetsGo, WorkerFields, Call
  <2> QED
    BY <1>9, <2>1, <2>2 DEF Use
<1>10. CASE FirstVisit(w)
  BY <1>1, <1>10, VisitKeeps DEF FirstVisit, Call
<1>11. CASE ScanNext(w)
  <2>1. wk[w].g \in galloc /\ wk[w].g # Null /\ wk[w].r # Null
    BY <1>1, <1>11 DEF ScanNext, Call
  <2>2. group[wk[w].g].next # Null =>
          /\ group[wk[w].g].next \in galloc
          /\ \A b \in Bg : group[wk[w].g].next \in Doomed(b) => wk[w].g \in Doomed(b)
    BY <2>1, Alive
  <2>3. /\ UNCHANGED wait /\ wk'[w].r = wk[w].r /\ wk'[w].i = wk[w].i
        /\ wk'[w].out = wk[w].out /\ wk'[w].g = group[wk[w].g].next
        /\ \/ group[wk[w].g].next # Null /\ wk'[w].pc = "next"
           \/ wk'[w].pc = "scan"
    BY <1>1, <1>11 DEF ScanNext, WorkerFields
  <2>4. wk[w].i \in 0..(Len(roots[wk[w].r].slots) - 1) /\ wk[w].out \in Seq(Keys)
    BY <1>1, <1>11 DEF ScanNext, Call
  <2> QED
    BY <1>2, <2>1, <2>2, <2>3, <2>4 DEF Advances, WorkerPlaces
<1>12. CASE ScanGroup(w)
  <2>1. wk[w].pc = "scan" /\ wk[w].r # Null /\ wk[w].i \in 0..(Len(roots[wk[w].r].slots) - 1)
    BY <1>1, <1>12 DEF ScanGroup, Call
  <2> PICK n : n = Len(roots[wk[w].r].slots)
    OBVIOUS
  <2>2. CASE \E k : wk[w].g # Null /\ Visit(w, k) /\ UNCHANGED wait
    BY <1>1, <2>1, <2>2, VisitKeeps
  <2>3. CASE /\ wk[w].i + 1 <= n - 1 /\ UNCHANGED wait
             /\ wk' = [wk EXCEPT ![w].i = wk[w].i + 1,
                                 ![w].g = roots[wk[w].r].slots[wk[w].i + 1 + 1]]
    <3> PICK i, s : i = wk[w].i + 1 /\ s = roots[wk[w].r].slots[i + 1]
      OBVIOUS
    <3>1. n \in Nat \ {0}
      BY <2>1, RootAlive
    <3>2. i \in 0..(n - 1)
      BY <2>1, <2>3, <3>1
    <3>3. s = Null \/ (s \in galloc /\ \A b \in Bg : s \notin Doomed(b))
      BY <2>1, <3>2, RootAlive
    <3>4. /\ wk'[w].pc = "scan" /\ wk'[w].r = wk[w].r /\ wk'[w].i = i /\ wk'[w].g = s
          /\ wk'[w].out = wk[w].out
      BY <1>1, <2>1, <2>3 DEF WorkerFields
    <3> QED
      BY <1>1, <1>2, <2>1, <2>3, <3>2, <3>3, <3>4 DEF Advances, WorkerPlaces, Call
  <2>4. CASE Return(w)
    BY <1>1, <1>3, <2>4 DEF Return, Idle, LetsGo
  <2> QED
    BY <1>12, <2>2, <2>3, <2>4 DEF ScanGroup
<1> QED
  BY <1>4, <1>5, <1>6, <1>7, <1>8, <1>9, <1>10, <1>11, <1>12 DEF Continue

\* Workers write nothing that the argument about groups is about.
LEMMA WorkerGroups ==
  ASSUME GroupInv, RootInv', NEW w \in Workers, Begin(w) \/ Continue(w)
  PROVE  GroupInv'
<1>0. RootInv
  BY DEF GroupInv
<1>1. /\ UNCHANGED <<plan, root, roots, ralloc, group, galloc, models, adj,
                     update, bg_running, mpc, new_root>>
      /\ \A v \in Workers \ {w} : wk'[v] = wk[v] /\ \A b \in Bg : v \in wait'[b] <=> v \in wait[b]
  BY <1>0, WorkerFrame DEF Shared, heap, flags
<1>2. /\ Hangs => Hangs'
      /\ \A b \in Bg : Doomed(b)' = Doomed(b)
  BY <1>1, SameJobs
<1>3. Store'
  BY <1>1 DEF GroupInv, Store, GroupsTyped
<1>4. SlotsAlive'
  BY <1>1, <1>2 DEF GroupInv, SlotsAlive
<1>5. LinksInv'
  <2>1. (Lists(root) => Lists(root)') /\ (Lists(new_root) => Lists(new_root)')
    BY <1>1 DEF Lists
  <2> QED
    BY <1>1, <1>2, <2>1, LinksPhases, NextLinksPhases DEF GroupInv
<1>6. Calls'
  <2>1. ASSUME NEW v \in Workers \ {w} PROVE Call(v)'
    BY <1>1, <1>2 DEF GroupInv, Calls, Call
  <2>2. Call(w)'
    <3>1. CASE UNCHANGED wait /\ Advances(w, wk'[w])
      BY <1>1, <1>2, <3>1 DEF GroupInv, Calls, Call, Advances
    <3>2. CASE LetsGo(wk'[w])
      <4>1. \A b \in Bg : Null \notin Doomed(b)
        BY Alive
      <4> QED
        BY <1>1, <1>2, <3>2, <4>1 DEF Call, LetsGo, WorkerPlaces
    <3> QED
      BY <3>1, <3>2, WorkerMoves
  <2> QED
    BY <2>1, <2>2 DEF Calls
<1> QED
  BY <1>3, <1>4, <1>5, <1>6 DEF GroupInv

-----------------------------------------------------------------------------
(* Groups: the steps of the master.                                         *)

\* The heads of chains while no adjuster is at work.
QuietHeads == [i \in Slots |-> roots[root].slots[i + 1]]

\* While no adjuster is at work every group hangs off a slot.
LEMMA QuietHangs ==
  (\A b \in Bg : ~Working(b)) =>
     /\ \A b \in Bg : Unlinked(b) = {} /\ Doomed(b) = {}
     /\ Hangs <=> \E M \in Nat : \E z \in [GroupIds -> Nat], p \in [GroupIds -> 0..M] :
                    Chains(QuietHeads, Links, galloc, z, p)
<1> SUFFICES ASSUME \A b \in Bg : ~Working(b)
             PROVE  /\ \A b \in Bg : Unlinked(b) = {} /\ Doomed(b) = {}
                    /\ Hangs <=> \E M \in Nat :
                         \E z \in [GroupIds -> Nat], p \in [GroupIds -> 0..M] :
                           Chains(QuietHeads, Links, galloc, z, p)
  OBVIOUS
<1>1. \A b \in Bg : Unlinked(b) = {} /\ Doomed(b) = {}
  BY DEF Working, Unlinked, Doomed
<1>2. Linked = galloc
  BY <1>1 DEF Linked
<1>3. \A i : ~Masked(i)
  BY DEF Masked, Working
<1>4. Heads = QuietHeads
  BY <1>3 DEF Heads, QuietHeads
<1>5. \A M, z, p : Hang(M, z, p) <=>
         /\ M \in Nat /\ z \in [GroupIds -> Nat] /\ p \in [GroupIds -> 0..M]
         /\ Chains(QuietHeads, Links, galloc, z, p)
  BY <1>2, <1>4 DEF Hang
<1> QED
  BY <1>1, <1>5 DEF Hangs

\* The same of the next state.
LEMMA NextQuietHangs ==
  ((\A b \in Bg : ~Working(b)) =>
     /\ \A b \in Bg : Unlinked(b) = {} /\ Doomed(b) = {}
     /\ Hangs <=> \E M \in Nat : \E z \in [GroupIds -> Nat], p \in [GroupIds -> 0..M] :
                    Chains(QuietHeads, Links, galloc, z, p))'
BY QuietHangs, PTL

\* Without chains it is enough that the slots hold every group once.
LEMMA FlatHangs ==
  /\ \A b \in Bg : ~Working(b)
  /\ Lists(root) /\ roots[root].slots \in Seq(GroupIds \cup {Null})
  /\ galloc \subseteq GroupIds /\ \A g \in galloc : group[g].next = Null
  => Hangs
<1> SUFFICES ASSUME \A b \in Bg : ~Working(b), Lists(root),
                    roots[root].slots \in Seq(GroupIds \cup {Null}),
                    galloc \subseteq GroupIds, \A g \in galloc : group[g].next = Null
             PROVE  Hangs
  OBVIOUS
<1> PICK s : s = roots[root].slots
  OBVIOUS
<1>1. /\ s \in Seq(GroupIds \cup {Null}) /\ Len(s) \in Nat /\ DOMAIN s = 1..Len(s)
      /\ Slots = 0..(Len(s) - 1)
  BY DEF Slots
<1>2. /\ \A i \in 1..Len(s) : s[i] \in galloc
      /\ \A i, j \in 1..Len(s) : s[i] = s[j] => i = j
      /\ \A g \in galloc : \E i \in 1..Len(s) : s[i] = g
  BY <1>1 DEF Lists
<1> PICK z : z = [g \in GroupIds |-> IF g \in galloc
                                     THEN CHOOSE i \in Slots : s[i + 1] = g ELSE 0]
  OBVIOUS
<1> PICK p : p = [g \in GroupIds |-> 1]
  OBVIOUS
<1>3. \A g \in galloc : z[g] \in Slots /\ s[z[g] + 1] = g
  <2> SUFFICES ASSUME NEW g \in galloc PROVE z[g] \in Slots /\ s[z[g] + 1] = g
    OBVIOUS
  <2>1. PICK k \in 1..Len(s) : s[k] = g
    BY <1>2
  <2>2. k - 1 \in Slots /\ (k - 1) + 1 = k
    BY <1>1
  <2>3. \E i \in Slots : s[i + 1] = g
    BY <2>1, <2>2
  <2> QED
    BY <2>3
<1>4. Slots \subseteq Nat
  BY <1>1
<1>5. z \in [GroupIds -> Nat] /\ p \in [GroupIds -> 0..1]
  <2>1. \A g \in GroupIds : z[g] \in Nat
    BY <1>3, <1>4
  <2>2. \A g \in GroupIds : 1 \in 0..1
    OBVIOUS
  <2> QED
    BY <2>1, <2>2
<1>6. Chains(QuietHeads, Links, galloc, z, p)
  <2>1. \A i \in Slots : i + 1 \in 1..Len(s) /\ QuietHeads[i] = s[i + 1]
    BY <1>1 DEF QuietHeads
  <2>2. DOMAIN QuietHeads = Slots
    BY DEF QuietHeads
  <2>3. ASSUME NEW i \in Slots PROVE QuietHeads[i] \in galloc /\ z[QuietHeads[i]] = i
    <3>1. s[i + 1] \in galloc
      BY <1>2, <2>1
    <3>2. z[s[i + 1]] \in Slots /\ s[z[s[i + 1]] + 1] = s[i + 1]
      BY <1>3, <3>1
    <3>3. z[s[i + 1]] + 1 = i + 1
      BY <1>2, <2>1, <3>2
    <3>4. z[s[i + 1]] = i
      BY <1>4, <3>2, <3>3
    <3> QED
      BY <2>1, <3>1, <3>4
  <2>4. \A g \in galloc : Links[g] = Null
    BY DEF Links
  <2>5. \A g \in galloc : z[g] \in Slots /\ QuietHeads[z[g]] = g
    BY <1>3, <2>1
  <2>6. \A g \in galloc : p[g] = 1
    OBVIOUS
  <2>7. \A g \in galloc : 0 < p[g]
    BY <2>6
  <2> PICK H, X : H = QuietHeads /\ X = Links
    OBVIOUS
  <2>8. \A i \in DOMAIN H : H[i] # Null => H[i] \in galloc /\ z[H[i]] = i
    BY <2>2, <2>3
  <2>9. \A g \in galloc : X[g] = Null
    BY <2>4
  <2>10. \A g \in galloc : z[g] \in DOMAIN H /\ 0 < p[g] /\ H[z[g]] = g
    BY <2>2, <2>5, <2>7
  <2>11. Chains(H, X, galloc, z, p)
    BY <2>8, <2>9, <2>10 DEF Chains
  <2> QED
    BY <2>11
<1> QED
  BY <1>5, <1>6, QuietHangs

\* The same of the next state.
LEMMA NextFlatHangs ==
  (/\ \A b \in Bg : ~Working(b)
   /\ Lists(root) /\ roots[root].slots \in Seq(GroupIds \cup {Null})
   /\ galloc \subseteq GroupIds /\ \A g \in galloc : group[g].next = Null
   => Hangs)'
BY FlatHangs, PTL

\* Steps of the master that write neither roots nor groups.
LEMMA SameGroups ==
  ASSUME GroupInv, RootInv', Store',
         UNCHANGED <<wk, root, roots, ralloc, group, galloc, adj, new_root>>,
         \A b \in Bg : wait'[b] = wait[b], mpc = "trim" <=> mpc' = "trim",
         mpc' \in {"train", "swap"} => mpc \in {"train", "swap"}
  PROVE  GroupInv'
<1>1. (Hangs => Hangs') /\ \A b \in Bg : Doomed(b)' = Doomed(b)
  BY SameJobs
<1>2. SlotsAlive'
  BY <1>1 DEF GroupInv, SlotsAlive
<1>3. Calls'
  BY <1>1 DEF GroupInv, Calls, Call
<1>4. LinksInv'
  <2>1. (Lists(new_root) => Lists(new_root)') /\ (Lists(root) => Lists(root)')
    BY DEF Lists
  <2> QED
    BY <1>1, <2>1, LinksPhases, NextLinksPhases DEF GroupInv
<1> QED
  BY <1>2, <1>3, <1>4 DEF GroupInv

\* Barriers of the master do not touch those of the adjusters.
LEMMA MasterBarrier ==
  ASSUME Shapes, Barrier(BgNum) PROVE \A b \in Bg : wait'[b] = wait[b]
BY RootAssumption DEF Barrier, Shapes, Bg

\* Steps that only signal.
LEMMA SignalGroups ==
  ASSUME GroupInv, RootInv',
         StartRound \/ StopRounds \/ Collect \/ Train \/ EndRound \/ Join \/ Terminate
  PROVE  GroupInv'
<1>1. /\ UNCHANGED <<plan, wk, root, roots, ralloc, group, galloc, adj, new_root>>
      /\ \/ /\ mpc' \in {"round", "wait", "create", "swap", "last", "join", "exit"}
            /\ mpc # "trim" /\ (mpc' = "swap" => mpc = "train")
         \/ mpc' = mpc
      /\ bg_running' \in {bg_running, FALSE} /\ update' \in {update, {}}
      /\ models' = models \/ (mpc = "train" /\ models' = (models \ {root}) \cup {new_root})
  BY DEF StartRound, StopRounds, Collect, Train, EndRound, Join, Terminate,
         MasterFrame, heap, flags
<1>2. \A b \in Bg : wait'[b] = wait[b]
  <2>1. UNCHANGED wait \/ Barrier(BgNum)
    BY DEF StartRound, StopRounds, Collect, Train, EndRound, Join, Terminate
  <2> QED
    BY <2>1, MasterBarrier DEF GroupInv, RootInv
<1>3. models' \subseteq RootIds /\ bg_running' \in BOOLEAN /\ update' \subseteq Bg
  BY <1>1 DEF GroupInv, RootInv, RootsLive, Store
<1>4. Store'
  <2>1. Store
    BY DEF GroupInv
  <2>2. mpc' \in {"round", "wait", "create", "train", "swap", "trim", "last", "join", "exit"}
    BY <1>1, <2>1 DEF Store
  <2> QED
    BY <1>1, <1>3, <2>1, <2>2 DEF Store, GroupsTyped
<1> QED
  BY <1>1, <1>2, <1>4, SameGroups

\* Outside of rounds no adjuster is at work.
LEMMA Quiet ==
  ASSUME RootInv, mpc # "wait"
  PROVE  /\ \A b \in Bg : ~Working(b)
         /\ \A b \in Bg : Unlinked(b) = {} /\ Doomed(b) = {}
         /\ Hangs <=> \E M \in Nat : \E z \in [GroupIds -> Nat], p \in [GroupIds -> 0..M] :
                        Chains(QuietHeads, Links, galloc, z, p)
<1>1. \A b \in Bg : ~Working(b)
  BY DEF RootInv, Rounds
<1> QED
  BY <1>1, QuietHangs

\* A sequence of all groups without repetition.
LEMMA ListingFacts ==
  ASSUME GroupInv, mpc = "create"
  PROVE  /\ Distinct(Listing(root), galloc)
         /\ \A g : g \in Seen(Listing(root)) <=> g \in galloc
<1>1. Hangs
  BY LinksPhases DEF GroupInv
<1>2. RootInv /\ Store
  BY DEF GroupInv
<1>0. PICK M \in Nat : \E z \in [GroupIds -> Nat], p \in [GroupIds -> 0..M] :
                         Chains(QuietHeads, Links, galloc, z, p)
  BY <1>1, <1>2, Quiet
<1>3. PICK z \in [GroupIds -> Nat], p \in [GroupIds -> 0..M] :
        Chains(QuietHeads, Links, galloc, z, p)
  BY <1>0
<1>4. root \in ralloc /\ ralloc \subseteq RootIds
  BY <1>2 DEF RootInv, RootsLive, Store
<1> PICK n : n = Len(roots[root].slots)
  OBVIOUS
<1>5. n \in Nat \ {0}
  BY <1>2, <1>4 DEF Store, RootRecords
<1> PICK H : H = QuietHeads
  OBVIOUS
<1>6. DOMAIN H = 0..n - 1 /\ \A i \in 0..n - 1 : H[i] = roots[root].slots[i + 1]
  BY DEF QuietHeads, Slots
<1> PICK X : X = Links
  OBVIOUS
<1>7. /\ X \in [GroupIds -> GroupIds \cup {Null}]
      /\ \A g \in GroupIds : X[g] = group[g].next
      /\ \A g \in GroupIds \ galloc : X[g] = Null
      /\ galloc \in SUBSET GroupIds
  BY <1>2, LinkTypes
<1>8. Chains(H, X, galloc, z, p)
  BY <1>3
<1>9. Walk(root, galloc, M, H, X, z, p)
  BY <1>5, <1>6, <1>7, <1>8 DEF Walk
<1> QED
  BY <1>9, ListsAll

\* The action CreateRoot: the slots of the new root hold every group once.
LEMMA CreateRootGroups ==
  ASSUME GroupInv, RootInv', CreateRoot
  PROVE  GroupInv'
<1>1. RootInv /\ Store /\ mpc = "create" /\ mpc' = "train"
  BY DEF GroupInv, CreateRoot
<1>2. UNCHANGED <<plan, wk, root, group, galloc, models, adj, wait, started, finished,
                  update, running, bg_running>>
  BY DEF CreateRoot, MasterFrame, flags
<1> PICK l : l = Listing(root)
  OBVIOUS
<1> PICK r : r = new_root'
  OBVIOUS
<1>3. ralloc = {root} /\ root \in RootIds
  BY <1>1 DEF RootInv, RootsLive
<1>4. r \in RootIds /\ r # root
  <2>1. \E x \in RootIds : x \notin ralloc
    BY <1>3, RootAssumption
  <2>2. r = CHOOSE x \in RootIds : x \notin ralloc
    BY DEF CreateRoot
  <2> QED
    BY <1>3, <2>1, <2>2
<1>5. /\ l \in Seq(galloc) /\ Len(l) \in Nat /\ DOMAIN l = 1..Len(l)
      /\ \A i, j \in 1..Len(l) : l[i] = l[j] => i = j
      /\ \A g \in galloc : \E i \in 1..Len(l) : l[i] = g
      /\ \A i \in 1..Len(l) : l[i] \in galloc
  BY <1>1, ListingFacts DEF Distinct, Seen
<1>6. galloc \subseteq GroupIds /\ Null \notin galloc
  BY <1>1, LinkTypes
<1>7. roots[root].slots[1] \in galloc
  <2>1. /\ Len(roots[root].slots) > 0 /\ roots[root].slots[1] # Null
        /\ roots[root].slots \in Seq(GroupIds \cup {Null})
    BY <1>1, <1>3 DEF Store, RootRecords
  <2>2. 1 \in DOMAIN roots[root].slots
    BY <2>1
  <2> QED
    BY <1>3, <2>1, <2>2 DEF GroupInv, SlotsAlive
<1>8. Len(l) > 0
  BY <1>5, <1>7
<1> PICK pv : pv = [i \in 1..Len(l) |-> group[l[i]].pivot]
  OBVIOUS
<1>9. pv \in Seq(Keys) /\ Len(pv) = Len(l)
  <2>1. \A i \in 1..Len(l) : group[l[i]].pivot \in Keys
    BY <1>1, <1>5 DEF Store, GroupsTyped
  <2> QED
    BY <1>5, <2>1
<1>10. /\ ralloc' = {root, r}
       /\ roots' = [roots EXCEPT ![r] = [pivots |-> pv, slots |-> l]]
  BY <1>3 DEF CreateRoot
<1>11. roots'[root] = roots[root] /\ roots'[r] = [pivots |-> pv, slots |-> l]
  BY <1>1, <1>4, <1>10 DEF Store
<1>12. Store'
  <2>1. roots' \in [RootIds -> RootRecords]
    <3>1. l \in Seq(GroupIds \cup {Null})
      BY <1>5, <1>6
    <3>2. [pivots |-> pv, slots |-> l] \in RootRecords
      BY <1>9, <3>1 DEF RootRecords
    <3> QED
      BY <1>1, <1>4, <1>10, <3>2 DEF Store
  <2>2. \A x \in ralloc' : /\ Len(roots'[x].slots) = Len(roots'[x].pivots)
                           /\ Len(roots'[x].slots) > 0 /\ roots'[x].slots[1] # Null
    <3>1. 1 \in 1..Len(l)
      BY <1>5, <1>8
    <3>2. l[1] # Null
      BY <1>5, <1>6, <3>1
    <3>3. /\ Len(roots[root].slots) = Len(roots[root].pivots)
          /\ Len(roots[root].slots) > 0 /\ roots[root].slots[1] # Null
      BY <1>1, <1>3 DEF Store
    <3> QED
      BY <1>8, <1>9, <1>10, <1>11, <3>2, <3>3
  <2>3. ralloc' \subseteq RootIds
    BY <1>3, <1>4, <1>10
  <2>4. GroupsTyped(group, galloc)'
    BY <1>1, <1>2 DEF Store, GroupsTyped
  <2>5. mpc' \in {"round", "wait", "create", "train", "swap", "trim", "last", "join", "exit"}
    BY <1>1
  <2> QED
    BY <1>1, <1>2, <2>1, <2>2, <2>3, <2>4, <2>5 DEF Store
<1>13. /\ \A b \in Bg : Doomed(b) = {} /\ Doomed(b)' = {}
       /\ Hangs => Hangs'
  <2>1. /\ \A b \in Bg : ~Working(b)
        /\ \A b \in Bg : Doomed(b) = {}
        /\ Hangs <=> \E M \in Nat : \E z \in [GroupIds -> Nat], p \in [GroupIds -> 0..M] :
                       Chains(QuietHeads, Links, galloc, z, p)
    BY <1>1, Quiet
  <2>2. (\A b \in Bg : ~Working(b))'
    BY <1>2, <2>1 DEF Working
  <2>3. QuietHeads' = QuietHeads /\ Links' = Links
    BY <1>2, <1>11 DEF QuietHeads, Slots, Links
  <2>4. /\ \A b \in Bg : Doomed(b)' = {}
        /\ Hangs' <=> (\E M \in Nat : \E z \in [GroupIds -> Nat], p \in [GroupIds -> 0..M] :
                        Chains(QuietHeads, Links, galloc, z, p))'
    BY <2>2, NextQuietHangs
  <2>5. \A M, z, p : Chains(QuietHeads, Links, galloc, z, p)' <=> Chains(QuietHeads, Links, galloc, z, p)
    BY <1>2, <2>3
  <2> QED
    BY <2>1, <2>4, <2>5
<1>14. SlotsAlive'
  BY <1>2, <1>3, <1>5, <1>10, <1>11, <1>13 DEF GroupInv, SlotsAlive
<1>15. Calls'
  <2> SUFFICES ASSUME NEW w \in Workers PROVE Call(w)'
    BY DEF Calls
  <2>1. Call(w) /\ wk[w].r \in {root, Null}
    BY <1>1 DEF GroupInv, Calls, RootInv, RootsLive
  <2> QED
    BY <1>2, <1>11, <1>13, <2>1 DEF Call
<1>16. Lists(new_root)'
  <2> PICK s : s = roots'[new_root'].slots
    OBVIOUS
  <2>1. s = l
    BY <1>11
  <2>2. /\ \A i \in DOMAIN s : s[i] \in galloc
        /\ \A i, j \in DOMAIN s : s[i] = s[j] => i = j
        /\ \A g \in galloc : \E i \in DOMAIN s : s[i] = g
    BY <1>5, <2>1
  <2> QED
    BY <1>2, <2>2 DEF Lists
<1>17. LinksInv'
  BY <1>1, <1>13, <1>16, LinksPhases, NextLinksPhases DEF GroupInv
<1> QED
  BY <1>12, <1>14, <1>15, <1>17 DEF GroupInv

\* The action SwapRoot.
LEMMA SwapRootGroups ==
  ASSUME GroupInv, RootInv', SwapRoot
  PROVE  GroupInv'
<1>1. RootInv /\ Store /\ mpc = "swap" /\ mpc' = "trim" /\ root' = new_root
  BY DEF GroupInv, SwapRoot
<1>2. UNCHANGED <<plan, wk, roots, ralloc, group, galloc, models, adj, update, bg_running>>
  BY DEF SwapRoot, MasterFrame, flags
<1>3. \A b \in Bg : wait'[b] = wait[b]
  BY <1>1, MasterBarrier DEF SwapRoot, RootInv
<1>4. \A b \in Bg : Doomed(b)' = Doomed(b)
  BY <1>2 DEF Doomed, Unlinked
<1>5. Store'
  BY <1>1, <1>2 DEF Store, GroupsTyped
<1>6. SlotsAlive'
  BY <1>2, <1>4 DEF GroupInv, SlotsAlive
<1>7. Calls'
  BY <1>2, <1>3, <1>4 DEF GroupInv, Calls, Call
<1>8. LinksInv'
  <2>1. Lists(new_root)
    BY <1>1, LinksPhases DEF GroupInv
  <2>2. Lists(root)'
    BY <1>1, <1>2, <2>1 DEF Lists
  <2>3. \A g \in galloc : group[g].next \in galloc \cup {Null}
    BY Alive
  <2> QED
    BY <1>1, <1>2, <2>2, <2>3, NextLinksPhases
<1> QED
  BY <1>5, <1>6, <1>7, <1>8 DEF GroupInv

\* The action Trim: no group is reached by its chain alone.
LEMMA TrimGroups ==
  ASSUME GroupInv, RootInv', Trim
  PROVE  GroupInv'
<1>1. RootInv /\ Store /\ mpc = "trim" /\ mpc' = "trim"
  BY DEF GroupInv, Trim
<1>2. UNCHANGED <<plan, wk, root, roots, ralloc, galloc, models, adj, update, bg_running, wait>>
  BY DEF Trim, MasterFrame, flags
<1>3. PICK i \in 1..Len(roots[root].slots) :
        group' = [group EXCEPT ![roots[root].slots[i]].next = Null]
  BY DEF Trim, Untrimmed
<1>4. \A b \in Bg : Doomed(b)' = Doomed(b)
  BY <1>2 DEF Doomed, Unlinked
<1> PICK g : g = roots[root].slots[i]
  OBVIOUS
<1>5. Lists(root) /\ \A x \in galloc : group[x].next \in galloc \cup {Null}
  BY <1>1, LinksPhases DEF GroupInv
<1>6. g \in galloc /\ g \in GroupIds
  <2>1. roots[root].slots \in Seq(GroupIds \cup {Null})
    BY <1>1 DEF RootInv, RootsLive, Store, RootRecords
  <2>2. i \in DOMAIN roots[root].slots
    BY <2>1
  <2> QED
    BY <1>1, <1>5, <2>2 DEF Lists, Store, GroupsTyped
<1>7. /\ group \in [GroupIds -> GroupRecords]
      /\ group' = [group EXCEPT ![g].next = Null]
  BY <1>1, <1>3 DEF Store, GroupsTyped
<1>8. group' \in [GroupIds -> GroupRecords]
  BY <1>6, <1>7 DEF GroupRecords
<1>9. \A x \in GroupIds : /\ group'[x].pivot = group[x].pivot /\ group'[x].span = group[x].span
                          /\ group'[x].held = group[x].held
                          /\ group'[x].next = IF x = g THEN Null ELSE group[x].next
                          /\ x # g => group'[x] = group[x]
  BY <1>6, <1>7 DEF GroupRecords
<1>10. GroupsTyped(group, galloc)'
  BY <1>1, <1>2, <1>6, <1>8, <1>9 DEF Store, GroupsTyped
<1>11. Store'
  BY <1>1, <1>2, <1>10 DEF Store
<1>12. SlotsAlive'
  BY <1>2, <1>4 DEF GroupInv, SlotsAlive
<1>13. Calls'
  BY <1>2, <1>4 DEF GroupInv, Calls, Call
<1>14. LinksInv'
  <2>1. Lists(root)'
    BY <1>2, <1>5 DEF Lists
  <2>2. \A x \in galloc' : group'[x].next \in galloc' \cup {Null}
    BY <1>1, <1>2, <1>5, <1>9 DEF Store, GroupsTyped
  <2> QED
    BY <1>1, <2>1, <2>2, NextLinksPhases
<1> QED
  BY <1>11, <1>12, <1>13, <1>14 DEF GroupInv

\* The action DeleteRoot: every group hangs off its slot, without chains.
LEMMA DeleteRootGroups ==
  ASSUME GroupInv, RootInv', DeleteRoot
  PROVE  GroupInv'
<1>1. /\ RootInv /\ Store /\ mpc = "trim" /\ mpc' = "last" /\ Untrimmed = {}
      /\ ralloc' = {root} /\ roots' = [r \in RootIds |-> IF r = root THEN roots[r] ELSE NoRoot]
  BY DEF GroupInv, DeleteRoot
<1>2. UNCHANGED <<plan, wk, root, group, galloc, models, adj, update, bg_running>>
  BY DEF DeleteRoot, MasterFrame, flags
<1>3. \A b \in Bg : wait'[b] = wait[b]
  BY <1>1, MasterBarrier DEF DeleteRoot, RootInv
<1>4. \A b \in Bg : Doomed(b)' = Doomed(b)
  BY <1>2 DEF Doomed, Unlinked
<1>5. root \in RootIds /\ root \in ralloc /\ roots'[root] = roots[root]
  BY <1>1 DEF RootInv, RootsLive
<1>6. Store'
  <2>1. NoRoot \in RootRecords
    BY DEF NoRoot, RootRecords
  <2>2. roots' \in [RootIds -> RootRecords]
    BY <1>1, <2>1 DEF Store
  <2>3. \A r \in ralloc' : /\ Len(roots'[r].slots) = Len(roots'[r].pivots)
                           /\ Len(roots'[r].slots) > 0 /\ roots'[r].slots[1] # Null
    BY <1>1, <1>5 DEF Store
  <2>4. GroupsTyped(group, galloc)'
    BY <1>1, <1>2 DEF Store, GroupsTyped
  <2> QED
    BY <1>1, <1>2, <1>5, <2>2, <2>3, <2>4 DEF Store
<1>7. SlotsAlive'
  BY <1>1, <1>2, <1>4, <1>5 DEF GroupInv, SlotsAlive
<1>8. Calls'
  <2> SUFFICES ASSUME NEW w \in Workers PROVE Call(w)'
    BY DEF Calls
  <2>1. Call(w)
    BY DEF GroupInv, Calls
  <2>2. wk[w].r \in {root, Null}
    BY <1>1, <1>2 DEF RootInv, RootsLive
  <2> QED
    BY <1>2, <1>3, <1>4, <1>5, <2>1, <2>2 DEF Call
<1>9. Hangs'
  <2>1. Lists(root)
    BY <1>1, LinksPhases DEF GroupInv
  <2>2. Lists(root)'
    BY <1>2, <1>5, <2>1 DEF Lists
  <2>3. roots[root].slots \in Seq(GroupIds \cup {Null})
    BY <1>1, <1>5 DEF Store, RootRecords
  <2>4. \A g \in galloc : group[g].next = Null
    <3> SUFFICES ASSUME NEW g \in galloc PROVE group[g].next = Null
      OBVIOUS
    <3>1. PICK i \in DOMAIN roots[root].slots : roots[root].slots[i] = g
      BY <2>1 DEF Lists
    <3>2. i \in 1..Len(roots[root].slots)
      BY <2>3
    <3> QED
      BY <1>1, <3>1, <3>2 DEF Untrimmed
  <2>5. (\A b \in Bg : ~Working(b))'
    BY <1>1, <1>2, Quiet DEF Working
  <2>6. galloc \subseteq GroupIds
    BY <1>1 DEF Store, GroupsTyped
  <2> QED
    BY <1>2, <1>5, <2>2, <2>3, <2>4, <2>5, <2>6, NextFlatHangs
<1>10. LinksInv'
  BY <1>1, <1>9, NextLinksPhases
<1> QED
  BY <1>6, <1>7, <1>8, <1>10 DEF GroupInv

-----------------------------------------------------------------------------
(* Every reachable state.                                                   *)

\* A group as it is loaded.
Loaded(l) == [NoGroup EXCEPT !.pivot = l.pivot, !.held = l.keys, !.span = l.keys,
                             !.array = {k \in l.keys : k >= l.pivot}]

\* An element of a sequence.
LEMMA ElementOf ==
  ASSUME NEW R, NEW q \in Seq(R), NEW i \in 1..Len(q) PROVE q[i] \in R
OBVIOUS

\* A group that is loaded.
LEMMA LoadedFacts ==
  ASSUME NEW l, l.pivot \in Keys, l.keys \subseteq Keys
  PROVE  /\ Loaded(l) \in GroupRecords /\ Loaded(l).pivot = l.pivot
         /\ Loaded(l).span = Loaded(l).held /\ Loaded(l).next = Null
<1> PICK A : A = {k \in l.keys : k >= l.pivot}
  OBVIOUS
<1>1. A \subseteq Keys /\ l.pivot \in Nat
  BY RootAssumption
<1>2. Loaded(l) = [NoGroup EXCEPT !.pivot = l.pivot, !.held = l.keys, !.span = l.keys,
                                  !.array = A]
  BY DEF Loaded
<1> QED
  BY <1>1, <1>2 DEF NoGroup, GroupRecords

\* The groups that are loaded hang off slots, one each.
LEMMA InitGroupInv == Init => GroupInv
<1> SUFFICES ASSUME Init PROVE GroupInv
  OBVIOUS
<1>1. RootInv
  BY InitRootInv
<1> PICK n : n = Len(plan.groups)
  OBVIOUS
<1> PICK base : base = BgNum * Pool
  OBVIOUS
<1>2. /\ plan \in Scenarios /\ n \in 1..Pool
      /\ plan.groups \in Seq([pivot : Keys, keys : SUBSET Keys])
  BY RootAssumption DEF Init
<1>3. base \in Nat /\ GroupIds = 1..(base + Pool) /\ n \in Nat \ {0} /\ Pool \in Nat
  <2>1. BgNum \in Nat /\ Pool \in Nat
    BY RootAssumption
  <2>2. (BgNum + 1) * Pool = BgNum * Pool + Pool /\ BgNum * Pool \in Nat
    BY <2>1
  <2> QED
    BY <1>2, <2>1, <2>2 DEF GroupIds
<1>4. \A i \in 1..n : plan.groups[i] \in [pivot : Keys, keys : SUBSET Keys]
  BY <1>2, ElementOf
<1> PICK s : s = [i \in 1..n |-> base + i]
  OBVIOUS
<1>5. /\ galloc = {base + i : i \in 1..n}
      /\ roots = [r \in RootIds |-> IF r # 1 THEN NoRoot
           ELSE [pivots |-> [i \in 1..n |-> plan.groups[i].pivot], slots |-> s]]
      /\ group = [g \in GroupIds |-> IF g \notin galloc THEN NoGroup
           ELSE Loaded(plan.groups[g - base])]
  BY DEF Init, Loaded
<1>6. /\ root = 1 /\ ralloc = {1} /\ models = {1} /\ update = {} /\ bg_running = TRUE
      /\ mpc = "round" /\ adj = [b \in Bg |-> Asleep] /\ wk = [w \in Workers |-> Idle]
  BY DEF Init
<1>7. \A i \in 1..n : base + i \in GroupIds /\ (base + i) - base = i /\ base + i # Null
  BY <1>2, <1>3 DEF Null
<1>8. galloc \subseteq GroupIds
  BY <1>5, <1>7
<1>9. roots[1] = [pivots |-> [i \in 1..n |-> plan.groups[i].pivot], slots |-> s]
  BY <1>5, RootAssumption
<1>10. s \in Seq(GroupIds \cup {Null}) /\ Len(s) = n /\ DOMAIN s = 1..n
  BY <1>3, <1>7
<1>11. \A g \in galloc : group[g] = Loaded(plan.groups[g - base])
  BY <1>5, <1>8
<1>12. GroupsTyped(group, galloc)
  <2>1. NoGroup \in GroupRecords
    BY DEF NoGroup, GroupRecords, Null
  <2>2. ASSUME NEW g \in galloc
        PROVE  /\ group[g] \in GroupRecords /\ group[g].pivot \in Keys
               /\ group[g].span \subseteq group[g].held /\ group[g].next = Null
    <3>0. PICK i \in 1..n : g = base + i
      BY <1>5
    <3>1. g - base = i
      BY <1>3, <3>0
    <3> PICK l : l = plan.groups[i]
      OBVIOUS
    <3>2. l.pivot \in Keys /\ l.keys \subseteq Keys
      BY <1>4
    <3>3. group[g] = Loaded(l)
      BY <1>11, <3>1
    <3> QED
      BY <3>2, <3>3, LoadedFacts
  <2>3. \A g \in GroupIds \ galloc : group[g] = NoGroup
    BY <1>5
  <2>4. \A g \in GroupIds : group[g] \in GroupRecords
    BY <2>1, <2>2, <2>3
  <2>5. group \in [GroupIds -> GroupRecords]
    BY <1>5, <2>4
  <2> QED
    BY <1>8, <2>2, <2>3, <2>5 DEF GroupsTyped
<1>13. Store
  <2>1. [i \in 1..n |-> plan.groups[i].pivot] \in Seq(Keys)
        /\ Len([i \in 1..n |-> plan.groups[i].pivot]) = n
    BY <1>3, <1>4
  <2>2. roots[1] \in RootRecords
    BY <1>9, <1>10, <2>1 DEF RootRecords
  <2>3. NoRoot \in RootRecords
    BY DEF NoRoot, RootRecords
  <2>4. roots \in [RootIds -> RootRecords]
    BY <1>5, <1>9, <2>2, <2>3
  <2>5. /\ Len(roots[1].slots) = Len(roots[1].pivots)
        /\ Len(roots[1].slots) > 0 /\ roots[1].slots[1] # Null
    BY <1>2, <1>3, <1>7, <1>9, <1>10, <2>1
  <2>6. \A b \in Bg : adj[b].pc = "poll" /\ adj[b].old = <<>> /\ adj[b].mid = <<>>
    BY <1>6 DEF Asleep
  <2> QED
    BY <1>2, <1>6, <1>12, <2>4, <2>5, <2>6, RootAssumption DEF Store, AdjusterPlaces
<1>14. Lists(root)
  <2>1. \A i \in 1..n : s[i] = base + i
    OBVIOUS
  <2>2. \A i, j \in 1..n : base + i = base + j => i = j
    BY <1>3
  <2>3. \A i, j \in 1..n : s[i] = s[j] => i = j
    BY <2>1, <2>2
  <2>4. roots[root].slots = s
    BY <1>6, <1>9
  <2>5. \A i \in 1..n : s[i] \in galloc
    BY <1>5, <2>1
  <2>6. \A g \in galloc : \E i \in 1..n : s[i] = g
    BY <1>5, <2>1
  <2> QED
    BY <1>10, <2>3, <2>4, <2>5, <2>6 DEF Lists
<1>15. /\ \A b \in Bg : ~Working(b)
       /\ \A b \in Bg : Doomed(b) = {}
  BY <1>6 DEF Working, Doomed, Asleep
<1>16. Hangs
  <2>1. \A g \in galloc : group[g].next = Null
    BY <1>11 DEF Loaded, NoGroup
  <2>2. roots[root].slots \in Seq(GroupIds \cup {Null})
    BY <1>6, <1>9, <1>10
  <2> QED
    BY <1>8, <1>14, <1>15, <2>1, <2>2, FlatHangs
<1>17. LinksInv
  BY <1>6, <1>16, LinksPhases
<1>18. SlotsAlive
  BY <1>1, <1>6, <1>13, <1>16, HangsAlive
<1>19. Calls
  <2>1. \A w \in Workers : wk[w] = Idle
    BY <1>6
  <2>2. <<>> \in Seq(Keys)
    OBVIOUS
  <2> SUFFICES ASSUME NEW w \in Workers PROVE Call(w)
    BY DEF Calls
  <2>3. wk[w].pc = "idle" /\ wk[w].g = Null /\ wk[w].out = <<>>
    BY <2>1 DEF Idle
  <2> QED
    BY <1>15, <2>2, <2>3 DEF Call, WorkerPlaces
<1> QED
  BY <1>1, <1>13, <1>17, <1>18, <1>19 DEF GroupInv

\* Stuttering keeps the invariant.
LEMMA StutterGroups == GroupInv /\ RootInv' /\ UNCHANGED vars => GroupInv'
<1> SUFFICES ASSUME GroupInv, RootInv', UNCHANGED vars PROVE GroupInv'
  OBVIOUS
<1>1. UNCHANGED <<plan, wk, root, roots, ralloc, group, galloc, models, adj,
                  update, bg_running, mpc, new_root, wait>>
  BY DEF vars, heap, flags
<1>2. Store'
  BY <1>1 DEF GroupInv, Store, GroupsTyped
<1> QED
  BY <1>1, <1>2, SameGroups

\* Every step keeps the invariant.
LEMMA NextGroupInv == GroupInv /\ [Next]_vars => GroupInv'
<1> SUFFICES ASSUME GroupInv, [Next]_vars PROVE GroupInv'
  OBVIOUS
<1>1. RootInv'
  BY NextRootInv DEF GroupInv
<1>2. ASSUME NEW w \in Workers, Begin(w) \/ Continue(w) PROVE GroupInv'
  BY <1>1, <1>2, WorkerGroups
<1>3. ASSUME NEW b \in Bg, AdjStep(b) PROVE GroupInv'
  BY <1>1, <1>3, AdjusterGroups
<1>4. CASE StartRound \/ StopRounds \/ Collect \/ Train \/ EndRound \/ Join \/ Terminate
  BY <1>1, <1>4, SignalGroups
<1>5. CASE CreateRoot
  BY <1>1, <1>5, CreateRootGroups
<1>6. CASE SwapRoot
  BY <1>1, <1>6, SwapRootGroups
<1>7. CASE Trim
  BY <1>1, <1>7, TrimGroups
<1>8. CASE DeleteRoot
  BY <1>1, <1>8, DeleteRootGroups
<1>9. CASE UNCHANGED vars
  BY <1>1, <1>9, StutterGroups
<1> QED
  BY <1>2, <1>3, <1>4, <1>5, <1>6, <1>7, <1>8, <1>9 DEF Next, MasterStep, Ended

\* Every group in memory hangs off one slot or belongs to one adjuster, and what a
\* call holds is not freed before the call lets it go (xindex_root_impl.h:264-303,
\* 334-492, 508-571).
THEOREM GroupSafety == Spec => []GroupInv
BY InitGroupInv, NextGroupInv, PTL DEF Spec

\* Between two slots the local pointer of an adjuster is out of scope, and a step
\* on models has one old group.
Visits ==
  \A b \in Bg : /\ adj[b].pc = "slot" => adj[b].loc[1] = "slot"
                /\ adj[b].pc = "discard" => \E g : adj[b].old = <<g>>

\* Steps of adjusters keep Visits.
LEMMA NextVisits == RootInv /\ Visits /\ [Next]_vars => Visits'
<1> SUFFICES ASSUME RootInv, Visits, [Next]_vars PROVE Visits'
  OBVIOUS
<1>1. ASSUME UNCHANGED adj PROVE Visits'
  BY <1>1 DEF Visits
<1>2. ASSUME NEW w \in Workers, Begin(w) \/ Continue(w) PROVE Visits'
  BY <1>1, <1>2, WorkerSteps DEF WorkerEffect
<1>3. ASSUME NEW b \in Bg, AdjStep(b) PROVE Visits'
  <2>1. \A c \in Bg \ {b} : adj'[c] = adj[c]
    BY <1>3, AdjusterSteps DEF AdjusterEffect, RootInv
  <2>2. /\ adj'[b].pc = "slot" => adj'[b].loc[1] = "slot"
        /\ adj'[b].pc = "discard" => \E g : adj'[b].old = <<g>>
    <3> USE DEF RootInv, Shapes, AdjusterFields
    <3>1. CASE AdjBegin(b)
      BY <3>1 DEF AdjBegin, Asleep
    <3>2. CASE AdjExit(b)
      BY <3>2 DEF AdjExit
    <3>3. CASE NextSlot(b)
      BY <3>3 DEF NextSlot, Asleep
    <3>4. CASE EndChain(b)
      BY <3>4 DEF EndChain
    <3>5. CASE Skip(b)
      BY <3>5 DEF Skip, Onward
    <3>6. CASE BeginModel(b)
      BY <3>6 DEF BeginModel
    <3>7. CASE EndModel(b)
      BY <3>7 DEF EndModel
    <3>8. CASE BeginCompact(b)
      BY <3>8 DEF BeginCompact
    <3>9. CASE BeginMerge(b)
      BY <3>9 DEF BeginMerge
    <3>10. CASE BeginSplit(b)
      BY <3>10 DEF BeginSplit
    <3>11. CASE Drain(b)
      BY <3>11, ZenonT(30) DEF Drain
    <3>12. CASE Publish(b)
      BY <3>12 DEF Publish
    <3>13. CASE PublishSecond(b)
      BY <3>13 DEF PublishSecond
    <3>14. CASE Quiesce(b)
      BY <3>14 DEF Quiesce
    <3>15. CASE Settle(b)
      BY <3>15 DEF Settle, Onward
    <3> QED
      BY <1>3, <3>1, <3>2, <3>3, <3>4, <3>5, <3>6, <3>7, <3>8, <3>9, <3>10, <3>11,
         <3>12, <3>13, <3>14, <3>15 DEF AdjStep
  <2> QED
    BY <2>1, <2>2 DEF Visits
<1>4. ASSUME MasterStep \/ Terminate \/ Ended \/ UNCHANGED vars PROVE Visits'
  <2>1. UNCHANGED adj
    BY <1>4 DEF MasterStep, StartRound, StopRounds, Collect, CreateRoot, Train, SwapRoot,
                Trim, DeleteRoot, EndRound, Join, Terminate, Ended, MasterFrame, vars
  <2> QED
    BY <1>1, <2>1
<1> QED
  BY <1>2, <1>3, <1>4 DEF Next

\* Visits holds in every reachable state.
LEMMA VisitsAlways == Spec => []Visits
<1>1. ASSUME Init PROVE Visits
  <2>1. \A b \in Bg : adj[b] = Asleep
    BY <1>1 DEF Init
  <2>2. Asleep.pc = "poll"
    BY DEF Asleep
  <2> QED
    BY <2>1, <2>2 DEF Visits
<1> QED
  BY <1>1, NextVisits, RootSafety, PTL DEF Spec

\* The old groups of a job are in the share of its adjuster.
LEMMA OldShare ==
  ASSUME RootInv, Store, Visits, NEW M, NEW z, NEW p, Hang(M, z, p), NEW b \in Bg,
         NEW x \in Range(adj[b].old)
  PROVE  z[x] \in Share(b)
<1>0. adj[b].old # <<>>
  BY DEF Range
<1>1. adj[b].pc \in AdjusterPlaces \ {"poll", "exit", "slot", "group"}
  BY <1>0 DEF Store
<1>2. Working(b)
  BY <1>1 DEF Working
<1>3. Job(b, z)
  BY <1>2 DEF Hang
<1>4. \A y \in Unlinked(b) : z[y] \in Share(b)
  BY <1>3 DEF Job, Owned
<1>5. /\ adj[b].i \in Share(b)
      /\ Here(b) = Null \/ (Here(b) \in Linked /\ z[Here(b)] = adj[b].i)
  BY <1>1, <1>2, AtHand
<1>6. CASE x \in Unlinked(b)
  BY <1>4, <1>6
<1>7. CASE adj[b].pc = "discard"
  <2>1. PICK g : adj[b].old = <<g>>
    BY <1>7 DEF Visits
  <2>2. x = g /\ adj[b].old[1] = g
    BY <2>1 DEF Range
  <2> QED
    BY <1>4, <1>7, <2>2 DEF Unlinked
<1>8. CASE adj[b].pc \in {"second", "quiesce", "settle"}
  BY <1>4, <1>8 DEF Unlinked
<1>9. CASE adj[b].pc \in {"drain", "publish"}
  <2>1. Task(b)
    BY <1>3 DEF Job
  <2>2. Null \notin GroupIds
    BY LinkTypes
  <2>3. CASE \E o \in GroupIds : Compacting(b, o) /\ Here(b) = o
    <3>1. PICK o \in GroupIds : Compacting(b, o) /\ Here(b) = o
      BY <2>3
    <3>2. x = o
      BY <3>1 DEF Compacting, Range
    <3> QED
      BY <1>5, <2>2, <3>1, <3>2
  <2>4. CASE \E o, q \in GroupIds :
               /\ Merging(b, o, q) /\ Here(b) = o
               /\ \/ ByNext(b, o) /\ Links[o] = q
                  \/ BySlot(b) /\ Links[o] = Null /\ SecondSlot(b) = q
    <3>1. PICK o, q \in GroupIds :
               /\ Merging(b, o, q) /\ Here(b) = o
               /\ \/ ByNext(b, o) /\ Links[o] = q
                  \/ BySlot(b) /\ Links[o] = Null /\ SecondSlot(b) = q
      BY <2>4
    <3>2. x = o \/ x = q
      BY <3>1 DEF Merging, Range
    <3>3. o \in Linked /\ z[o] \in Share(b) /\ o # Null
      BY <1>5, <2>2, <3>1
    <3>4. CASE Links[o] = q
      BY <2>2, <3>2, <3>3, <3>4 DEF Hang, Chains
    <3>5. CASE BySlot(b) /\ SecondSlot(b) = q
      <4> PICK j : j = adj[b].i + 1
        OBVIOUS
      <4>1. j \in Share(b)
        BY <3>5 DEF BySlot
      <4>2. root \in ralloc
        BY DEF RootInv, RootsLive
      <4>3. j \in Slots /\ adj[b].i \in Slots
        BY <1>5, <4>1, <4>2, Shares
      <4>4. roots[root].slots[j + 1] = q
        <5>1. adj[b].i \in Nat
          BY <4>2, <4>3, SlotTypes
        <5>2. j + 1 = adj[b].i + 2
          BY <5>1
        <5> QED
          BY <3>5, <5>2 DEF SecondSlot
      <4>5. ~Masked(j)
        BY <1>2, <1>9, <4>1, NotMasked
      <4>6. j \in DOMAIN Heads /\ Heads[j] = q
        BY <4>2, <4>3, <4>4, <4>5, SlotTypes
      <4>7. z[q] = j
        BY <2>2, <4>6 DEF Hang, Chains
      <4> QED
        BY <3>2, <3>3, <4>1, <4>7
    <3> QED
      BY <3>1, <3>4, <3>5
  <2>5. CASE \E o, m, k \in GroupIds : Splitting(b, o, m, k) /\ Here(b) = m /\ Links[m] = k
    <3>1. PICK o, m, k \in GroupIds : Splitting(b, o, m, k)
      BY <2>5
    <3>2. x = o /\ o = adj[b].old[1] /\ adj[b].kind = "split"
      BY <3>1 DEF Splitting, Range
    <3>3. x \in Unlinked(b)
      BY <1>9, <3>2 DEF Unlinked
    <3> QED
      BY <1>4, <3>3
  <2> QED
    BY <1>9, <2>1, <2>3, <2>4, <2>5 DEF Task
<1> QED
  BY <1>1, <1>7, <1>8, <1>9 DEF AdjusterPlaces

\* What the variables of the root hold: every root and group that is led to has a
\* place in memory (xindex_root.h, xindex_impl.h:122-190).
THEOREM RootTypes == Spec => []TypeOK
<1>1. GroupInv => TypeOK
  <2> SUFFICES ASSUME GroupInv PROVE TypeOK
    OBVIOUS
  <2> USE DEF GroupInv, RootInv
  <2>1. \A w \in Workers :
          /\ wk[w].pc \in WorkerPlaces
          /\ wk[w].r \in RootIds \cup {Null} /\ wk[w].g \in GroupIds \cup {Null}
          /\ wk[w].out \in Seq(Keys)
    BY DEF Calls, Call, RootsLive, Store, GroupsTyped
  <2>2. root \in RootIds /\ ralloc \subseteq RootIds /\ models \subseteq RootIds
    BY DEF RootsLive, Store
  <2>3. \A r \in ralloc : /\ roots[r].pivots \in Seq(Keys)
                          /\ roots[r].slots \in Seq(GroupIds \cup {Null})
                          /\ Len(roots[r].slots) = Len(roots[r].pivots)
    BY DEF Store, RootRecords
  <2>4. /\ galloc \subseteq GroupIds
        /\ \A g \in galloc : /\ group[g].pivot \in Keys
                             /\ group[g].next \in GroupIds \cup {Null}
                             /\ group[g].span \subseteq group[g].held
    BY DEF Store, GroupsTyped, GroupRecords
  <2>5. /\ \A b \in Bg : adj[b].pc \in AdjusterPlaces
        /\ started \subseteq Bg /\ finished \subseteq Bg /\ update \subseteq Bg
        /\ running \in BOOLEAN /\ bg_running \in BOOLEAN
        /\ mpc \in {"round", "wait", "create", "train", "swap", "trim", "last",
                    "join", "exit"}
        /\ wait \in [0..BgNum -> SUBSET Workers]
    BY DEF Store, Shapes, Rounds
  <2> QED
    BY <2>1, <2>2, <2>3, <2>4, <2>5 DEF TypeOK
<1> QED
  BY <1>1, GroupSafety, PTL

\* Neither a call nor an adjuster holds a group that was deleted, whatever the
\* adjusters replace, split and merge meanwhile (xindex_root_impl.h:372-492).
THEOREM GroupsReclaimedSafely == Spec => []GroupsInMemory
<1>1. GroupInv /\ Visits => GroupsInMemory
  <2> SUFFICES ASSUME GroupInv, Visits PROVE GroupsInMemory
    OBVIOUS
  <2>1. \A w \in Workers : wk[w].g \in galloc \cup {Null}
    BY DEF GroupInv, Calls, Call
  <2>2. ASSUME NEW b \in Bg, Working(b), adj[b].loc[1] = "next"
        PROVE  adj[b].loc[2] \in galloc
    <3>1. mpc # "trim"
      BY <2>2 DEF GroupInv, RootInv, Rounds
    <3>2. PICK M, z, p : Hang(M, z, p)
      BY <3>1, LinksPhases DEF GroupInv, Hangs
    <3>3. adj[b].pc # "slot"
      BY <2>2 DEF Visits
    <3>4. Place(b, z)
      BY <2>2, <3>2 DEF Hang, Job
    <3>5. PICK l \in Linked : adj[b].loc = <<"next", l>>
      BY <2>2, <3>3, <3>4 DEF Place
    <3> QED
      BY <3>5, LinkTypes DEF GroupInv
  <2> QED
    BY <2>1, <2>2 DEF GroupsInMemory
<1> QED
  BY <1>1, GroupSafety, VisitsAlways, PTL

\* Two adjusters never maintain the same group (xindex_root_impl.h:334-337,
\* 405-411): what one replaces hangs off its share of the slots.
THEOREM AdjustersApart == Spec => []Exclusive
<1>1. GroupInv /\ Visits => Exclusive
  <2> SUFFICES ASSUME GroupInv, Visits, NEW b \in Bg, NEW c \in Bg, b # c,
                      NEW x \in Range(adj[b].old), x \in Range(adj[c].old)
               PROVE  FALSE
    BY DEF Exclusive
  <2>1. adj[b].old # <<>>
    BY DEF Range
  <2>2. Working(b)
    BY <2>1 DEF GroupInv, Store, Working
  <2>3. mpc # "trim" /\ root \in ralloc
    BY <2>2 DEF GroupInv, RootInv, Rounds, RootsLive
  <2>4. PICK M, z, p : Hang(M, z, p)
    BY <2>3, LinksPhases DEF GroupInv, Hangs
  <2>5. RootInv /\ Store
    BY DEF GroupInv
  <2>6. z[x] \in Share(b) /\ z[x] \in Share(c)
    BY <2>4, <2>5, OldShare
  <2> QED
    BY <2>3, <2>5, <2>6, Shares
<1> QED
  BY <1>1, GroupSafety, VisitsAlways, PTL
=============================================================================
