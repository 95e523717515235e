-------------------------- MODULE SchedulerProofs --------------------------
(***************************************************************************)
(* Theorems about Scheduler, for every pool of threads, every set of tasks *)
(* and every pattern of schedule() calls.                                  *)
(***************************************************************************)
EXTENDS Scheduler, FiniteSetTheorems, SequenceTheorems, TLAPS

(***************************************************************************)
(* Lemmas about the list and the counters                                  *)
(***************************************************************************)

\* What erasing the entry a scan found leaves in the list m_fibers.
LEMMA RemoveAtProperties ==
    ASSUME NEW S, NEW s \in Seq(S), NEW i \in 1..Len(s)
    PROVE  /\ RemoveAt(s, i) \in Seq(S)
           /\ Len(RemoveAt(s, i)) = Len(s) - 1
           /\ \A j \in 1..(Len(s) - 1) :
                 RemoveAt(s, i)[j] = IF j < i THEN s[j] ELSE s[j + 1]
<1> DEFINE l == SubSeq(s, 1, i - 1)
           r == SubSeq(s, i + 1, Len(s))
<1>1. /\ l \in Seq(S)
      /\ Len(l) = i - 1
      /\ \A j \in 1..(i - 1) : l[j] = s[j]
  BY SubSeqProperties
<1>2. /\ r \in Seq(S)
      /\ Len(r) = Len(s) - i
      /\ \A j \in 1..(Len(s) - i) : r[j] = s[i + j]
  <2>1. \A j \in (i + 1)..Len(s) : s[j] \in S
    OBVIOUS
  <2>2. /\ r \in Seq(S)
        /\ Len(r) = IF i + 1 <= Len(s) THEN Len(s) - (i + 1) + 1 ELSE 0
        /\ \A j \in 1..(Len(s) - (i + 1) + 1) : r[j] = s[(i + 1) + j - 1]
    BY <2>1, SubSeqProperties
  <2> QED BY <2>2
<1> HIDE DEF l, r
<1>3. /\ l \o r \in Seq(S)
      /\ Len(l \o r) = Len(l) + Len(r)
      /\ \A j \in 1..(Len(l) + Len(r)) :
            (l \o r)[j] = IF j <= Len(l) THEN l[j] ELSE r[j - Len(l)]
  BY <1>1, <1>2, ConcatProperties
<1>4. RemoveAt(s, i) = l \o r
  BY DEF RemoveAt, l, r
<1>5. Len(l) + Len(r) = Len(s) - 1
  BY <1>1, <1>2
<1>6. ASSUME NEW j \in 1..(Len(s) - 1)
      PROVE  (l \o r)[j] = IF j < i THEN s[j] ELSE s[j + 1]
  <2>1. CASE j < i
    <3>1. j \in 1..(i - 1)
      BY <2>1
    <3> QED BY <1>1, <1>3, <1>5, <2>1, <3>1
  <2>2. CASE j >= i
    <3>1. j - (i - 1) \in 1..(Len(s) - i)
      BY <2>2
    <3>2. (l \o r)[j] = r[j - (i - 1)]
      BY <1>1, <1>3, <1>5, <2>2
    <3>3. r[j - (i - 1)] = s[i + (j - (i - 1))]
      BY <1>2, <3>1
    <3>4. i + (j - (i - 1)) = j + 1
      OBVIOUS
    <3> QED BY <2>2, <3>2, <3>3, <3>4
  <2>3. j < i \/ j >= i
    OBVIOUS
  <2> QED BY <2>1, <2>2, <2>3
<1>7. \A j \in 1..(Len(s) - 1) :
          (l \o r)[j] = IF j < i THEN s[j] ELSE s[j + 1]
  BY <1>6
<1>8. l \o r \in Seq(S) /\ Len(l \o r) = Len(s) - 1
  BY <1>3, <1>5
<1> QED BY <1>4, <1>7, <1>8

\* The number of threads at a set of places in run() after one of them moved.
LEMMA CountMoves ==
    ASSUME pc \in [Threads -> ThreadPc], NEW t \in Threads,
           NEW loc \in ThreadPc, Goto(t, loc), NEW A
    PROVE  /\ Cardinality(At(A)) \in Nat
           /\ pc[t] \in A => Cardinality(At(A)) > 0
           /\ Cardinality(At(A)') =
                IF loc \in A
                THEN IF pc[t] \in A THEN Cardinality(At(A)) ELSE Cardinality(At(A)) + 1
                ELSE IF pc[t] \in A THEN Cardinality(At(A)) - 1 ELSE Cardinality(At(A))
<1>1. IsFiniteSet(At(A))
  BY FS_Subset, ThreadsAssumption DEF At
<1>2. /\ Cardinality(At(A)) \in Nat
      /\ At(A) # {} => Cardinality(At(A)) # 0
  BY <1>1, FS_CardinalityType, FS_EmptySet
<1>3. pc[t] \in A <=> t \in At(A)
  BY DEF At
<1>4. CASE loc \in A
  <2>1. At(A)' = At(A) \cup {t}
    BY <1>4 DEF At, Goto
  <2>2. Cardinality(At(A)') =
           IF t \in At(A) THEN Cardinality(At(A)) ELSE Cardinality(At(A)) + 1
    BY <1>1, <2>1, FS_AddElement
  <2> QED BY <1>2, <1>3, <1>4, <2>2
<1>5. CASE loc \notin A
  <2>1. At(A)' = At(A) \ {t}
    BY <1>5 DEF At, Goto
  <2>2. Cardinality(At(A)') =
           IF t \in At(A) THEN Cardinality(At(A)) - 1 ELSE Cardinality(At(A))
    BY <1>1, <2>1, FS_RemoveElement
  <2> QED BY <1>2, <1>3, <1>5, <2>2
<1> QED BY <1>4, <1>5
(***************************************************************************)
(* The counters                                                            *)
(***************************************************************************)

\* A thread's move keeps the counters exact when it changes them by as much as
\* it enters or leaves the places they count.
LEMMA ThreadMoves ==
    ASSUME CountersInv, NEW t \in Threads, NEW loc \in ThreadPc,
           pc[t] # "off", Goto(t, loc), UNCHANGED main,
           ft' \in [Threads -> Tasks \cup {Main}],
           \A u \in Threads \ {t} : ft'[u] = ft[u],
           loc \in Holding => ft'[t] \in Tasks,
           m_activeThreadCount' =
              IF loc \in Active
              THEN IF pc[t] \in Active THEN m_activeThreadCount ELSE m_activeThreadCount + 1
              ELSE IF pc[t] \in Active THEN m_activeThreadCount - 1 ELSE m_activeThreadCount,
           m_idleThreadCount' =
              IF loc = "idle"
              THEN IF pc[t] = "idle" THEN m_idleThreadCount ELSE m_idleThreadCount + 1
              ELSE IF pc[t] = "idle" THEN m_idleThreadCount - 1 ELSE m_idleThreadCount
    PROVE  /\ pc' \in [Threads -> ThreadPc]
           /\ m_activeThreadCount' \in Nat
           /\ m_idleThreadCount' \in Nat
           /\ HoldsTask' /\ NotEntered' /\ CountersExact'
<1>1. pc \in [Threads -> ThreadPc]
  BY DEF CountersInv, TypeOK
<1>2. /\ Cardinality(At(Active)) \in Nat
      /\ pc[t] \in Active => Cardinality(At(Active)) > 0
      /\ Cardinality(At(Active)') = m_activeThreadCount'
  BY <1>1, CountMoves DEF CountersInv, CountersExact
<1>3. /\ Cardinality(At({"idle"})) \in Nat
      /\ pc[t] = "idle" => Cardinality(At({"idle"})) > 0
      /\ Cardinality(At({"idle"})') = m_idleThreadCount'
  BY <1>1, CountMoves DEF CountersInv, CountersExact
<1>4. m_activeThreadCount' \in Nat /\ m_idleThreadCount' \in Nat
  BY <1>2, <1>3 DEF CountersInv, CountersExact, TypeOK
<1>5. pc' \in [Threads -> ThreadPc]
  BY <1>1 DEF Goto
<1>6. HoldsTask'
  BY <1>1 DEF CountersInv, HoldsTask, Goto
<1>7. NotEntered'
  BY <1>1 DEF CountersInv, NotEntered, Goto, Threads
<1>8. CountersExact'
  BY <1>2, <1>3 DEF CountersExact, At
<1> QED BY <1>4, <1>5, <1>6, <1>7, <1>8

\* Every step of every actor keeps the two counters exact.
LEMMA CountersStep ==
    ASSUME CountersInv, [Next]_vars
    PROVE  CountersInv'
<1> USE DEF CountersInv, FiberState, ThreadPc, Active, Holding, Ended
<1>1. CASE Owner
  <2>1. CASE Start
    <3>1. At(Active)' = At(Active) /\ At({"idle"})' = At({"idle"})
      BY <2>1 DEF Start, At, NotEntered, TypeOK, Threads
    <3>2. TypeOK' /\ HoldsTask' /\ NotEntered'
      BY <2>1, ThreadsAssumption
      DEF Start, TypeOK, HoldsTask, NotEntered, counters, script, Threads
    <3> QED BY <2>1, <3>1, <3>2 DEF Start, CountersExact, counters
  <2>2. ASSUME NEW c \in Calls, Submit(c)
        PROVE  CountersInv'
    <3>1. c.task \in Tasks /\ c.thread \in Threads \cup {AnyThread}
      BY CallsAssumption
    <3>2. m_fibers' \in Seq(FiberAndThread)
      BY <2>2, <3>1, AppendProperties DEF Submit, Enqueue, TypeOK, FiberAndThread
    <3> QED BY <2>2, <3>2
      DEF Submit, TypeOK, HoldsTask, NotEntered, CountersExact, At, counters, flags
  <2>3. CASE StopBegin
    BY <2>3 DEF StopBegin, TypeOK, HoldsTask, NotEntered, CountersExact, At,
                counters, script
  <2>4. CASE StopFlag
    BY <2>4 DEF StopFlag, TypeOK, HoldsTask, NotEntered, CountersExact, At,
                counters, script
  <2>5. CASE StopCall
    <3>1. At(Active)' = At(Active) /\ At({"idle"})' = At({"idle"})
      BY <2>5 DEF StopCall, At, NotEntered, TypeOK, Threads
    <3>2. TypeOK' /\ HoldsTask' /\ NotEntered'
      BY <2>5 DEF StopCall, TypeOK, HoldsTask, NotEntered, counters, script, Threads
    <3> QED BY <2>5, <3>1, <3>2 DEF StopCall, CountersExact, counters
  <2>6. CASE StopRootDone
    BY <2>6 DEF StopRootDone, TypeOK, HoldsTask, NotEntered, CountersExact, At,
                counters, script
  <2>7. CASE StopJoin
    BY <2>7 DEF StopJoin, TypeOK, HoldsTask, NotEntered, CountersExact, At,
                counters, script
  <2> QED BY <1>1, <2>1, <2>2, <2>3, <2>4, <2>5, <2>6, <2>7 DEF Owner
<1>2. ASSUME NEW t \in Threads, RunStep(t)
      PROVE  CountersInv'
  <2>1. CASE ScanTake(t)
    <3>1. PICK i \in DOMAIN m_fibers :
             /\ ft' = [ft EXCEPT ![t] = m_fibers[i].task]
             /\ m_fibers' = RemoveAt(m_fibers, i)
      BY <2>1 DEF ScanTake
    <3>2. m_fibers \in Seq(FiberAndThread) /\ i \in 1..Len(m_fibers)
      BY DEF TypeOK
    <3>3. m_fibers' \in Seq(FiberAndThread) /\ m_fibers[i].task \in Tasks
      <4>1. m_fibers' \in Seq(FiberAndThread)
        BY <3>1, <3>2, RemoveAtProperties
      <4>2. m_fibers[i] \in FiberAndThread
        BY <3>2
      <4> QED BY <4>1, <4>2 DEF FiberAndThread
    <3>4. /\ pc' \in [Threads -> ThreadPc]
          /\ m_activeThreadCount' \in Nat
          /\ m_idleThreadCount' \in Nat
          /\ HoldsTask' /\ NotEntered' /\ CountersExact'
      BY <2>1, <3>1, <3>3, ThreadMoves DEF ScanTake, TypeOK, flags
    <3> QED BY <2>1, <3>1, <3>3, <3>4 DEF ScanTake, TypeOK, flags, script
  <2>2. CASE ScanNone(t)
    <3>1. /\ pc' \in [Threads -> ThreadPc]
          /\ m_activeThreadCount' \in Nat
          /\ m_idleThreadCount' \in Nat
          /\ HoldsTask' /\ NotEntered' /\ CountersExact'
      BY <2>2, ThreadMoves DEF ScanNone, TypeOK, HoldsTask, flags, counters
    <3> QED BY <2>2, <3>1 DEF ScanNone, TypeOK, SetState, flags, counters, script
  <2>3. CASE Discard(t)
    <3>1. /\ pc' \in [Threads -> ThreadPc]
          /\ m_activeThreadCount' \in Nat
          /\ m_idleThreadCount' \in Nat
          /\ HoldsTask' /\ NotEntered' /\ CountersExact'
      BY <2>3, ThreadMoves DEF Discard, TypeOK, HoldsTask, flags, counters
    <3> QED BY <2>3, <3>1 DEF Discard, TypeOK, SetState, flags, counters, script
  <2>4. CASE SwapIn(t)
    <3>1. /\ pc' \in [Threads -> ThreadPc]
          /\ m_activeThreadCount' \in Nat
          /\ m_idleThreadCount' \in Nat
          /\ HoldsTask' /\ NotEntered' /\ CountersExact'
      BY <2>4, ThreadMoves DEF SwapIn, TypeOK, HoldsTask, flags, counters
    <3> QED BY <2>4, <3>1 DEF SwapIn, TypeOK, SetState, flags, counters, script
  <2>17. CASE SwapInAsserts(t)
    <3>1. /\ pc' \in [Threads -> ThreadPc]
          /\ m_activeThreadCount' \in Nat
          /\ m_idleThreadCount' \in Nat
          /\ HoldsTask' /\ NotEntered' /\ CountersExact'
      BY <2>17, ThreadMoves DEF SwapInAsserts, TypeOK, HoldsTask, flags, counters
    <3> QED BY <2>17, <3>1 DEF SwapInAsserts, TypeOK, flags, counters, script
  <2>5. ASSUME NEW c \in Calls, Spawn(t, c)
        PROVE  CountersInv'
    <3>1. c.task \in Tasks /\ c.thread \in Threads \cup {AnyThread}
      BY CallsAssumption
    <3>2. m_fibers' \in Seq(FiberAndThread)
      BY <2>5, <3>1, AppendProperties DEF Spawn, Enqueue, TypeOK, FiberAndThread
    <3> QED BY <2>5, <3>2
      DEF Spawn, TypeOK, HoldsTask, NotEntered, CountersExact, At, counters, flags
  <2>6. CASE Finish(t)
    <3>1. /\ pc' \in [Threads -> ThreadPc]
          /\ m_activeThreadCount' \in Nat
          /\ m_idleThreadCount' \in Nat
          /\ HoldsTask' /\ NotEntered' /\ CountersExact'
      BY <2>6, ThreadMoves DEF Finish, TypeOK, HoldsTask, flags, counters
    <3> QED BY <2>6, <3>1 DEF Finish, TypeOK, SetState, flags, counters, script
  <2>7. CASE YieldToReady(t)
    <3>1. /\ pc' \in [Threads -> ThreadPc]
          /\ m_activeThreadCount' \in Nat
          /\ m_idleThreadCount' \in Nat
          /\ HoldsTask' /\ NotEntered' /\ CountersExact'
      BY <2>7, ThreadMoves DEF YieldToReady, TypeOK, HoldsTask, flags, counters
    <3>2. yields' \in [Tasks -> 0..MaxYields]
      BY <2>7, TasksAssumption DEF YieldToReady, TypeOK, HoldsTask
    <3>3. m_state' \in [Tasks -> FiberState]
      BY <2>7 DEF YieldToReady, SetState, TypeOK
    <3> QED BY <2>7, <3>1, <3>2, <3>3 DEF YieldToReady, TypeOK, flags, counters
  <2>8. CASE Await(t)
    <3>1. /\ pc' \in [Threads -> ThreadPc]
          /\ m_activeThreadCount' \in Nat
          /\ m_idleThreadCount' \in Nat
          /\ HoldsTask' /\ NotEntered' /\ CountersExact'
      BY <2>8, ThreadMoves DEF Await, TypeOK, HoldsTask, flags, counters
    <3> QED BY <2>8, <3>1, TasksAssumption DEF Await, TypeOK, SetState, flags, counters, script
  <2>9. CASE YieldToHold(t)
    <3>1. /\ pc' \in [Threads -> ThreadPc]
          /\ m_activeThreadCount' \in Nat
          /\ m_idleThreadCount' \in Nat
          /\ HoldsTask' /\ NotEntered' /\ CountersExact'
      BY <2>9, ThreadMoves DEF YieldToHold, TypeOK, HoldsTask, flags, counters
    <3> QED BY <2>9, <3>1 DEF YieldToHold, TypeOK, SetState, flags, counters, script
  <2>10. CASE SwapOut(t)
    <3>1. /\ pc' \in [Threads -> ThreadPc]
          /\ m_activeThreadCount' \in Nat
          /\ m_idleThreadCount' \in Nat
          /\ HoldsTask' /\ NotEntered' /\ CountersExact'
      BY <2>10, ThreadMoves DEF SwapOut, TypeOK, HoldsTask, flags, counters
    <3> QED BY <2>10, <3>1 DEF SwapOut, TypeOK, SetState, flags, counters, script
  <2>11. CASE Back(t)
    <3>1. /\ pc' \in [Threads -> ThreadPc]
          /\ m_activeThreadCount' \in Nat
          /\ m_idleThreadCount' \in Nat
          /\ HoldsTask' /\ NotEntered' /\ CountersExact'
      BY <2>11, ThreadMoves DEF Back, TypeOK, HoldsTask, flags, counters
    <3> QED BY <2>11, <3>1 DEF Back, TypeOK, SetState, flags, counters, script
  <2>12. CASE Requeue(t)
    <3>1. /\ pc' \in [Threads -> ThreadPc]
          /\ m_activeThreadCount' \in Nat
          /\ m_idleThreadCount' \in Nat
          /\ HoldsTask' /\ NotEntered' /\ CountersExact'
      BY <2>12, ThreadMoves DEF Requeue, TypeOK, HoldsTask, flags, counters
    <3>2. [task |-> ft[t], thread |-> AnyThread] \in FiberAndThread
      BY <2>12 DEF Requeue, HoldsTask, FiberAndThread
    <3>3. m_fibers' \in Seq(FiberAndThread)
      BY <2>12, <3>2, AppendProperties DEF Requeue, Enqueue, TypeOK
    <3> QED BY <2>12, <3>1, <3>3 DEF Requeue, TypeOK, flags, counters, script
  <2>13. CASE AfterSwap(t)
    <3>1. /\ pc' \in [Threads -> ThreadPc]
          /\ m_activeThreadCount' \in Nat
          /\ m_idleThreadCount' \in Nat
          /\ HoldsTask' /\ NotEntered' /\ CountersExact'
      BY <2>13, ThreadMoves DEF AfterSwap, TypeOK, HoldsTask, flags, counters
    <3> QED BY <2>13, <3>1 DEF AfterSwap, TypeOK, SetState, flags, counters, script
  <2>14. CASE StoreHold(t)
    <3>1. /\ pc' \in [Threads -> ThreadPc]
          /\ m_activeThreadCount' \in Nat
          /\ m_idleThreadCount' \in Nat
          /\ HoldsTask' /\ NotEntered' /\ CountersExact'
      BY <2>14, ThreadMoves DEF StoreHold, TypeOK, HoldsTask, flags, counters
    <3> QED BY <2>14, <3>1 DEF StoreHold, TypeOK, SetState, flags, counters, script
  <2>15. CASE EnterIdle(t)
    <3>1. /\ pc' \in [Threads -> ThreadPc]
          /\ m_activeThreadCount' \in Nat
          /\ m_idleThreadCount' \in Nat
          /\ HoldsTask' /\ NotEntered' /\ CountersExact'
      BY <2>15, ThreadMoves DEF EnterIdle, TypeOK, HoldsTask, flags, counters
    <3> QED BY <2>15, <3>1 DEF EnterIdle, TypeOK, SetState, flags, counters, script
  <2>16. CASE IdleStep(t)
    <3>1. /\ pc' \in [Threads -> ThreadPc]
          /\ m_activeThreadCount' \in Nat
          /\ m_idleThreadCount' \in Nat
          /\ HoldsTask' /\ NotEntered' /\ CountersExact'
      BY <2>16, ThreadMoves DEF IdleStep, TypeOK, HoldsTask, flags, counters
    <3>2. Stopping \in BOOLEAN
      BY DEF Stopping, TypeOK
    <3> QED BY <2>16, <3>1, <3>2 DEF IdleStep, TypeOK, flags, counters, script
  <2> QED
    BY <1>2, <2>1, <2>2, <2>3, <2>4, <2>5, <2>6, <2>7, <2>8, <2>9, <2>10, <2>11,
       <2>12, <2>13, <2>14, <2>15, <2>16, <2>17 DEF RunStep
<1>3. ASSUME NEW f \in Tasks, Fire(f)
      PROVE  CountersInv'
  <2>1. [task |-> f, thread |-> AnyThread] \in FiberAndThread
    BY DEF FiberAndThread
  <2>2. m_fibers' \in Seq(FiberAndThread)
    BY <1>3, <2>1, AppendProperties DEF Fire, Enqueue, TypeOK
  <2> QED BY <1>3, <2>2
    DEF Fire, TypeOK, HoldsTask, NotEntered, CountersExact, At, counters, flags
<1>4. CASE UNCHANGED vars
  BY <1>4 DEF vars, TypeOK, HoldsTask, NotEntered, CountersExact, At
<1> QED BY <1>1, <1>2, <1>3, <1>4 DEF Next, Terminated

\* No thread is in run() yet.
LEMMA CountersInit ==
    ASSUME Init PROVE CountersInv
<1>1. TypeOK
  <2>1. m_fibers \in Seq(FiberAndThread)
    BY DEF Init
  <2>2. yields \in [Tasks -> 0..MaxYields]
    BY TasksAssumption DEF Init
  <2> QED BY <2>1, <2>2 DEF Init, TypeOK, FiberState, ThreadPc
<1>2. HoldsTask /\ NotEntered
  BY DEF Init, HoldsTask, NotEntered, Holding, Active, Threads
<1>3. At(Active) = {} /\ At({"idle"}) = {}
  BY DEF Init, At, Active
<1> QED BY <1>1, <1>2, <1>3, FS_EmptySet DEF Init, CountersInv, CountersExact

\* m_activeThreadCount and m_idleThreadCount are exact in every reachable
\* state, so stopping() never misses a running task.
THEOREM CountersCorrect == Spec => []CountersExact
<1>1. Init => CountersInv
  BY CountersInit
<1>2. CountersInv /\ [Next]_vars => CountersInv'
  BY CountersStep
<1>3. CountersInv => CountersExact
  BY DEF CountersInv
<1> QED BY <1>1, <1>2, <1>3, PTL DEF Spec

\* The list, the counters and the fiber states keep their types; the counters, which
\* run() changes outside the mutex, never go below 0.
THEOREM SchedulerTypeCorrect == Spec => []TypeOK
<1>1. CountersInv => TypeOK
  BY DEF CountersInv
<1> QED BY <1>1, CountersInit, CountersStep, PTL DEF Spec

(***************************************************************************)
(* Every task is owned once                                                *)
(***************************************************************************)

\* The entries of the list are tasks with a thread id.
LEMMA ListTyped ==
    ASSUME TypeOK
    PROVE  \A i \in DOMAIN m_fibers : m_fibers[i].task \in Tasks
<1>1. \A i \in DOMAIN m_fibers : m_fibers[i] \in FiberAndThread
  BY DEF TypeOK
<1> QED BY <1>1 DEF FiberAndThread

\* Scheduling a task that nobody owns keeps every task owned once.
LEMMA OwnedEnqueue ==
    ASSUME OwnedOnce, NEW f \in Tasks, NEW th \in Threads \cup {AnyThread},
           Enqueue(f, th), ~Queued(f), m_state[f] \in {"INIT", "READY"}
    PROVE  /\ QueueDistinct'
           /\ \A g : Queued(g)' <=> Queued(g) \/ g = f
           /\ \A i \in DOMAIN m_fibers' : m_fibers'[i].task = f
                                       \/ \E j \in DOMAIN m_fibers : m_fibers'[i] = m_fibers[j]
<1> DEFINE e == [task |-> f, thread |-> th]
<1>1. e \in FiberAndThread /\ e.task = f
  BY DEF FiberAndThread
<1>2. m_fibers \in Seq(FiberAndThread)
  BY DEF OwnedOnce, CountersInv, TypeOK
<1> HIDE DEF e
<1>3. /\ m_fibers' \in Seq(FiberAndThread)
      /\ Len(m_fibers') = Len(m_fibers) + 1
      /\ \A i \in 1..Len(m_fibers) : m_fibers'[i] = m_fibers[i]
      /\ m_fibers'[Len(m_fibers) + 1] = e
  BY <1>1, <1>2, AppendProperties DEF Enqueue, e
<1>4. /\ DOMAIN m_fibers = 1..Len(m_fibers)
      /\ DOMAIN m_fibers' = 1..(Len(m_fibers) + 1)
      /\ Len(m_fibers) \in Nat
  BY <1>2, <1>3
<1>5. \A i \in DOMAIN m_fibers : m_fibers[i].task # f
  BY DEF Queued
<1>6. QueueDistinct'
  BY <1>1, <1>3, <1>4, <1>5 DEF OwnedOnce, QueueDistinct
<1>7. \A g : Queued(g)' <=> Queued(g) \/ g = f
  BY <1>1, <1>3, <1>4 DEF Queued
<1>8. \A i \in DOMAIN m_fibers' : m_fibers'[i].task = f
                                \/ \E j \in DOMAIN m_fibers : m_fibers'[i] = m_fibers[j]
  BY <1>1, <1>3, <1>4
<1> QED BY <1>6, <1>7, <1>8

\* A thread that moves on with the task it holds, or without one, keeps every
\* task owned once; the list and the calls to come are unchanged.
LEMMA OwnedMoves ==
    ASSUME OwnedOnce, CountersInv', NEW t \in Threads, NEW loc \in ThreadPc,
           Goto(t, loc), UNCHANGED <<m_fibers, ft, armed, calls>>,
           pc[t] \in Holding \/ loc \notin Holding,
           loc \notin {"await", "hold", "aborted"},
           m_state' \in [Tasks -> FiberState],
           \A f \in Tasks : (pc[t] \notin Holding \/ f # ft[t]) => m_state'[f] = m_state[f],
           loc = "got" => m_state'[ft[t]] \in {"INIT", "READY"},
           loc = "run" => m_state'[ft[t]] = "EXEC",
           loc \in {"leave", "back", "after"} => m_state'[ft[t]] \in {"READY"} \cup Ended,
           pc[t] \in Holding /\ loc \notin Holding => m_state'[ft[t]] \in Ended
    PROVE  OwnedOnce'
<1> USE DEF OwnedOnce
<1>1. pc \in [Threads -> ThreadPc] /\ HoldsTask /\ pc' = [pc EXCEPT ![t] = loc]
  BY DEF CountersInv, TypeOK, Goto
<1>2. \A i \in DOMAIN m_fibers : m_fibers[i].task \in Tasks
  BY ListTyped DEF CountersInv
<1>3. \A c \in Calls : c.task \in Tasks
  BY CallsAssumption
<1>4. \A f : Held(f)' => Held(f)
  BY <1>1 DEF Held
<1>5. \A f : Held(f) => Held(f)' \/ (f = ft[t] /\ pc[t] \in Holding /\ loc \notin Holding)
  BY <1>1 DEF Held
<1>6. \A f : Queued(f)' = Queued(f)
  BY DEF Queued
<1>7. pc[t] \in Holding => Held(ft[t])
  BY DEF Held
<1>8. calls \subseteq Calls
  BY DEF CountersInv, TypeOK
<1>9. StateKnown'
  BY <1>1 DEF StateKnown, HeldDistinct, Holding, Active, HoldsTask
<1>10. QueueDistinct'
  BY DEF QueueDistinct
<1>11. QueuedFree'
  BY <1>2, <1>4, <1>7 DEF QueuedFree
<1>12. HeldDistinct'
  BY <1>1 DEF HeldDistinct
<1>13. Unseen'
  BY <1>3, <1>4, <1>6, <1>7, <1>8 DEF Unseen
<1>14. NoLostTask'
  BY <1>1, <1>3, <1>5, <1>6, <1>7 DEF NoLostTask, HoldsTask, Ended
<1> QED BY <1>9, <1>10, <1>11, <1>12, <1>13, <1>14

\* A schedule() call by the owner or by a running task keeps every task owned
\* once.
LEMMA OwnedCall ==
    ASSUME OwnedOnce, CountersInv', OneCallEach, NEW c \in calls,
           calls' = calls \ {c}, Enqueue(c.task, c.thread),
           UNCHANGED <<m_state, pc, ft, armed>>
    PROVE  OwnedOnce'
<1> USE DEF OwnedOnce
<1>1. /\ calls \subseteq Calls
      /\ c.task \in Tasks
      /\ c.thread \in Threads \cup {AnyThread}
  BY CallsAssumption DEF CountersInv, TypeOK
<1>2. ~Queued(c.task) /\ ~Held(c.task) /\ m_state[c.task] = "INIT"
  BY DEF Unseen
<1>3. /\ QueueDistinct'
      /\ \A g : Queued(g)' <=> Queued(g) \/ g = c.task
      /\ \A i \in DOMAIN m_fibers' : m_fibers'[i].task = c.task
                                  \/ \E j \in DOMAIN m_fibers : m_fibers'[i] = m_fibers[j]
  BY <1>1, <1>2, OwnedEnqueue
<1>4. \A g : Held(g)' = Held(g)
  BY DEF Held
<1>5. StateKnown' /\ HeldDistinct'
  BY DEF StateKnown, HeldDistinct
<1>6. QueuedFree'
  BY <1>2, <1>3, <1>4 DEF QueuedFree
<1>7. Unseen'
  BY <1>1, <1>3, <1>4 DEF Unseen, OneCallEach
<1>8. NoLostTask'
  BY <1>3, <1>4 DEF NoLostTask
<1> QED BY <1>3, <1>5, <1>6, <1>7, <1>8

\* Taking a task off the list hands it from the list to one thread.
LEMMA OwnedTake ==
    ASSUME OwnedOnce, CountersInv', NEW t \in Threads, ScanTake(t)
    PROVE  OwnedOnce'
<1> USE DEF OwnedOnce
<1>1. PICK i \in DOMAIN m_fibers :
         /\ ft' = [ft EXCEPT ![t] = m_fibers[i].task]
         /\ m_fibers' = RemoveAt(m_fibers, i)
  BY DEF ScanTake
<1>2. /\ pc \in [Threads -> ThreadPc] /\ ft \in [Threads -> Tasks \cup {Main}]
      /\ pc[t] = "scan" /\ pc' = [pc EXCEPT ![t] = "got"]
      /\ UNCHANGED <<m_state, armed, calls>>
  BY DEF ScanTake, Goto, CountersInv, TypeOK, script
<1>3. m_fibers \in Seq(FiberAndThread) /\ i \in 1..Len(m_fibers)
  BY DEF CountersInv, TypeOK
<1>4. /\ Len(m_fibers') = Len(m_fibers) - 1
      /\ \A j \in 1..(Len(m_fibers) - 1) :
            m_fibers'[j] = IF j < i THEN m_fibers[j] ELSE m_fibers[j + 1]
      /\ m_fibers' \in Seq(FiberAndThread)
  BY <1>1, <1>3, RemoveAtProperties
<1>5. /\ DOMAIN m_fibers = 1..Len(m_fibers)
      /\ DOMAIN m_fibers' = 1..(Len(m_fibers) - 1)
      /\ Len(m_fibers) \in Nat
  BY <1>3, <1>4
<1>6. PICK f \in Tasks : /\ f = m_fibers[i].task
                        /\ m_state[f] \in {"INIT", "READY"}
                        /\ ~Held(f)
  BY ListTyped DEF CountersInv, QueuedFree
<1>7. \A j \in DOMAIN m_fibers' :
         \E k \in DOMAIN m_fibers : k # i /\ m_fibers'[j] = m_fibers[k]
  BY <1>3, <1>4, <1>5, SMTT(20)
<1>8. \A k \in DOMAIN m_fibers :
         k # i => \E j \in DOMAIN m_fibers' : m_fibers'[j] = m_fibers[k]
  <2> SUFFICES ASSUME NEW k \in DOMAIN m_fibers, k # i
               PROVE  \E j \in DOMAIN m_fibers' : m_fibers'[j] = m_fibers[k]
    OBVIOUS
  <2>1. CASE k < i
    BY <2>1, <1>3, <1>4, <1>5
  <2>2. CASE k > i
    <3>1. k - 1 \in 1..(Len(m_fibers) - 1) /\ ~(k - 1 < i) /\ (k - 1) + 1 = k
      BY <2>2, <1>3, <1>5
    <3> QED BY <3>1, <1>4, <1>5
  <2> QED BY <2>1, <2>2, <1>3, <1>5
<1>9. \A g : Queued(g) <=> Queued(g)' \/ g = f
  BY <1>6, <1>7, <1>8 DEF Queued
<1>10. \A g : Held(g)' <=> Held(g) \/ g = f
  BY <1>1, <1>2, <1>6 DEF Held, Holding, Active
<1>11. StateKnown'
  BY <1>1, <1>2, <1>6 DEF StateKnown
<1>12. QueueDistinct'
  <2> SUFFICES ASSUME NEW j \in DOMAIN m_fibers', NEW k \in DOMAIN m_fibers',
                      m_fibers'[j].task = m_fibers'[k].task
               PROVE  j = k
    BY DEF QueueDistinct
  <2> DEFINE old(n) == IF n < i THEN n ELSE n + 1
  <2>1. /\ old(j) \in DOMAIN m_fibers /\ m_fibers'[j] = m_fibers[old(j)]
        /\ old(k) \in DOMAIN m_fibers /\ m_fibers'[k] = m_fibers[old(k)]
    BY <1>3, <1>4, <1>5
  <2>2. old(j) = old(k)
    <3> HIDE DEF old
    <3> QED BY <2>1 DEF QueueDistinct
  <2> QED BY <2>2, <1>3, <1>5
<1>13. ~Queued(f)'
  BY <1>6, <1>7 DEF Queued, QueueDistinct
<1>14. QueuedFree'
  BY <1>2, <1>6, <1>7, <1>10, <1>13 DEF QueuedFree, Queued
<1>15. HeldDistinct'
  BY <1>1, <1>2, <1>6 DEF HeldDistinct, Held, Holding, Active
<1>16. Queued(f)
  BY <1>6 DEF Queued
<1>17. Unseen'
  BY <1>2, <1>9, <1>10, <1>16 DEF Unseen
<1>18. NoLostTask'
  BY <1>2, <1>9, <1>10 DEF NoLostTask
<1> QED BY <1>2, <1>11, <1>12, <1>14, <1>15, <1>17, <1>18

\* A READY fiber goes from the thread that ran it to the list.
LEMMA OwnedRequeue ==
    ASSUME OwnedOnce, CountersInv', NEW t \in Threads, Requeue(t)
    PROVE  OwnedOnce'
<1> USE DEF OwnedOnce
<1> DEFINE f == ft[t]
<1>1. /\ pc \in [Threads -> ThreadPc] /\ pc[t] = "after"
      /\ pc' = [pc EXCEPT ![t] = "scan"]
      /\ m_state[f] = "READY" /\ f \in Tasks /\ Enqueue(f, AnyThread)
      /\ UNCHANGED <<m_state, ft, armed, calls>>
  BY DEF Requeue, Goto, CountersInv, TypeOK, HoldsTask, Holding, script
<1> HIDE DEF f
<1>2. Held(f)
  BY <1>1 DEF Held, Holding, f
<1>3. ~Queued(f)
  BY <1>2 DEF Queued, QueuedFree
<1>4. /\ QueueDistinct'
      /\ \A g : Queued(g)' <=> Queued(g) \/ g = f
      /\ \A i \in DOMAIN m_fibers' : m_fibers'[i].task = f
                                  \/ \E j \in DOMAIN m_fibers : m_fibers'[i] = m_fibers[j]
  BY <1>1, <1>3, OwnedEnqueue
<1>5. \A g : Held(g)' <=> Held(g) /\ g # f
  BY <1>1 DEF Held, Holding, Active, HeldDistinct, f
<1>6. StateKnown' /\ HeldDistinct'
  BY <1>1 DEF StateKnown, HeldDistinct, Holding, Active
<1>7. QueuedFree'
  BY <1>1, <1>4, <1>5 DEF QueuedFree
<1>8. Unseen'
  BY <1>1, <1>2, <1>4, <1>5 DEF Unseen
<1>9. NoLostTask'
  BY <1>1, <1>4, <1>5 DEF NoLostTask
<1> QED BY <1>1, <1>4, <1>6, <1>7, <1>8, <1>9

\* Every step of every actor keeps every task owned once.
LEMMA OwnedStep ==
    ASSUME OneCallEach, OwnedOnce, [Next]_vars
    PROVE  OwnedOnce'
<1>0. CountersInv'
  BY CountersStep DEF OwnedOnce
<1>1. CASE Owner
  <2>1. ASSUME NEW c \in Calls, Submit(c)
        PROVE  OwnedOnce'
    BY <2>1, <1>0, OwnedCall DEF Submit
  <2>2. ASSUME pc' \in [Threads -> ThreadPc],
               \A t \in Threads : pc'[t] = pc[t] \/ (pc[t] = "off" /\ pc'[t] = "scan"),
               UNCHANGED <<m_fibers, m_state, ft, armed, calls>>
        PROVE  OwnedOnce'
    <3>1. \A f : Held(f)' = Held(f)
      BY <2>2 DEF Held, Holding, Active
    <3>2. \A f : Queued(f)' = Queued(f)
      BY <2>2 DEF Queued
    <3>3. StateKnown' /\ HeldDistinct' /\ QueueDistinct'
      BY <2>2 DEF OwnedOnce, StateKnown, HeldDistinct, QueueDistinct, Holding, Active
    <3>4. QueuedFree' /\ Unseen' /\ NoLostTask'
      BY <2>2, <3>1, <3>2 DEF OwnedOnce, QueuedFree, Unseen, NoLostTask
    <3> QED BY <1>0, <2>2, <3>3, <3>4 DEF OwnedOnce
  <2>3. CASE Start
    BY <2>2, <2>3, <1>0
    DEF Start, OwnedOnce, CountersInv, TypeOK, NotEntered, script
  <2>4. CASE StopCall
    BY <2>2, <2>4, <1>0 DEF StopCall, OwnedOnce, CountersInv, TypeOK, NotEntered, script
  <2>5. CASE StopBegin \/ StopFlag \/ StopRootDone \/ StopJoin
    BY <2>2, <2>5
    DEF StopBegin, StopFlag, StopRootDone, StopJoin, OwnedOnce, CountersInv, TypeOK, script
  <2> QED BY <1>1, <2>1, <2>3, <2>4, <2>5 DEF Owner
<1>2. ASSUME NEW t \in Threads, RunStep(t)
      PROVE  OwnedOnce'
  <2>1. CASE ScanTake(t)
    BY <2>1, <1>0, OwnedTake
  <2>2. CASE ScanNone(t)
    BY <2>2, <1>0, OwnedMoves DEF ScanNone, OwnedOnce, CountersInv, TypeOK, HoldsTask,
       StateKnown, SetState, ThreadPc, FiberState, Holding, Active, Ended, script
  <2>3. CASE Discard(t)
    BY <2>3 DEF Discard, OwnedOnce, StateKnown, Ended
  <2>4. CASE SwapIn(t)
    BY <2>4, <1>0, OwnedMoves DEF SwapIn, OwnedOnce, CountersInv, TypeOK, HoldsTask,
       StateKnown, SetState, ThreadPc, FiberState, Holding, Active, Ended, script
  <2>17. CASE SwapInAsserts(t)
    BY <2>17 DEF SwapInAsserts, OwnedOnce, StateKnown
  <2>5. ASSUME NEW c \in Calls, Spawn(t, c)
        PROVE  OwnedOnce'
    BY <2>5, <1>0, OwnedCall DEF Spawn
  <2>6. CASE Finish(t)
    BY <2>6, <1>0, OwnedMoves DEF Finish, OwnedOnce, CountersInv, TypeOK, HoldsTask,
       StateKnown, SetState, ThreadPc, FiberState, Holding, Active, Ended, script
  <2>7. CASE YieldToReady(t)
    BY <2>7, <1>0, OwnedMoves DEF YieldToReady, OwnedOnce, CountersInv, TypeOK, HoldsTask,
       StateKnown, SetState, ThreadPc, FiberState, Holding, Active, Ended, script
  <2>8. CASE Await(t)
    BY <2>8 DEF Await, OneCallEach
  <2>9. CASE YieldToHold(t)
    BY <2>9 DEF YieldToHold, OwnedOnce, StateKnown
  <2>10. CASE SwapOut(t)
    BY <2>10, <1>0, OwnedMoves DEF SwapOut, OwnedOnce, CountersInv, TypeOK, HoldsTask,
       StateKnown, SetState, ThreadPc, FiberState, Holding, Active, Ended, script
  <2>11. CASE Back(t)
    BY <2>11, <1>0, OwnedMoves DEF Back, OwnedOnce, CountersInv, TypeOK, HoldsTask,
       StateKnown, SetState, ThreadPc, FiberState, Holding, Active, Ended, script
  <2>12. CASE Requeue(t)
    BY <2>12, <1>0, OwnedRequeue
  <2>13. CASE AfterSwap(t)
    BY <2>13, <1>0, OwnedMoves DEF AfterSwap, OwnedOnce, CountersInv, TypeOK, HoldsTask,
       StateKnown, SetState, ThreadPc, FiberState, Holding, Active, Ended, script
  <2>14. CASE StoreHold(t)
    BY <2>14 DEF StoreHold, OwnedOnce, StateKnown
  <2>15. CASE EnterIdle(t)
    BY <2>15, <1>0, OwnedMoves DEF EnterIdle, OwnedOnce, CountersInv, TypeOK, HoldsTask,
       StateKnown, SetState, ThreadPc, FiberState, Holding, Active, Ended, script
  <2>16. CASE IdleStep(t)
    BY <2>16, <1>0, OwnedMoves DEF IdleStep, OwnedOnce, CountersInv, TypeOK, HoldsTask,
       StateKnown, SetState, ThreadPc, FiberState, Holding, Active, Ended, script
  <2> QED
    BY <1>2, <2>1, <2>2, <2>3, <2>4, <2>5, <2>6, <2>7, <2>8, <2>9, <2>10, <2>11,
       <2>12, <2>13, <2>14, <2>15, <2>16, <2>17 DEF RunStep
<1>3. ASSUME NEW f \in Tasks, Fire(f)
      PROVE  OwnedOnce'
  BY <1>3 DEF Fire, OwnedOnce
<1>4. CASE UNCHANGED vars
  BY <1>4, <1>0 DEF vars, OwnedOnce, StateKnown, QueueDistinct, QueuedFree,
     HeldDistinct, Unseen, NoLostTask, Queued, Held
<1> QED BY <1>1, <1>2, <1>3, <1>4 DEF Next, Terminated

\* In the initial state nothing is owned.
LEMMA OwnedInit ==
    ASSUME Init PROVE OwnedOnce
<1>1. CountersInv
  BY CountersInit
<1>2. \A c \in Calls : c.task \in Tasks
  BY CallsAssumption
<1>3. m_fibers = <<>> /\ DOMAIN m_fibers = {}
  BY DEF Init
<1> QED BY <1>1, <1>2, <1>3 DEF Init, OwnedOnce, StateKnown, QueueDistinct, QueuedFree,
     HeldDistinct, Unseen, NoLostTask, Queued, Held, Holding, Active

\* With one schedule() call for each task and no waiting task, a fiber is never
\* on two threads at once, whatever the number of threads.
THEOREM OneRunnerCorrect ==
    ASSUME OneCallEach
    PROVE  Spec => []OneRunner
<1>1. OwnedOnce => OneRunner
  BY DEF OwnedOnce, OneRunner, HeldDistinct, OnStack, Holding, Active
<1> QED BY <1>1, OwnedInit, OwnedStep, PTL DEF Spec

\* Under the same assumption the code of a fiber always finds its m_state EXEC.
THEOREM RunningIsExecCorrect ==
    ASSUME OneCallEach
    PROVE  Spec => []RunningIsExec
<1>1. OwnedOnce => RunningIsExec
  BY DEF OwnedOnce, RunningIsExec, StateKnown
<1> QED BY <1>1, OwnedInit, OwnedStep, PTL DEF Spec

\* Under the same assumption no scheduled task is ever lost.
THEOREM NoLostTaskCorrect ==
    ASSUME OneCallEach
    PROVE  Spec => []NoLostTask
<1>1. OwnedOnce => NoLostTask
  BY DEF OwnedOnce
<1> QED BY <1>1, OwnedInit, OwnedStep, PTL DEF Spec

\* Under the same assumption a fiber that ended keeps its state for ever.
THEOREM EndedStaysCorrect ==
    ASSUME OneCallEach
    PROVE  Spec => EndedStays
<1>1. ASSUME OwnedOnce, [Next]_vars
      PROVE  [\A f \in Tasks : m_state[f] \in Ended => m_state'[f] = m_state[f]]_vars
  <2> SUFFICES ASSUME NEW f \in Tasks, m_state[f] \in Ended, m_state' # m_state
               PROVE  m_state'[f] = m_state[f]
    BY DEF vars
  <2>1. PICK t \in Threads : RunStep(t)
    BY <1>1 DEF Next, Owner, Start, Submit, StopBegin, StopFlag, StopCall, StopRootDone,
       StopJoin, Fire, Terminated, vars
  <2>2. SwapIn(t) \/ Finish(t) \/ YieldToReady(t) \/ YieldToHold(t) \/ StoreHold(t)
    BY <2>1 DEF RunStep, ScanTake, ScanNone, Discard, SwapInAsserts, Spawn, Await, SwapOut, Back,
       Requeue, AfterSwap, EnterIdle, IdleStep
  <2>3. ft[t] # f
    BY <1>1, <2>2 DEF OwnedOnce, StateKnown, SwapIn, Finish, YieldToReady, YieldToHold,
       StoreHold, Ended
  <2> QED BY <1>1, <2>2, <2>3 DEF SwapIn, Finish, YieldToReady, YieldToHold, StoreHold,
       SetState, OwnedOnce, CountersInv, TypeOK
<1> QED BY <1>1, OwnedInit, OwnedStep, PTL DEF Spec, EndedStays

(***************************************************************************)
(* stop() drains the list                                                  *)
(***************************************************************************)

\* The progress of stop() is recorded correctly by every step.
LEMMA ShutdownStep ==
    ASSUME CountersInv, Shutdown, [Next]_vars
    PROVE  Shutdown'
<1> USE DEF CountersInv, Shutdown, Threads
<1>1. CASE Owner
  <2>1. ASSUME NEW c \in Calls, Submit(c)
        PROVE  Shutdown'
    BY <2>1 DEF Submit, flags
  <2>2. CASE Start
    BY <2>2, ThreadsAssumption DEF Start, NotEntered, TypeOK
  <2>3. CASE StopBegin
    BY <2>3 DEF StopBegin
  <2>4. CASE StopFlag
    BY <2>4 DEF StopFlag, NotEntered, TypeOK
  <2>5. CASE StopCall
    BY <2>5, ThreadsAssumption DEF StopCall, NotEntered, TypeOK
  <2>6. CASE StopRootDone
    BY <2>6 DEF StopRootDone
  <2>7. CASE StopJoin
    BY <2>7 DEF StopJoin
  <2> QED BY <1>1, <2>1, <2>2, <2>3, <2>4, <2>5, <2>6, <2>7 DEF Owner
<1>2. ASSUME NEW t \in Threads, RunStep(t)
      PROVE  Shutdown'
  <2>1. ASSUME NEW loc \in ThreadPc, Goto(t, loc), UNCHANGED <<m_autoStop, main, idleTerm>>,
               loc # "off", pc[t] \notin {"off", "exited"}, loc = "exited" => idleTerm[t]
        PROVE  Shutdown'
    BY <2>1 DEF Goto, TypeOK
  <2>2. CASE IdleStep(t)
    BY <2>2 DEF IdleStep, Goto, TypeOK, Stopping, flags
  <2>3. ASSUME NEW c \in Calls, Spawn(t, c)
        PROVE  Shutdown'
    BY <2>3 DEF Spawn, flags
  <2>4. CASE \/ ScanTake(t) \/ ScanNone(t) \/ Discard(t) \/ SwapIn(t) \/ Finish(t)
             \/ SwapInAsserts(t) \/ YieldToReady(t) \/ Await(t) \/ YieldToHold(t) \/ SwapOut(t)
    BY <2>1, <2>4 DEF ScanTake, ScanNone, Discard, SwapIn, Finish, YieldToReady, Await,
       SwapInAsserts, YieldToHold, SwapOut, flags, ThreadPc
  <2>5. CASE Back(t) \/ Requeue(t) \/ AfterSwap(t) \/ StoreHold(t) \/ EnterIdle(t)
    BY <2>1, <2>5 DEF Back, Requeue, AfterSwap, StoreHold, EnterIdle, flags, ThreadPc
  <2> QED BY <1>2, <2>2, <2>3, <2>4, <2>5 DEF RunStep
<1>3. ASSUME NEW f \in Tasks, Fire(f)
      PROVE  Shutdown'
  BY <1>3 DEF Fire, flags
<1>4. CASE UNCHANGED vars
  BY <1>4 DEF vars
<1> QED BY <1>1, <1>2, <1>3, <1>4 DEF Next, Terminated

\* A thread's step leaves every task that stays in the list to some thread.
LEMMA ServedMoves ==
    ASSUME DrainInv, NEW t \in Threads, NEW loc \in ThreadPc, Goto(t, loc),
           UNCHANGED <<main, m_autoStop>>, pc[t] # "exited", loc # "off",
           loc = "exited" => pc[t] = "none" /\ idleTerm[t],
           loc = "none" => \A i \in DOMAIN m_fibers : ~Eligible(t, i),
           \/ idleTerm' = idleTerm
           \/ loc = "scan" /\ idleTerm' = [idleTerm EXCEPT ![t] = Stopping],
           NEW i \in DOMAIN m_fibers
    PROVE  \E u \in Threads :
              /\ WillScan(u)'
              /\ \/ m_fibers[i].thread = AnyThread
                 \/ m_fibers[i].thread = u /\ ~idleTerm'[u]
<1>1. PICK u \in Threads :
          /\ WillScan(u)
          /\ \/ m_fibers[i].thread = AnyThread
             \/ m_fibers[i].thread = u /\ ~idleTerm[u]
  BY DEF DrainInv, Served
<1>2. pc \in [Threads -> ThreadPc] /\ idleTerm \in [Threads -> BOOLEAN]
  BY DEF DrainInv, OwnedOnce, CountersInv, TypeOK
<1>3. m_state[m_fibers[i].task] # "EXEC"
  BY DEF DrainInv, OwnedOnce, QueuedFree
<1>4. ~Stopping
  BY DEF Stopping
<1>5. CASE u # t
  BY <1>1, <1>2, <1>5 DEF WillScan, Goto
<1>6. CASE u = t
  <2>1. idleTerm'[t] => idleTerm[t]
    BY <1>2, <1>4
  <2>2. loc # "none"
    BY <1>1, <1>3, <1>6 DEF Eligible
  <2>3. loc # "exited"
    BY <1>1, <1>6 DEF WillScan
  <2> QED BY <1>1, <1>2, <1>6, <2>1, <2>2, <2>3 DEF WillScan, Goto
<1> QED BY <1>5, <1>6

\* The entries of the list after Enqueue.
LEMMA EnqueueEntries ==
    ASSUME TypeOK, NEW f \in Tasks, NEW th \in Threads \cup {AnyThread}, Enqueue(f, th),
           NEW j \in DOMAIN m_fibers'
    PROVE  m_fibers'[j].thread = th \/ \E i \in DOMAIN m_fibers : m_fibers'[j] = m_fibers[i]
<1> DEFINE e == [task |-> f, thread |-> th]
<1>1. e \in FiberAndThread /\ e.thread = th
  BY DEF FiberAndThread
<1>2. m_fibers \in Seq(FiberAndThread)
  BY DEF TypeOK
<1> HIDE DEF e
<1>3. /\ m_fibers' \in Seq(FiberAndThread)
      /\ Len(m_fibers') = Len(m_fibers) + 1
      /\ \A i \in 1..Len(m_fibers) : m_fibers'[i] = m_fibers[i]
      /\ m_fibers'[Len(m_fibers) + 1] = e
  BY <1>1, <1>2, AppendProperties DEF Enqueue, e
<1> QED BY <1>1, <1>2, <1>3

\* Every step leaves every queued task to a thread that will scan for it.
LEMMA ServedStep ==
    ASSUME OwnerPins, DrainInv, [Next]_vars
    PROVE  Served'
<1> USE DEF DrainInv
<1>1. /\ TypeOK
      /\ pc \in [Threads -> ThreadPc]
      /\ idleTerm \in [Threads -> BOOLEAN]
      /\ main \in {"new", "open", "stop1", "stop2", "inroot", "join", "stopped"}
  BY DEF OwnedOnce, CountersInv, TypeOK
<1>2. CASE Owner
  <2>1. ASSUME NEW c \in Calls, Submit(c)
        PROVE  Served'
    <3>1. c.task \in Tasks /\ c.thread \in Threads \cup {AnyThread}
      BY CallsAssumption
    <3>2. \A u \in Threads : ~idleTerm[u] /\ WillScan(u) /\ WillScan(u)'
      BY <2>1 DEF Submit, Shutdown, WillScan, flags
    <3>3. PICK u \in Threads : c.thread \in {AnyThread, u}
      BY <3>1, ThreadsAssumption
    <3> SUFFICES ASSUME NEW j \in DOMAIN m_fibers'
                 PROVE  \E v \in Threads :
                           /\ WillScan(v)'
                           /\ \/ m_fibers'[j].thread = AnyThread
                              \/ m_fibers'[j].thread = v /\ ~idleTerm'[v]
      BY DEF Served
    <3>4. m_fibers'[j].thread = c.thread
          \/ \E i \in DOMAIN m_fibers : m_fibers'[j] = m_fibers[i]
      BY <1>1, <2>1, <3>1, EnqueueEntries DEF Submit
    <3> QED BY <2>1, <3>2, <3>3, <3>4 DEF Submit, Served
  <2>2. CASE Start
    BY <1>1, <2>2, ThreadsAssumption DEF Start, Served, WillScan, Shutdown
  <2>3. CASE StopBegin
    BY <2>3 DEF StopBegin, Served, WillScan
  <2>4. CASE StopFlag
    BY <2>4 DEF StopFlag, Served, WillScan, Stopping
  <2>5. CASE StopCall
    <3>1. CASE m_fibers = <<>>
      <4>1. DOMAIN m_fibers' = {}
        BY <2>5, <3>1 DEF StopCall
      <4> QED BY <4>1 DEF Served
    <3>2. CASE m_fibers # <<>>
      <4>1. ~Stopping
        BY <3>2 DEF Stopping
      <4>2. ASSUME NEW u \in Threads, WillScan(u)
            PROVE  WillScan(u)'
        BY <1>1, <2>5, <4>1, <4>2 DEF StopCall, WillScan, Shutdown, Threads
      <4> QED BY <2>5, <4>2 DEF StopCall, Served
    <3> QED BY <3>1, <3>2
  <2>6. CASE StopRootDone \/ StopJoin
    BY <2>6 DEF StopRootDone, StopJoin, Served, WillScan
  <2> QED BY <1>2, <2>1, <2>2, <2>3, <2>4, <2>5, <2>6 DEF Owner
<1>3. ASSUME NEW t \in Threads, RunStep(t)
      PROVE  Served'
  <2>1. ASSUME NEW c \in Calls, Spawn(t, c)
        PROVE  Served'
    <3>1. c.task \in Tasks /\ c.thread = AnyThread
      <4>1. c.by \in Tasks
        BY <2>1 DEF Spawn, OwnedOnce, CountersInv, HoldsTask, Holding, Active
      <4> QED BY <4>1, CallsAssumption, TasksAssumption DEF OwnerPins
    <3>2. WillScan(t)' /\ \A u \in Threads : WillScan(u) => WillScan(u)'
      BY <2>1 DEF Spawn, WillScan, flags
    <3> SUFFICES ASSUME NEW j \in DOMAIN m_fibers'
                 PROVE  \E v \in Threads :
                           /\ WillScan(v)'
                           /\ \/ m_fibers'[j].thread = AnyThread
                              \/ m_fibers'[j].thread = v /\ ~idleTerm'[v]
      BY DEF Served
    <3>3. m_fibers'[j].thread = c.thread
          \/ \E i \in DOMAIN m_fibers : m_fibers'[j] = m_fibers[i]
      BY <1>1, <2>1, <3>1, EnqueueEntries DEF Spawn
    <3> QED BY <2>1, <3>1, <3>2, <3>3 DEF Spawn, Served
  <2>2. CASE Requeue(t)
    <3>1. ft[t] \in Tasks
      BY <2>2 DEF Requeue, OwnedOnce, CountersInv, HoldsTask, Holding
    <3>2. WillScan(t)' /\ \A u \in Threads : WillScan(u) => WillScan(u)'
      BY <1>1, <2>2 DEF Requeue, WillScan, Goto, flags
    <3> SUFFICES ASSUME NEW j \in DOMAIN m_fibers'
                 PROVE  \E v \in Threads :
                           /\ WillScan(v)'
                           /\ \/ m_fibers'[j].thread = AnyThread
                              \/ m_fibers'[j].thread = v /\ ~idleTerm'[v]
      BY DEF Served
    <3>3. m_fibers'[j].thread = AnyThread
          \/ \E i \in DOMAIN m_fibers : m_fibers'[j] = m_fibers[i]
      BY <1>1, <2>2, <3>1, EnqueueEntries DEF Requeue
    <3> QED BY <2>2, <3>2, <3>3 DEF Requeue, Served
  <2>3. CASE ScanTake(t)
    <3>1. PICK k \in DOMAIN m_fibers : m_fibers' = RemoveAt(m_fibers, k)
      BY <2>3 DEF ScanTake
    <3>2. \A j \in DOMAIN m_fibers' : \E i \in DOMAIN m_fibers : m_fibers'[j] = m_fibers[i]
      <4>1. m_fibers \in Seq(FiberAndThread) /\ k \in 1..Len(m_fibers)
        BY <1>1 DEF TypeOK
      <4>2. /\ m_fibers' \in Seq(FiberAndThread)
            /\ Len(m_fibers') = Len(m_fibers) - 1
            /\ \A j \in 1..(Len(m_fibers) - 1) :
                  m_fibers'[j] = IF j < k THEN m_fibers[j] ELSE m_fibers[j + 1]
        BY <3>1, <4>1, RemoveAtProperties
      <4> QED BY <4>1, <4>2
    <3>3. \A u \in Threads : WillScan(u) => WillScan(u)'
      BY <1>1, <2>3 DEF ScanTake, WillScan, Goto, flags
    <3> QED BY <2>3, <3>2, <3>3 DEF ScanTake, Served
  <2>4. CASE ScanNone(t)
    BY <2>4, ServedMoves DEF ScanNone, Served, ThreadPc, flags
  <2>5. CASE EnterIdle(t)
    BY <2>5, ServedMoves DEF EnterIdle, Served, ThreadPc, flags
  <2>6. CASE IdleStep(t)
    BY <2>6, ServedMoves DEF IdleStep, Served, ThreadPc, flags
  <2>7. CASE \/ Discard(t) \/ SwapIn(t) \/ Finish(t) \/ YieldToReady(t) \/ Await(t)
             \/ YieldToHold(t) \/ SwapInAsserts(t)
    BY <2>7, ServedMoves DEF Discard, SwapInAsserts, SwapIn, Finish, YieldToReady, Await, YieldToHold,
       Served, ThreadPc, flags
  <2>8. CASE SwapOut(t) \/ Back(t) \/ AfterSwap(t) \/ StoreHold(t)
    BY <2>8, ServedMoves DEF SwapOut, Back, AfterSwap, StoreHold, Served, ThreadPc, flags
  <2> QED BY <1>3, <2>1, <2>2, <2>3, <2>4, <2>5, <2>6, <2>7, <2>8 DEF RunStep
<1>4. ASSUME NEW f \in Tasks, Fire(f)
      PROVE  Served'
  BY <1>4 DEF Fire, OwnedOnce
<1>5. CASE UNCHANGED vars
  BY <1>5 DEF vars, Served, WillScan
<1> QED BY <1>2, <1>3, <1>4, <1>5 DEF Next, Terminated

\* When stop() returns, every scheduled task has been run to its end, the list
\* is empty and no thread is in run(): for any number of threads, with or
\* without the caller's thread, provided tasks do not wait, are scheduled once
\* and only the owner names threads.
THEOREM StopDrainsCorrect ==
    ASSUME OneCallEach, OwnerPins
    PROVE  Spec => []StopDrains
<1>1. Init => DrainInv
  <2> SUFFICES ASSUME Init PROVE DrainInv
    OBVIOUS
  <2>1. DOMAIN m_fibers = {}
    BY DEF Init
  <2> QED BY <2>1, OwnedInit DEF Init, DrainInv, Served, Shutdown, Threads
<1>2. DrainInv /\ [Next]_vars => DrainInv'
  BY OwnedStep, ServedStep, ShutdownStep DEF DrainInv, OwnedOnce
<1>3. DrainInv => StopDrains
  <2> SUFFICES ASSUME DrainInv, main = "stopped"
               PROVE  /\ m_fibers = <<>>
                      /\ \A t \in Threads : pc[t] \in {"off", "exited"}
                      /\ \A c \in Calls \ calls : m_state[c.task] \in Ended
    BY DEF StopDrains
  <2>1. \A t \in Threads : pc[t] \in {"off", "exited"}
    BY DEF DrainInv, Shutdown, Threads
  <2>2. DOMAIN m_fibers = {}
    BY <2>1 DEF DrainInv, Served, WillScan
  <2>3. m_fibers = <<>>
    BY <2>2 DEF DrainInv, OwnedOnce, CountersInv, TypeOK
  <2>4. \A c \in Calls \ calls : m_state[c.task] \in Ended
    BY <2>1, <2>2
    DEF DrainInv, OwnedOnce, NoLostTask, Queued, Held, Holding, Active
  <2> QED BY <2>1, <2>3, <2>4
<1> QED BY <1>1, <1>2, <1>3, PTL DEF Spec

=============================================================================
