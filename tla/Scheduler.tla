----------------------------- MODULE Scheduler -----------------------------
(***************************************************************************)
(* The coroutine scheduler of ljrServer/scheduler.{h,cpp} together with    *)
(* the fiber state machine of ljrServer/fiber.cpp: a mutex-protected list  *)
(* of tasks, a pool of worker threads (and possibly the caller's thread)   *)
(* that all execute Scheduler::run(), and the start()/stop() protocol of   *)
(* the thread that owns the scheduler ("main").                            *)
(*                                                                         *)
(* A task is a Fiber, or a callback with the Fiber that run() creates for  *)
(* it (cb_fiber): the two branches of run() do the same to their fiber.    *)
(* A step of this specification is what one thread does between two        *)
(* accesses to shared state: the list under its mutex, the two atomic      *)
(* counters, the flags, and the unsynchronised Fiber::m_state.             *)
(***************************************************************************)
EXTENDS Naturals, SequencesExt

CONSTANTS
    Workers,    \* the threads start() creates (m_threadCount of them)
    Callers,    \* {the constructing thread} if use_caller, else {}
    AnyThread,  \* the thread id -1 of schedule(fc): no thread is specified
    Tasks,      \* fibers and callbacks
    Main,       \* stands for the owner of the scheduler in Calls
    Calls,      \* the calls schedule(task, thread) that main and tasks make
    Awaiters,   \* the tasks that register a waker and YieldToHold
    MaxYields   \* bound on the yields of one task

Threads == Workers \cup Callers

ASSUME ThreadsAssumption ==
    /\ IsFiniteSet(Threads)
    /\ Threads # {}
    /\ Workers \cap Callers = {}
    /\ \A c, d \in Callers : c = d
    /\ AnyThread \notin Threads

ASSUME TasksAssumption ==
    /\ Main \notin Tasks
    /\ Awaiters \subseteq Tasks
    /\ MaxYields \in Nat

ASSUME CallsAssumption ==
    Calls \subseteq [by     : Tasks \cup {Main},
                     task   : Tasks,
                     thread : Threads \cup {AnyThread}]

\* FiberAndThread, an element of the list m_fibers
FiberAndThread == [task : Tasks, thread : Threads \cup {AnyThread}]

\* Fiber::State
FiberState == {"INIT", "HOLD", "EXEC", "TERM", "READY", "EXCEPT"}

Ended == {"TERM", "EXCEPT"}

VARIABLES
    m_fibers,             \* the list of scheduled tasks
    m_activeThreadCount,
    m_idleThreadCount,
    m_stopping,
    m_autoStop,
    m_state,              \* Fiber::m_state of every task
    pc,                   \* where each thread is in run()
    ft,                   \* the task each thread took last
    idleTerm,             \* idle_fiber->getState() == TERM, per thread
    armed,                \* tasks whose waker may call schedule(fiber)
    calls,                \* the schedule() calls not made yet
    yields,               \* the yields each task has made
    main                  \* where the owner is: start(), stop()

vars == <<m_fibers, m_activeThreadCount, m_idleThreadCount, m_stopping,
          m_autoStop, m_state, pc, ft, idleTerm, armed, calls, yields, main>>

(***************************************************************************)
(* off     run() not entered        run    in the task, m_state just EXEC  *)
(* scan    before the list scan     await  in the task, waker registered   *)
(* got     popped, not swapped in   leave  m_state set, still on the stack *)
(* none    nothing to take          back   in run() again, counter not yet *)
(* idle    in idle()                after  counter lowered                 *)
(* exited  run() returned           hold   about to store HOLD             *)
(* aborted an assertion failed here and ended the process                  *)
(***************************************************************************)
ThreadPc == {"off", "scan", "got", "run", "await", "leave", "back", "after",
             "hold", "none", "idle", "exited", "aborted"}

\* On the stack of the task: only one thread may ever be here for one task
OnStack == {"run", "await", "leave"}

\* Counted in m_activeThreadCount
Active == {"got", "run", "await", "leave", "back", "aborted"}

\* ft refers to a task run() is still going to touch
Holding == Active \cup {"after", "hold"}

TypeOK ==
    /\ m_fibers \in Seq(FiberAndThread)
    /\ m_activeThreadCount \in Nat
    /\ m_idleThreadCount \in Nat
    /\ m_stopping \in BOOLEAN
    /\ m_autoStop \in BOOLEAN
    /\ m_state \in [Tasks -> FiberState]
    /\ pc \in [Threads -> ThreadPc]
    /\ ft \in [Threads -> Tasks \cup {Main}]
    /\ idleTerm \in [Threads -> BOOLEAN]
    /\ armed \subseteq Tasks
    /\ calls \subseteq Calls
    /\ yields \in [Tasks -> 0..MaxYields]
    /\ main \in {"new", "open", "stop1", "stop2", "inroot", "join", "stopped"}

Init ==
    /\ m_fibers = <<>>
    /\ m_activeThreadCount = 0
    /\ m_idleThreadCount = 0
    /\ m_stopping = TRUE
    /\ m_autoStop = FALSE
    /\ m_state = [f \in Tasks |-> "INIT"]
    /\ pc = [t \in Threads |-> "off"]
    /\ ft = [t \in Threads |-> Main]
    /\ idleTerm = [t \in Threads |-> FALSE]
    /\ armed = {}
    /\ calls = Calls
    /\ yields = [f \in Tasks |-> 0]
    /\ main = "new"

-----------------------------------------------------------------------------
(* What the operations share                                               *)

\* Scheduler::schedule: append under the mutex. tickle() of the base class
\* only logs.
Enqueue(f, th) == m_fibers' = Append(m_fibers, [task |-> f, thread |-> th])

\* Bug: stopping() forgets m_fibers.empty()
StoppingNoList ==
    /\ m_autoStop
    /\ m_stopping
    /\ m_activeThreadCount = 0

\* Scheduler::stopping
Stopping ==
    /\ m_autoStop
    /\ m_stopping
    /\ m_fibers = <<>>
    /\ m_activeThreadCount = 0

\* The entries the scan of run() does not skip
Eligible(t, i) ==
    /\ m_fibers[i].thread \in {AnyThread, t}
    /\ m_state[m_fibers[i].task] # "EXEC"

Goto(t, loc) == pc' = [pc EXCEPT ![t] = loc]

SetState(f, s) == m_state' = [m_state EXCEPT ![f] = s]

\* No assertion has failed
Alive == \A t \in Threads : pc[t] # "aborted"

flags == <<m_stopping, m_autoStop, main>>
counters == <<m_activeThreadCount, m_idleThreadCount>>
script == <<armed, calls, yields>>

-----------------------------------------------------------------------------
(* The owner                                                               *)

\* Scheduler::start: the workers begin run(); a caller thread does not.
Start ==
    /\ main = "new"
    /\ m_stopping
    /\ main' = "open"
    /\ m_stopping' = FALSE
    /\ pc' = [t \in Threads |-> IF t \in Workers THEN "scan" ELSE pc[t]]
    /\ UNCHANGED <<m_fibers, counters, m_autoStop, m_state, ft, idleTerm, script>>

\* The owner calls schedule(task, thread), before or after start()
Submit(c) ==
    /\ main \in {"new", "open"}
    /\ c \in calls
    /\ c.by = Main
    /\ calls' = calls \ {c}
    /\ Enqueue(c.task, c.thread)
    /\ UNCHANGED <<counters, flags, m_state, pc, ft, idleTerm, armed, yields>>

\* stop(), line 1: the owner has made all its calls
StopBegin ==
    /\ main = "open"
    /\ \A c \in calls : c.by # Main
    /\ main' = "stop1"
    /\ m_autoStop' = TRUE
    /\ UNCHANGED <<m_fibers, counters, m_stopping, m_state, pc, ft, idleTerm, script>>

\* stop() up to the tickles. Without workers it returns at once when there is
\* nothing left to do.
StopFlag ==
    /\ main = "stop1"
    /\ m_stopping' = TRUE
    /\ UNCHANGED <<m_fibers, counters, m_autoStop, m_state, pc, ft, idleTerm, script>>
    /\ main' = IF Callers # {} /\ Workers = {} /\ Stopping'
               THEN "stopped" ELSE "stop2"

\* stop(): run the root fiber on the caller's thread unless all is done
StopCall ==
    /\ main = "stop2"
    /\ IF Callers # {} /\ ~Stopping
       THEN /\ main' = "inroot"
            /\ pc' = [t \in Threads |-> IF t \in Callers THEN "scan" ELSE pc[t]]
       ELSE /\ main' = "join"
            /\ UNCHANGED pc
    /\ UNCHANGED <<m_fibers, counters, m_stopping, m_autoStop, m_state, ft,
                   idleTerm, script>>

\* run() returned on the root fiber: Fiber::call returns into stop()
StopRootDone ==
    /\ main = "inroot"
    /\ \A t \in Callers : pc[t] = "exited"
    /\ main' = "join"
    /\ UNCHANGED <<m_fibers, counters, m_stopping, m_autoStop, m_state, pc, ft,
                   idleTerm, script>>

\* stop(): every Thread::join has returned
StopJoin ==
    /\ main = "join"
    /\ \A t \in Workers : pc[t] = "exited"
    /\ main' = "stopped"
    /\ UNCHANGED <<m_fibers, counters, m_stopping, m_autoStop, m_state, pc, ft,
                   idleTerm, script>>

Owner ==
    /\ Alive
    /\ \/ Start
       \/ \E c \in Calls : Submit(c)
       \/ StopBegin \/ StopFlag \/ StopCall \/ StopRootDone \/ StopJoin

-----------------------------------------------------------------------------
(* A thread in Scheduler::run()                                            *)

\* Bug: the scan copies the task without erasing it from the list
ScanTakeNoErase(t) ==
    /\ pc[t] = "scan"
    /\ \E i \in DOMAIN m_fibers :
          /\ Eligible(t, i)
          /\ \A j \in 1..(i - 1) : ~Eligible(t, j)
          /\ ft' = [ft EXCEPT ![t] = m_fibers[i].task]
    /\ m_activeThreadCount' = m_activeThreadCount + 1
    /\ Goto(t, "got")
    /\ UNCHANGED <<m_fibers, m_idleThreadCount, flags, m_state, idleTerm, script>>

\* The scan finds a task: erase it from the list and count the thread active,
\* under one lock
ScanTake(t) ==
    /\ pc[t] = "scan"
    /\ \E i \in DOMAIN m_fibers :
          /\ Eligible(t, i)
          /\ \A j \in 1..(i - 1) : ~Eligible(t, j)
          /\ ft' = [ft EXCEPT ![t] = m_fibers[i].task]
          /\ m_fibers' = RemoveAt(m_fibers, i)
    /\ m_activeThreadCount' = m_activeThreadCount + 1
    /\ Goto(t, "got")
    /\ UNCHANGED <<m_idleThreadCount, flags, m_state, idleTerm, script>>

\* The scan finds nothing for this thread
ScanNone(t) ==
    /\ pc[t] = "scan"
    /\ \A i \in DOMAIN m_fibers : ~Eligible(t, i)
    /\ Goto(t, "none")
    /\ UNCHANGED <<m_fibers, counters, flags, m_state, ft, idleTerm, script>>

\* A fiber that already ended is dropped
Discard(t) ==
    /\ pc[t] = "got"
    /\ m_state[ft[t]] \in Ended
    /\ m_activeThreadCount' = m_activeThreadCount - 1
    /\ Goto(t, "scan")
    /\ UNCHANGED <<m_fibers, m_idleThreadCount, flags, m_state, ft, idleTerm, script>>

\* Fiber::swapIn asserts that nobody has switched to the fiber meanwhile
SwapInAsserts(t) ==
    /\ pc[t] = "got"
    /\ m_state[ft[t]] = "EXEC"
    /\ Goto(t, "aborted")
    /\ UNCHANGED <<m_fibers, counters, flags, m_state, ft, idleTerm, script>>

\* Fiber::swapIn
SwapIn(t) ==
    /\ pc[t] = "got"
    /\ m_state[ft[t]] \notin Ended \cup {"EXEC"}
    /\ SetState(ft[t], "EXEC")
    /\ Goto(t, "run")
    /\ UNCHANGED <<m_fibers, counters, flags, ft, idleTerm, script>>

\* The task calls schedule() for another task
Spawn(t, c) ==
    /\ pc[t] = "run"
    /\ c \in calls
    /\ c.by = ft[t]
    /\ calls' = calls \ {c}
    /\ Enqueue(c.task, c.thread)
    /\ UNCHANGED <<counters, flags, m_state, pc, ft, idleTerm, armed, yields>>

\* Fiber::MainFunc: the function returned (TERM) or threw (EXCEPT)
Finish(t) ==
    /\ pc[t] = "run"
    /\ \A c \in calls : c.by # ft[t]
    /\ \E s \in Ended : SetState(ft[t], s)
    /\ Goto(t, "leave")
    /\ UNCHANGED <<m_fibers, counters, flags, ft, idleTerm, script>>

\* Fiber::YieldToReady: m_state is stored before the stack is left
YieldToReady(t) ==
    /\ pc[t] = "run"
    /\ yields[ft[t]] < MaxYields
    /\ yields' = [yields EXCEPT ![ft[t]] = @ + 1]
    /\ SetState(ft[t], "READY")
    /\ Goto(t, "leave")
    /\ UNCHANGED <<m_fibers, counters, flags, ft, idleTerm, armed, calls>>

\* The task registers itself with a waker (IOManager::addEvent, addTimer)
Await(t) ==
    /\ pc[t] = "run"
    /\ ft[t] \in Awaiters
    /\ yields[ft[t]] < MaxYields
    /\ yields' = [yields EXCEPT ![ft[t]] = @ + 1]
    /\ armed' = armed \cup {ft[t]}
    /\ Goto(t, "await")
    /\ UNCHANGED <<m_fibers, counters, flags, m_state, ft, idleTerm, calls>>

\* Fiber::YieldToHold, the store to m_state
YieldToHold(t) ==
    /\ pc[t] = "await"
    /\ SetState(ft[t], "HOLD")
    /\ Goto(t, "leave")
    /\ UNCHANGED <<m_fibers, counters, flags, ft, idleTerm, script>>

\* Fiber::swapOut: the thread is back on the stack of run()
SwapOut(t) ==
    /\ pc[t] = "leave"
    /\ Goto(t, "back")
    /\ UNCHANGED <<m_fibers, counters, flags, m_state, ft, idleTerm, script>>

\* Bug: the branch of run() forgets --m_activeThreadCount
BackNoCount(t) ==
    /\ pc[t] = "back"
    /\ Goto(t, "after")
    /\ UNCHANGED <<m_fibers, counters, flags, m_state, ft, idleTerm, script>>

\* --m_activeThreadCount, after swapIn returned
Back(t) ==
    /\ pc[t] = "back"
    /\ m_activeThreadCount' = m_activeThreadCount - 1
    /\ Goto(t, "after")
    /\ UNCHANGED <<m_fibers, m_idleThreadCount, flags, m_state, ft, idleTerm, script>>

\* Bug: a READY fiber is dropped instead of scheduled
RequeueDrop(t) ==
    /\ pc[t] = "after"
    /\ m_state[ft[t]] = "READY"
    /\ Goto(t, "scan")
    /\ UNCHANGED <<m_fibers, counters, flags, m_state, ft, idleTerm, script>>

\* A READY fiber goes to the end of the list, for any thread
Requeue(t) ==
    /\ pc[t] = "after"
    /\ m_state[ft[t]] = "READY"
    /\ Enqueue(ft[t], AnyThread)
    /\ Goto(t, "scan")
    /\ UNCHANGED <<counters, flags, m_state, ft, idleTerm, script>>

\* Bug: HOLD is stored without looking whether the fiber ended
AfterSwapAlwaysHold(t) ==
    /\ pc[t] = "after"
    /\ m_state[ft[t]] # "READY"
    /\ Goto(t, "hold")
    /\ UNCHANGED <<m_fibers, counters, flags, m_state, ft, idleTerm, script>>

\* An ended fiber is dropped; any other is going to be marked HOLD
AfterSwap(t) ==
    /\ pc[t] = "after"
    /\ m_state[ft[t]] # "READY"
    /\ Goto(t, IF m_state[ft[t]] \in Ended THEN "scan" ELSE "hold")
    /\ UNCHANGED <<m_fibers, counters, flags, m_state, ft, idleTerm, script>>

\* ft.fiber->m_state = Fiber::HOLD
StoreHold(t) ==
    /\ pc[t] = "hold"
    /\ SetState(ft[t], "HOLD")
    /\ Goto(t, "scan")
    /\ UNCHANGED <<m_fibers, counters, flags, ft, idleTerm, script>>

\* Nothing to run: leave run() if the idle fiber has ended, else enter it
EnterIdle(t) ==
    /\ pc[t] = "none"
    /\ IF idleTerm[t]
       THEN Goto(t, "exited") /\ UNCHANGED m_idleThreadCount
       ELSE Goto(t, "idle") /\ m_idleThreadCount' = m_idleThreadCount + 1
    /\ UNCHANGED <<m_fibers, m_activeThreadCount, flags, m_state, ft, idleTerm, script>>

\* Scheduler::idle: one evaluation of stopping(), then back to run()
IdleStep(t) ==
    /\ pc[t] = "idle"
    /\ idleTerm' = [idleTerm EXCEPT ![t] = Stopping]
    /\ m_idleThreadCount' = m_idleThreadCount - 1
    /\ Goto(t, "scan")
    /\ UNCHANGED <<m_fibers, m_activeThreadCount, flags, m_state, ft, script>>

RunStep(t) ==
    /\ Alive
    /\ \/ ScanTake(t) \/ ScanNone(t) \/ Discard(t) \/ SwapInAsserts(t) \/ SwapIn(t)
       \/ (\E c \in Calls : Spawn(t, c))
       \/ Finish(t) \/ YieldToReady(t) \/ Await(t) \/ YieldToHold(t)
       \/ SwapOut(t) \/ Back(t) \/ Requeue(t) \/ AfterSwap(t) \/ StoreHold(t)
       \/ EnterIdle(t) \/ IdleStep(t)

\* A waker (an epoll event or a timer, on whatever thread) schedules the task
Fire(f) ==
    /\ Alive
    /\ f \in armed
    /\ armed' = armed \ {f}
    /\ Enqueue(f, AnyThread)
    /\ UNCHANGED <<counters, flags, m_state, pc, ft, idleTerm, calls, yields>>

\* stop() has returned and no waker is left, or the process was aborted
Terminated ==
    /\ \/ main = "stopped" /\ armed = {}
       \/ ~Alive
    /\ UNCHANGED vars

Next ==
    \/ Owner
    \/ \E t \in Threads : RunStep(t)
    \/ \E f \in Tasks : Fire(f)
    \/ Terminated

Spec == Init /\ [][Next]_vars

\* The owner goes on to stop(), the operating system runs every thread, and a
\* registered waker eventually fires.
Fairness ==
    /\ WF_vars(Owner)
    /\ \A t \in Threads : WF_vars(RunStep(t))
    /\ \A f \in Tasks : WF_vars(Fire(f))

FairSpec == Spec /\ Fairness

-----------------------------------------------------------------------------
(* What the scheduler must guarantee                                       *)

\* A fiber's stack is never executed by two threads at once: run() on two
\* threads never has the same fiber swapped in.
OneRunner ==
    \A t, u \in Threads :
        pc[t] \in OnStack /\ pc[u] \in OnStack /\ ft[t] = ft[u] => t = u

\* Code running in a fiber finds the fiber's own m_state to be EXEC, as the
\* assertion on Fiber::GetThis() in IOManager::addEvent requires.
RunningIsExec ==
    \A t \in Threads : pc[t] \in {"run", "await"} => m_state[ft[t]] = "EXEC"

\* The threads that are at one of the places A of run()
At(A) == {t \in Threads : pc[t] \in A}

\* The two atomic counters agree with what the threads are doing, through
\* every path of run(): stopping() and hasIdleThreads() rest on them.
CountersExact ==
    /\ m_activeThreadCount = Cardinality(At(Active))
    /\ m_idleThreadCount = Cardinality(At({"idle"}))

Queued(f) == \E i \in DOMAIN m_fibers : m_fibers[i].task = f

Held(f) == \E t \in Threads : pc[t] \in Holding /\ ft[t] = f

\* Once schedule() was called for a task, the task has ended or something is
\* still responsible for it: the list, a thread in run(), or a waker.
NoLostTask ==
    \A c \in Calls \ calls :
        \/ m_state[c.task] \in Ended
        \/ Queued(c.task)
        \/ Held(c.task)
        \/ c.task \in armed

\* When stop() returns every scheduled task has been run to its end, the list
\* is empty and no thread is left inside run().
StopDrains ==
    main = "stopped" =>
        /\ m_fibers = <<>>
        /\ \A t \in Threads : pc[t] \in {"off", "exited"}
        /\ \A c \in Calls \ calls : m_state[c.task] \in Ended

\* A fiber that ended is never switched to or marked again, even when it was
\* scheduled a second time.
EndedStays ==
    [][\A f \in Tasks : m_state[f] \in Ended => m_state'[f] = m_state[f]]_vars

\* stop() returns: no thread spins in run() for ever.
StopReturns == main = "stop1" ~> main = "stopped"

-----------------------------------------------------------------------------
(* The inductive invariants behind the theorems of SchedulerProofs         *)

HoldsTask == \A t \in Threads : pc[t] \in Holding => ft[t] \in Tasks

\* start() creates the workers, stop() enters the root fiber
NotEntered ==
    /\ main = "new" => \A t \in Threads : pc[t] = "off"
    /\ main \in {"new", "open", "stop1", "stop2"} =>
          \A t \in Callers : pc[t] = "off"

\* The counters are exact, with no assumption on what the tasks do.
CountersInv == TypeOK /\ HoldsTask /\ NotEntered /\ CountersExact

\* The assumption under which fibers are safe on several threads: no task waits
\* for a waker, and schedule() is called once for each task.
OneCallEach ==
    /\ Awaiters = {}
    /\ \A c, d \in Calls : c.task = d.task => c = d

\* What a thread knows of the m_state of the task it took, when no task waits
\* for a waker
StateKnown ==
    \A t \in Threads :
        /\ pc[t] \notin {"await", "hold", "aborted"}
        /\ pc[t] = "got" => m_state[ft[t]] \in {"INIT", "READY"}
        /\ pc[t] = "run" => m_state[ft[t]] = "EXEC"
        /\ pc[t] \in {"leave", "back", "after"} =>
              m_state[ft[t]] \in {"READY"} \cup Ended

QueueDistinct ==
    \A i, j \in DOMAIN m_fibers : m_fibers[i].task = m_fibers[j].task => i = j

\* A queued task may be run by whoever takes it: nobody else has it
QueuedFree ==
    \A i \in DOMAIN m_fibers :
        /\ m_state[m_fibers[i].task] \in {"INIT", "READY"}
        /\ ~Held(m_fibers[i].task)

HeldDistinct ==
    \A t, u \in Threads :
        pc[t] \in Holding /\ pc[u] \in Holding /\ ft[t] = ft[u] => t = u

\* A task whose schedule() call is still to come has not been seen yet
Unseen ==
    \A c \in calls :
        /\ m_state[c.task] = "INIT"
        /\ ~Queued(c.task)
        /\ ~Held(c.task)

\* At every moment a task is owned once: by the list or by one thread.
OwnedOnce ==
    /\ CountersInv
    /\ armed = {}
    /\ StateKnown
    /\ QueueDistinct
    /\ QueuedFree
    /\ HeldDistinct
    /\ Unseen
    /\ NoLostTask

\* Only the owner, before stop(), names a thread in schedule().
OwnerPins == \A c \in Calls : c.by # Main => c.thread = AnyThread

\* Thread t has not decided to leave run(), or is yet to enter it
WillScan(t) ==
    /\ pc[t] # "exited"
    /\ ~(pc[t] = "none" /\ idleTerm[t])
    /\ pc[t] = "off" => main \in {"new", "open", "stop1", "stop2"}

\* Every queued task has a thread that will still scan the list for it
Served ==
    \A i \in DOMAIN m_fibers :
        \E t \in Threads :
            /\ WillScan(t)
            /\ \/ m_fibers[i].thread = AnyThread
               \/ m_fibers[i].thread = t /\ ~idleTerm[t]

\* How far stop() has come
Shutdown ==
    /\ m_autoStop <=> main \notin {"new", "open"}
    /\ \A t \in Threads : pc[t] = "exited" => idleTerm[t]
    /\ \A t \in Threads : idleTerm[t] => m_autoStop
    /\ main # "new" => \A t \in Workers : pc[t] # "off"
    /\ main \in {"join", "stopped"} =>
          \A t \in Callers : pc[t] \in {"off", "exited"}
    /\ main = "stopped" => \A t \in Workers : pc[t] = "exited"

DrainInv == OwnedOnce /\ Served /\ Shutdown

=============================================================================
