---------------------------- MODULE TimerManager ----------------------------
(***************************************************************************)
(* The timers of ljrServer/timer.{h,cpp} and the way IOManager::idle uses  *)
(* them: a set of timers ordered by their next expiry, protected by a      *)
(* read-write lock; threads that add, cancel, refresh and reset timers;    *)
(* and the poller threads of the IOManager, which ask for the next expiry, *)
(* sleep in epoll_wait, and collect the callbacks that are due.            *)
(*                                                                         *)
(* Time is the wall clock of GetCurrentMS in whole units. One step is what *)
(* a thread does in one critical section, or between two of them.          *)
(***************************************************************************)
EXTENDS Integers, FiniteSets

CONSTANTS
    Timers,       \* the Timer objects
    Recurring,    \* those created with recurring = true
    Periods,      \* the values of ms passed to addTimer and reset
    Pollers,      \* threads of the IOManager: they idle, or run tasks
    Externals,    \* threads outside the IOManager that use timers
    MAX_TIMEOUT,  \* the longest epoll_wait of IOManager::idle
    IntRange,     \* the number of values of an int, 2^32 in the build
    Hour,         \* a clock set back by more than this is a rollover
    ClockSet,     \* the values an administrator may set the clock to
    Signals,      \* whether signals interrupt epoll_wait
    MaxTime,      \* bound on the clock
    MaxOps        \* bound on cancels, refreshes, resets, clock changes, signals

ASSUME TimersAssumption ==
    /\ Recurring \subseteq Timers
    /\ Periods \subseteq Nat
    /\ Pollers # {} /\ Pollers \cap Externals = {}
    /\ MAX_TIMEOUT \in Nat /\ MAX_TIMEOUT > 0
    /\ IntRange \in Nat /\ IntRange > 1
    /\ Hour \in Nat /\ MaxTime \in Nat /\ Hour <= MaxTime
    /\ ClockSet \subseteq 0..MaxTime
    /\ Signals \in BOOLEAN
    /\ MaxOps \in Nat

Threads == Pollers \cup Externals

VARIABLES
    now,             \* GetCurrentMS()
    m_timers,        \* the std::set of timers
    m_next, m_ms,    \* Timer::m_next, Timer::m_ms
    m_cb,            \* the timers whose m_cb is not null
    live,            \* the timers whose handle addTimer has returned
    m_tickled,
    m_previousTime,
    pc,              \* where each thread is
    arg,             \* the timer a thread has constructed
    now_ms,          \* the clock a poller read after epoll_wait (0: unused)
    next_timeout,    \* the timeout a poller passed to epoll_wait
    left,            \* time left in a poller's epoll_wait; below 0: for ever
    ready,           \* the tickle pipe has an edge epoll_wait will report
    fired,           \* how often listExpiredCb returned each timer's callback
    cancelled,       \* the timers whose cancel() returned true
    ops              \* operations used up

vars == <<now, m_timers, m_next, m_ms, m_cb, live, m_tickled, m_previousTime, pc,
          arg, now_ms, next_timeout, left, ready, fired, cancelled, ops>>

(***************************************************************************)
(* busy    running tasks or user code                                      *)
(* insert  a Timer is constructed, not yet in the set                      *)
(* front   about to call onTimerInsertedAtFront                            *)
(* idle    entered IOManager::idle      check  in listExpiredCb, no lock   *)
(* wait    in epoll_wait                list   saw the set not empty       *)
(***************************************************************************)
UserPc == {"busy", "insert", "front"}
IdlePc == {"idle", "wait", "check", "list"}

TypeOK ==
    /\ now \in 0..MaxTime
    /\ m_timers \subseteq Timers
    /\ m_next \in [Timers -> Int]
    /\ m_ms \in [Timers -> Nat]
    /\ m_cb \subseteq Timers
    /\ live \subseteq Timers
    /\ m_tickled \in BOOLEAN
    /\ m_previousTime \in 0..MaxTime
    /\ pc \in [Threads -> UserPc \cup IdlePc]
    /\ \A x \in Externals : pc[x] \in UserPc
    /\ arg \in [Threads -> SUBSET Timers]
    /\ now_ms \in [Pollers -> 0..MaxTime]
    /\ next_timeout \in [Pollers -> Int]
    /\ left \in [Pollers -> Int]
    /\ ready \in BOOLEAN
    /\ fired \in [Timers -> Nat]
    /\ cancelled \subseteq Timers
    /\ ops \in 0..MaxOps

Init ==
    /\ now = Hour
    /\ m_timers = {}
    /\ m_next = [x \in Timers |-> 0]
    /\ m_ms = [x \in Timers |-> 0]
    /\ m_cb = {}
    /\ live = {}
    /\ m_tickled = FALSE
    /\ m_previousTime = Hour
    /\ pc = [t \in Threads |-> "busy"]
    /\ arg = [t \in Threads |-> {}]
    /\ now_ms = [p \in Pollers |-> 0]
    /\ next_timeout = [p \in Pollers |-> 0]
    /\ left = [p \in Pollers |-> 0]
    /\ ready = FALSE
    /\ fired = [x \in Timers |-> 0]
    /\ cancelled = {}
    /\ ops = 0

-----------------------------------------------------------------------------
\* Timer::Comparator: x is *m_timers.begin() of the set S under the expiries
\* nx. Timers due at the same time are ordered by address, here any order.
First(x, S, nx) == x \in S /\ \A y \in S : nx[x] <= nx[y]

\* (int)n for an int of IntRange values
Int32(n) == LET m == n % IntRange
            IN  IF 2 * m >= IntRange THEN m - IntRange ELSE m

\* The timeout IOManager::idle passes to epoll_wait when getNextTimer returned n
EpollTimeout(n) == IF Int32(n) > MAX_TIMEOUT THEN MAX_TIMEOUT ELSE Int32(n)

\* Bug: getNextTimer subtracts without looking whether the timer is overdue
TimeToNextNoTest(x) == EpollTimeout(m_next[x] - now)

\* The timeout when x is the first timer
TimeToNext(x) == IF now >= m_next[x] THEN 0 ELSE EpollTimeout(m_next[x] - now)

\* Scheduler::hasIdleThreads
HasIdleThreads == \E p \in Pollers : pc[p] \in IdlePc

Goto(t, loc) == pc' = [pc EXCEPT ![t] = loc]

history == <<fired, cancelled>>
poller == <<now_ms, next_timeout, left>>
clock == <<now, m_previousTime>>

-----------------------------------------------------------------------------
(* Adding timers                                                           *)

\* Timer::Timer: the expiry is computed before the lock is taken
Construct(t, x, ms) ==
    /\ pc[t] = "busy"
    /\ x \notin live
    /\ \A u \in Threads : x \notin arg[u]
    /\ m_next' = [m_next EXCEPT ![x] = now + ms]
    /\ m_ms' = [m_ms EXCEPT ![x] = ms]
    /\ m_cb' = m_cb \cup {x}
    /\ arg' = [arg EXCEPT ![t] = {x}]
    /\ Goto(t, "insert")
    /\ UNCHANGED <<clock, m_timers, live, m_tickled, poller, ready, history, ops>>

\* TimerManager::addTimer(timer, lock): insert x; the thread goes on to
\* onTimerInsertedAtFront if x came first and no tickle is due already
InsertTimer(t, x, S, nx) ==
    /\ m_timers' = S \cup {x}
    /\ \E atFront \in {TRUE, FALSE} :
          /\ atFront => First(x, S \cup {x}, nx)
          /\ ~atFront => \E y \in S \ {x} : nx[y] <= nx[x]
          /\ IF atFront /\ ~m_tickled
             THEN m_tickled' = TRUE /\ Goto(t, "front")
             ELSE UNCHANGED m_tickled /\ Goto(t, "busy")

\* TimerManager::addTimer: insert the timer under the write lock
Insert(t) ==
    /\ pc[t] = "insert"
    /\ \E x \in arg[t] :
          /\ InsertTimer(t, x, m_timers, m_next)
          /\ live' = live \cup {x}
    /\ arg' = [arg EXCEPT ![t] = {}]
    /\ UNCHANGED <<clock, m_next, m_ms, m_cb, poller, ready, history, ops>>

\* IOManager::onTimerInsertedAtFront, i.e. tickle(): write to the pipe unless
\* no thread is idle
InsertedAtFront(t) ==
    /\ pc[t] = "front"
    /\ ready' = (ready \/ HasIdleThreads)
    /\ Goto(t, "busy")
    /\ UNCHANGED <<clock, m_timers, m_next, m_ms, m_cb, live, m_tickled, arg,
                   poller, history, ops>>

-----------------------------------------------------------------------------
(* Changing timers                                                         *)

Operate(t, x) ==
    /\ pc[t] = "busy"
    /\ x \in live
    /\ ops < MaxOps
    /\ ops' = ops + 1

\* Bug: cancel() erases the timer but keeps its callback
CancelKeepCb(t, x) ==
    /\ Operate(t, x)
    /\ IF x \in m_cb
       THEN m_timers' = m_timers \ {x} /\ cancelled' = cancelled \cup {x}
       ELSE UNCHANGED <<m_timers, cancelled>>
    /\ UNCHANGED <<clock, m_next, m_ms, m_cb, live, m_tickled, pc, arg, poller,
                   ready, fired>>

\* Timer::cancel
Cancel(t, x) ==
    /\ Operate(t, x)
    /\ IF x \in m_cb
       THEN /\ m_cb' = m_cb \ {x}
            /\ m_timers' = m_timers \ {x}
            /\ cancelled' = cancelled \cup {x}
       ELSE UNCHANGED <<m_cb, m_timers, cancelled>>
    /\ UNCHANGED <<clock, m_next, m_ms, live, m_tickled, pc, arg, poller, ready,
                   fired>>

\* Timer::refresh: no tickle, the expiry moves to now + m_ms
Refresh(t, x) ==
    /\ Operate(t, x)
    /\ x \in m_cb /\ x \in m_timers
    /\ m_next' = [m_next EXCEPT ![x] = now + m_ms[x]]
    /\ UNCHANGED <<clock, m_timers, m_ms, m_cb, live, m_tickled, pc, arg, poller,
                   ready, history>>

\* Timer::reset
Reset(t, x, ms, from_now) ==
    /\ Operate(t, x)
    /\ ms # m_ms[x] \/ from_now
    /\ x \in m_cb /\ x \in m_timers
    /\ LET start == IF from_now THEN now ELSE m_next[x] - m_ms[x]
       IN  m_next' = [m_next EXCEPT ![x] = start + ms]
    /\ m_ms' = [m_ms EXCEPT ![x] = ms]
    /\ InsertTimer(t, x, m_timers \ {x}, m_next')
    /\ UNCHANGED <<clock, m_cb, live, arg, poller, ready, history>>

-----------------------------------------------------------------------------
(* A poller                                                                *)

\* run() found no task and enters IOManager::idle
EnterIdle(p) ==
    /\ pc[p] = "busy"
    /\ Goto(p, "idle")
    /\ UNCHANGED <<clock, m_timers, m_next, m_ms, m_cb, live, m_tickled, arg,
                   poller, ready, history, ops>>

\* Bug: getNextTimer does not reset m_tickled
GetNextTimerTickled(p) ==
    /\ pc[p] = "idle"
    /\ \E n \in IF m_timers = {} THEN {MAX_TIMEOUT}
               ELSE {TimeToNext(x) : x \in {y \in m_timers : First(y, m_timers, m_next)}} :
          /\ next_timeout' = [next_timeout EXCEPT ![p] = n]
          /\ left' = [left EXCEPT ![p] = n]
    /\ Goto(p, "wait")
    /\ UNCHANGED <<clock, m_timers, m_next, m_ms, m_cb, live, m_tickled, arg, now_ms,
                   ready, history, ops>>

\* TimerManager::getNextTimer and the timeout idle() derives from it
GetNextTimer(p) ==
    /\ pc[p] = "idle"
    /\ m_tickled' = FALSE
    /\ \E n \in IF m_timers = {} THEN {MAX_TIMEOUT}
               ELSE {TimeToNext(x) : x \in {y \in m_timers : First(y, m_timers, m_next)}} :
          /\ next_timeout' = [next_timeout EXCEPT ![p] = n]
          /\ left' = [left EXCEPT ![p] = n]
    /\ Goto(p, "wait")
    /\ UNCHANGED <<clock, m_timers, m_next, m_ms, m_cb, live, arg, now_ms, ready,
                   history, ops>>

\* epoll_wait is interrupted (EINTR) and called again with the same timeout
Interrupted(p) ==
    /\ Signals
    /\ pc[p] = "wait"
    /\ ops < MaxOps
    /\ ops' = ops + 1
    /\ left' = [left EXCEPT ![p] = next_timeout[p]]
    /\ UNCHANGED <<clock, m_timers, m_next, m_ms, m_cb, live, m_tickled, pc, arg,
                   now_ms, next_timeout, ready, history>>

\* epoll_wait returns by timeout or for the tickle pipe (events of other
\* handles are in FdContext). listExpiredCb reads the clock before it locks.
Wake(p) ==
    /\ pc[p] = "wait"
    /\ \/ left[p] = 0 /\ UNCHANGED ready
       \/ ready /\ ready' = FALSE
    /\ now_ms' = [now_ms EXCEPT ![p] = now]
    /\ next_timeout' = [next_timeout EXCEPT ![p] = 0]
    /\ left' = [left EXCEPT ![p] = 0]
    /\ Goto(p, "check")
    /\ UNCHANGED <<clock, m_timers, m_next, m_ms, m_cb, live, m_tickled, arg,
                   history, ops>>

\* listExpiredCb under the read lock: return if there is no timer
CheckEmpty(p) ==
    /\ pc[p] = "check"
    /\ IF m_timers = {}
       THEN Goto(p, "busy") /\ now_ms' = [now_ms EXCEPT ![p] = 0]
       ELSE Goto(p, "list") /\ UNCHANGED now_ms
    /\ UNCHANGED <<clock, m_timers, m_next, m_ms, m_cb, live, m_tickled, arg,
                   next_timeout, left, ready, history, ops>>

\* TimerManager::detectClockRollover
Rollover(p) == now_ms[p] < m_previousTime /\ now_ms[p] < m_previousTime - Hour

\* The timers listExpiredCb takes out of the set
Expired(p) == {x \in m_timers : Rollover(p) \/ m_next[x] <= now_ms[p]}

\* What the faulty versions of ListExpired below share with it
ListExpiredRest(p) ==
    /\ pc[p] = "list"
    /\ m_previousTime' = now_ms[p]
    /\ fired' = [x \in Timers |-> IF x \in Expired(p) THEN fired[x] + 1 ELSE fired[x]]
    /\ now_ms' = [now_ms EXCEPT ![p] = 0]
    /\ Goto(p, "busy")
    /\ UNCHANGED <<now, live, m_tickled, arg, next_timeout, left, ready, cancelled, ops>>

\* Bug: expired one-shot timers stay in the set
ListExpiredKeep(p) ==
    /\ ListExpiredRest(p)
    /\ UNCHANGED <<m_timers, m_next, m_ms, m_cb>>

\* listExpiredCb under the write lock. The set may be empty by now: begin() is
\* dereferenced all the same, unless a rollover was detected. What that reads is
\* undefined; if the process survives it, nothing is collected.
ListExpired(p) ==
    /\ pc[p] = "list"
    /\ m_previousTime' = now_ms[p]
    /\ fired' = [x \in Timers |-> IF x \in Expired(p) THEN fired[x] + 1 ELSE fired[x]]
    /\ m_timers' = m_timers \ (Expired(p) \ Recurring)
    /\ m_cb' = m_cb \ (Expired(p) \ Recurring)
    /\ m_next' = [x \in Timers |-> IF x \in Expired(p) \cap Recurring
                                   THEN now_ms[p] + m_ms[x] ELSE m_next[x]]
    /\ now_ms' = [now_ms EXCEPT ![p] = 0]
    /\ Goto(p, "busy")
    /\ UNCHANGED <<now, m_ms, live, m_tickled, arg, next_timeout, left, ready,
                   cancelled, ops>>

-----------------------------------------------------------------------------
(* The clock                                                               *)

\* Time passes. At the bound the wall clock stays, and epoll_wait still runs out.
Tick ==
    /\ now < MaxTime \/ \E p \in Pollers : pc[p] = "wait" /\ left[p] > 0
    /\ now' = IF now < MaxTime THEN now + 1 ELSE now
    /\ left' = [p \in Pollers |-> IF pc[p] = "wait" /\ left[p] > 0
                                  THEN left[p] - 1 ELSE left[p]]
    /\ UNCHANGED <<m_timers, m_next, m_ms, m_cb, live, m_tickled, m_previousTime,
                   pc, arg, now_ms, next_timeout, ready, history, ops>>

\* The wall clock is set; epoll_wait does not notice
SetClock(n) ==
    /\ ops < MaxOps
    /\ ops' = ops + 1
    /\ now' = n
    /\ UNCHANGED <<m_timers, m_next, m_ms, m_cb, live, m_tickled, m_previousTime,
                   pc, arg, poller, ready, history>>

User(t) ==
    \/ \E x \in Timers : \E ms \in Periods : Construct(t, x, ms)
    \/ Insert(t)
    \/ InsertedAtFront(t)
    \/ \E x \in Timers :
          \/ Cancel(t, x)
          \/ Refresh(t, x)
          \/ \E ms \in Periods : \E from_now \in BOOLEAN : Reset(t, x, ms, from_now)

Poll(p) ==
    EnterIdle(p) \/ GetNextTimer(p) \/ Wake(p) \/ CheckEmpty(p) \/ ListExpired(p)

\* The bound on time is reached
Horizon == now = MaxTime /\ UNCHANGED vars

Next ==
    \/ \E t \in Threads : User(t)
    \/ \E p \in Pollers : Poll(p) \/ Interrupted(p)
    \/ Tick
    \/ \E n \in ClockSet : SetClock(n)
    \/ Horizon

Spec == Init /\ [][Next]_vars

\* Time passes, and no thread stops inside addTimer or the idle loop
Fairness ==
    /\ WF_vars(Tick)
    /\ \A t \in Threads : WF_vars(Insert(t)) /\ WF_vars(InsertedAtFront(t))
    /\ \A p \in Pollers : WF_vars(Poll(p))

FairSpec == Spec /\ Fairness

-----------------------------------------------------------------------------
(* What the timers must guarantee                                          *)

\* A timer the user can reach has its callback exactly while it is in the set:
\* cancel() erases what find() returns without looking whether it was found.
CbMeansQueued == \A x \in live : x \in m_cb <=> x \in m_timers

\* A one-shot timer fires at most once, and never if cancel() returned true,
\* however cancel(), refresh(), reset() and the pollers interleave.
OneShotOnce ==
    \A x \in Timers \ Recurring : fired[x] + (IF x \in cancelled THEN 1 ELSE 0) <= 1

\* Once cancel() returned true listExpiredCb never returns the callback again.
CancelFinal ==
    [][\A x \in cancelled : x \in cancelled' /\ fired'[x] = fired[x]]_vars

TimeUntil(x) == IF m_next[x] > now THEN m_next[x] - now ELSE 0

\* When every poller sleeps, no tickle is under way and the clock was never
\* set, some poller wakes up in time for every timer: m_tickled never
\* suppresses a tickle that was needed.
NoMissedWake ==
    \A x \in m_timers :
        (/\ \A p \in Pollers : pc[p] = "wait"
         /\ ~ready
         /\ \A t \in Threads : pc[t] # "front")
        => \E p \in Pollers : left[p] >= 0 /\ left[p] <= TimeUntil(x)

\* A timer that is due within the run leaves the set or is moved.
DueTimersFire ==
    \A x \in Timers :
        (x \in m_timers /\ m_next[x] <= MaxTime)
            ~> (x \notin m_timers \/ m_next[x] > MaxTime)

\* epoll_wait never sleeps longer than MAX_TIMEOUT.
WaitBounded == \A p \in Pollers : pc[p] = "wait" => left[p] \in 0..MAX_TIMEOUT

-----------------------------------------------------------------------------
(* The inductive invariants behind the theorems of TimerManagerProofs      *)

\* The timers being constructed belong to one thread and nobody else
Fresh ==
    \A t \in Threads : \A x \in arg[t] :
        /\ pc[t] = "insert"
        /\ x \notin live
        /\ x \in m_cb
        /\ \A u \in Threads : x \in arg[u] => u = t
        /\ \A y \in arg[t] : y = x

\* The timers that are constructed but not yet inserted
Constructed == {x \in Timers : \E t \in Threads : x \in arg[t]}

\* Where a timer is in its life: callback, set, and what happened to it
Lifecycle ==
    /\ m_timers \subseteq live
    /\ m_cb \subseteq live \cup Constructed
    /\ cancelled \subseteq live \ m_cb
    /\ \A x \in Timers \ live : fired[x] = 0
    /\ \A x \in m_cb \ Recurring : fired[x] = 0

TimerInv == TypeOK /\ Fresh /\ Lifecycle /\ CbMeansQueued /\ OneShotOnce

\* The conditions under which wake-ups are exact: the clock is only moved by
\* time, no signal restarts epoll_wait, and every period fits an int.
SteadyClock ==
    /\ ClockSet = {}
    /\ ~Signals
    /\ \A ms \in Periods : 2 * ms < IntRange

\* No timer is due later than a full period from now
Started ==
    /\ \A x \in m_timers \cup Constructed :
          m_ms[x] \in Periods /\ m_next[x] <= now + m_ms[x]
    /\ \A p \in Pollers : now_ms[p] <= now

\* Somebody is going to look at the timers before sleeping again
WakeComing ==
    \/ \E p \in Pollers : pc[p] # "wait"
    \/ ready
    \/ \E t \in Threads : pc[t] = "front"

\* m_tickled is only set while somebody is going to look
TickledMeansComing == m_tickled => WakeComing

Covered == \A x \in m_timers : \E p \in Pollers : left[p] <= TimeUntil(x)

WakeInv ==
    /\ TimerInv
    /\ Started
    /\ WaitBounded
    /\ TickledMeansComing
    /\ WakeComing \/ Covered

=============================================================================
