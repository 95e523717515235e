------------------------- MODULE TimerManagerProofs -------------------------
(***************************************************************************)
(* Theorems about TimerManager, for every set of timers, periods and       *)
(* threads, and every bound on the clock and on the operations.            *)
(***************************************************************************)
EXTENDS TimerManager, TLAPS

(***************************************************************************)
(* The life of a timer                                                     *)
(***************************************************************************)

\* Every step keeps the callback, the set and the history of a timer in
\* agreement.
LEMMA TimerStep ==
    ASSUME TimerInv, [Next]_vars
    PROVE  TimerInv'
<1> USE TimersAssumption
    DEF TimerInv, Threads
<1>1. ASSUME NEW t \in Threads, NEW x \in Timers, NEW ms \in Periods, Construct(t, x, ms)
      PROVE  TimerInv'
  <2>1. TypeOK'
    BY <1>1 DEF Construct, Goto, TypeOK, UserPc, IdlePc, clock, poller, history
  <2>2. Fresh'
    BY <1>1 DEF Construct, Goto, TypeOK, Fresh, clock, poller, history
  <2>3. x \notin m_timers /\ x \notin m_cb /\ fired[x] = 0
    BY <1>1 DEF Construct, Lifecycle, Constructed
  <2>4. Lifecycle'
    <3>1. m_cb' \subseteq (live \cup Constructed)'
      <4>1. \A u \in Threads : arg[u] # {} => u # t
        BY <1>1 DEF Construct, Fresh
      <4>2. \A u \in Threads : arg[u] \subseteq arg'[u]
        BY <1>1, <4>1 DEF Construct, TypeOK
      <4>3. x \in arg'[t]
        BY <1>1 DEF Construct, TypeOK
      <4> QED BY <1>1, <4>2, <4>3 DEF Construct, Lifecycle, Constructed
    <3> QED BY <1>1, <2>3, <3>1 DEF Construct, Lifecycle, history
  <2>5. CbMeansQueued' /\ OneShotOnce'
    BY <1>1, <2>3 DEF Construct, CbMeansQueued, OneShotOnce, history
  <2> QED BY <2>1, <2>2, <2>4, <2>5
<1>2. ASSUME NEW t \in Threads, Insert(t)
      PROVE  TimerInv'
  <2>1. PICK x \in arg[t] :
            /\ m_timers' = m_timers \cup {x}
            /\ live' = live \cup {x}
            /\ m_tickled' \in BOOLEAN
            /\ pc' = [pc EXCEPT ![t] = "front"] \/ pc' = [pc EXCEPT ![t] = "busy"]
    BY <1>2 DEF Insert, InsertTimer, Goto, TypeOK
  <2>2. /\ x \in Timers /\ x \notin live /\ x \in m_cb
        /\ \A u \in Threads : x \in arg[u] => u = t
    BY <2>1 DEF Fresh, TypeOK
  <2>3. arg[t] = {x}
    BY <2>1 DEF Fresh
  <2>4. TypeOK'
    BY <1>2, <2>1, <2>2 DEF Insert, TypeOK, UserPc, IdlePc, clock, poller, history
  <2>5. Fresh'
    BY <1>2, <2>1, <2>2 DEF Insert, TypeOK, Fresh
  <2>6. Lifecycle'
    <3>1. m_cb' \subseteq (live \cup Constructed)'
      BY <1>2, <2>1, <2>3 DEF Insert, Lifecycle, Constructed, TypeOK
    <3> QED BY <1>2, <2>1, <2>2, <3>1 DEF Insert, Lifecycle, history
  <2>7. CbMeansQueued' /\ OneShotOnce'
    BY <1>2, <2>1, <2>2 DEF Insert, CbMeansQueued, OneShotOnce, Lifecycle, history
  <2> QED BY <2>4, <2>5, <2>6, <2>7
<1>3. ASSUME NEW t \in Threads, InsertedAtFront(t)
      PROVE  TimerInv'
  <2>1. TypeOK'
    BY <1>3 DEF InsertedAtFront, Goto, TypeOK, UserPc, IdlePc, clock, poller, history
  <2>2. Fresh'
    BY <1>3 DEF InsertedAtFront, Goto, TypeOK, Fresh
  <2>3. Lifecycle' /\ CbMeansQueued' /\ OneShotOnce'
    BY <1>3 DEF InsertedAtFront, Lifecycle, Constructed, CbMeansQueued, OneShotOnce, history
  <2> QED BY <2>1, <2>2, <2>3
<1>4. ASSUME NEW t \in Threads, NEW x \in Timers, Cancel(t, x)
      PROVE  TimerInv'
  <2>1. TypeOK'
    BY <1>4 DEF Cancel, Operate, TypeOK, clock, poller, history
  <2>2. Fresh'
    BY <1>4 DEF Cancel, Operate, Fresh
  <2>3. Lifecycle' /\ CbMeansQueued'
    BY <1>4 DEF Cancel, Operate, Lifecycle, Constructed, CbMeansQueued
  <2>4. OneShotOnce'
    BY <1>4 DEF Cancel, Operate, OneShotOnce, Lifecycle
  <2> QED BY <2>1, <2>2, <2>3, <2>4
<1>5. ASSUME NEW t \in Threads, NEW x \in Timers, Refresh(t, x)
      PROVE  TimerInv'
  <2>1. TypeOK'
    BY <1>5 DEF Refresh, Operate, TypeOK, clock, poller, history
  <2>2. Fresh' /\ Lifecycle' /\ CbMeansQueued' /\ OneShotOnce'
    BY <1>5 DEF Refresh, Fresh, Lifecycle, Constructed, CbMeansQueued, OneShotOnce, history
  <2> QED BY <2>1, <2>2
<1>6. ASSUME NEW t \in Threads, NEW x \in Timers, NEW ms \in Periods, NEW fn \in BOOLEAN,
             Reset(t, x, ms, fn)
      PROVE  TimerInv'
  <2>1. /\ m_timers' = m_timers
        /\ m_tickled' \in BOOLEAN
        /\ pc' = [pc EXCEPT ![t] = "front"] \/ pc' = [pc EXCEPT ![t] = "busy"]
        /\ m_next' \in [Timers -> Int]
    <3>1. m_timers' = m_timers
      BY <1>6 DEF Reset, InsertTimer
    <3>2. /\ m_tickled' \in BOOLEAN
          /\ pc' = [pc EXCEPT ![t] = "front"] \/ pc' = [pc EXCEPT ![t] = "busy"]
      BY <1>6 DEF Reset, InsertTimer, Goto, TypeOK
    <3>3. ms \in Int /\ now \in Int /\ m_next[x] - m_ms[x] \in Int
      BY DEF TypeOK
    <3>4. m_next' \in [Timers -> Int]
      BY <1>6, <3>3 DEF Reset, TypeOK
    <3> QED BY <3>1, <3>2, <3>4
  <2>2. TypeOK'
    BY <1>6, <2>1 DEF Reset, Operate, TypeOK, UserPc, IdlePc, clock, poller, history
  <2>3. Fresh'
    BY <1>6, <2>1 DEF Reset, Operate, TypeOK, Fresh
  <2>4. Lifecycle' /\ CbMeansQueued' /\ OneShotOnce'
    BY <1>6, <2>1 DEF Reset, Lifecycle, Constructed, CbMeansQueued, OneShotOnce, history
  <2> QED BY <2>2, <2>3, <2>4
<1>7. ASSUME NEW p \in Pollers, EnterIdle(p)
      PROVE  TimerInv'
  <2>1. TypeOK'
    BY <1>7 DEF EnterIdle, Goto, TypeOK, UserPc, IdlePc, clock, poller, history
  <2>2. Fresh'
    BY <1>7 DEF EnterIdle, Goto, TypeOK, Fresh
  <2>3. Lifecycle' /\ CbMeansQueued' /\ OneShotOnce'
    BY <1>7 DEF EnterIdle, Lifecycle, Constructed, CbMeansQueued, OneShotOnce, history
  <2> QED BY <2>1, <2>2, <2>3
<1>8. ASSUME NEW p \in Pollers, GetNextTimer(p)
      PROVE  TimerInv'
  <2>1. /\ left' \in [Pollers -> Int]
        /\ next_timeout' \in [Pollers -> Int]
    <3>1. \A x \in Timers : TimeToNext(x) \in Int
      BY DEF TimeToNext, EpollTimeout, Int32, TypeOK
    <3> QED BY <1>8, <3>1 DEF GetNextTimer, TypeOK
  <2>2. TypeOK'
    BY <1>8, <2>1 DEF GetNextTimer, Goto, TypeOK, UserPc, IdlePc, clock, history
  <2>3. Fresh'
    BY <1>8 DEF GetNextTimer, Goto, TypeOK, Fresh
  <2>4. Lifecycle' /\ CbMeansQueued' /\ OneShotOnce'
    BY <1>8 DEF GetNextTimer, Lifecycle, Constructed, CbMeansQueued, OneShotOnce, history
  <2> QED BY <2>2, <2>3, <2>4
<1>9. ASSUME NEW p \in Pollers, Wake(p)
      PROVE  TimerInv'
  <2>1. TypeOK'
    <3>1. ready' \in BOOLEAN
      BY <1>9 DEF Wake, TypeOK
    <3>2. now_ms' \in [Pollers -> 0..MaxTime] /\ left' \in [Pollers -> Int]
      BY <1>9 DEF Wake, TypeOK
    <3>3. next_timeout' \in [Pollers -> Int]
      BY <1>9 DEF Wake, TypeOK
    <3> QED BY <1>9, <3>1, <3>2, <3>3 DEF Wake, Goto, TypeOK, UserPc, IdlePc, clock, history
  <2>2. Fresh'
    BY <1>9 DEF Wake, Goto, TypeOK, Fresh
  <2>3. Lifecycle' /\ CbMeansQueued' /\ OneShotOnce'
    BY <1>9 DEF Wake, Lifecycle, Constructed, CbMeansQueued, OneShotOnce, history
  <2> QED BY <2>1, <2>2, <2>3
<1>10. ASSUME NEW p \in Pollers, CheckEmpty(p)
      PROVE  TimerInv'
  <2>1. TypeOK'
    BY <1>10 DEF CheckEmpty, Goto, TypeOK, UserPc, IdlePc, clock, poller, history
  <2>2. Fresh'
    BY <1>10 DEF CheckEmpty, Goto, TypeOK, Fresh
  <2>3. Lifecycle' /\ CbMeansQueued' /\ OneShotOnce'
    BY <1>10 DEF CheckEmpty, Lifecycle, Constructed, CbMeansQueued, OneShotOnce, history
  <2> QED BY <2>1, <2>2, <2>3
<1>11. ASSUME NEW p \in Pollers, ListExpired(p)
      PROVE  TimerInv'
  <2>1. TypeOK'
    BY <1>11 DEF ListExpired, Goto, TypeOK, UserPc, IdlePc
  <2>2. Expired(p) \subseteq m_timers
    BY DEF Expired
  <2>3. Fresh'
    BY <1>11, <2>2 DEF ListExpired, Goto, TypeOK, Fresh, Lifecycle
  <2>4. Lifecycle' /\ CbMeansQueued'
    BY <1>11, <2>2 DEF ListExpired, Lifecycle, Constructed, CbMeansQueued, TypeOK
  <2>5. OneShotOnce'
    BY <1>11, <2>2 DEF ListExpired, OneShotOnce, Lifecycle, CbMeansQueued, TypeOK
  <2> QED BY <2>1, <2>3, <2>4, <2>5
<1>12. ASSUME NEW p \in Pollers, Interrupted(p)
       PROVE  TimerInv'
  <2>1. TypeOK'
    BY <1>12 DEF Interrupted, TypeOK, clock, poller, history
  <2>2. Fresh' /\ Lifecycle' /\ CbMeansQueued' /\ OneShotOnce'
    BY <1>12 DEF Interrupted, Fresh, Lifecycle, Constructed, CbMeansQueued, OneShotOnce, history
  <2> QED BY <2>1, <2>2
<1>13. CASE Tick
  <2>1. TypeOK'
    BY <1>13 DEF Tick, TypeOK, clock, poller, history
  <2>2. Fresh' /\ Lifecycle' /\ CbMeansQueued' /\ OneShotOnce'
    BY <1>13 DEF Tick, Fresh, Lifecycle, Constructed, CbMeansQueued, OneShotOnce, history
  <2> QED BY <2>1, <2>2
<1>14. ASSUME NEW n \in ClockSet, SetClock(n)
       PROVE  TimerInv'
  <2>1. TypeOK'
    BY <1>14 DEF SetClock, TypeOK, clock, poller, history
  <2>2. Fresh' /\ Lifecycle' /\ CbMeansQueued' /\ OneShotOnce'
    BY <1>14 DEF SetClock, Fresh, Lifecycle, Constructed, CbMeansQueued, OneShotOnce, history
  <2> QED BY <2>1, <2>2
<1>15. CASE UNCHANGED vars
  <2>1. TypeOK'
    BY <1>15 DEF vars, TypeOK, clock, poller, history
  <2>2. Fresh' /\ Lifecycle' /\ CbMeansQueued' /\ OneShotOnce'
    BY <1>15 DEF vars, Fresh, Lifecycle, Constructed, CbMeansQueued, OneShotOnce, history
  <2> QED BY <2>1, <2>2
<1> QED
  BY <1>1, <1>2, <1>3, <1>4, <1>5, <1>6, <1>7, <1>8, <1>9, <1>10, <1>11, <1>12, <1>13,
     <1>14, <1>15 DEF Next, User, Poll, Horizon

\* No timer exists yet.
LEMMA TimerInit ==
    ASSUME Init PROVE TimerInv
<1>1. TypeOK
  <2>1. Hour \in 0..MaxTime /\ 0 \in 0..MaxTime /\ 0 \in 0..MaxOps
    BY TimersAssumption
  <2>2. /\ m_next \in [Timers -> Int] /\ m_ms \in [Timers -> Nat]
        /\ fired \in [Timers -> Nat]
        /\ now_ms \in [Pollers -> 0..MaxTime]
        /\ left \in [Pollers -> Int] /\ next_timeout \in [Pollers -> Int]
    BY <2>1 DEF Init
  <2> QED BY <2>1, <2>2 DEF Init, TypeOK, UserPc, IdlePc, Threads
<1>2. Fresh /\ Lifecycle /\ CbMeansQueued /\ OneShotOnce
  BY DEF Init, Fresh, Lifecycle, Constructed, CbMeansQueued, OneShotOnce
<1> QED BY <1>1, <1>2 DEF TimerInv

\* The set of timers and what the pollers remember between two locks keep their types,
\* whatever the clock and the signals do.
THEOREM TimerTypeCorrect == Spec => []TypeOK
<1>1. TimerInv => TypeOK
  BY DEF TimerInv
<1> QED BY <1>1, TimerInit, TimerStep, PTL DEF Spec

\* A timer has its callback exactly while it is in the set, so cancel() always
\* finds what it erases.
THEOREM CbMeansQueuedCorrect == Spec => []CbMeansQueued
<1>1. TimerInv => CbMeansQueued
  BY DEF TimerInv
<1> QED BY <1>1, TimerInit, TimerStep, PTL DEF Spec

\* A one-shot timer fires at most once, and not at all once cancelled.
THEOREM OneShotOnceCorrect == Spec => []OneShotOnce
<1>1. TimerInv => OneShotOnce
  BY DEF TimerInv
<1> QED BY <1>1, TimerInit, TimerStep, PTL DEF Spec

\* A cancelled timer, one-shot or recurring, is never listed again.
THEOREM CancelFinalCorrect == Spec => CancelFinal
<1>1. ASSUME TimerInv, [Next]_vars
      PROVE  [\A x \in cancelled : x \in cancelled' /\ fired'[x] = fired[x]]_vars
  <2> SUFFICES ASSUME NEW x \in cancelled
               PROVE  x \in cancelled' /\ fired'[x] = fired[x]
    OBVIOUS
  <2>1. x \in Timers /\ x \notin m_timers
    BY <1>1 DEF TimerInv, TypeOK, Lifecycle, CbMeansQueued
  <2>2. CASE \E p \in Pollers : ListExpired(p)
    BY <1>1, <2>1, <2>2 DEF ListExpired, Expired, TimerInv, TypeOK
  <2>3. CASE \E t \in Threads : \E y \in Timers : Cancel(t, y)
    BY <2>3 DEF Cancel
  <2>4. CASE UNCHANGED <<fired, cancelled>>
    BY <2>4
  <2> QED
    BY <1>1, <2>2, <2>3, <2>4
    DEF Next, User, Poll, Horizon, Construct, Insert, InsertedAtFront, Refresh, Reset,
        EnterIdle, GetNextTimer, Wake, CheckEmpty, Interrupted, Tick, SetClock, history, vars
<1> QED BY <1>1, TimerInit, TimerStep, PTL DEF Spec, CancelFinal

(***************************************************************************)
(* No poller sleeps past a timer                                           *)
(***************************************************************************)

\* A value that fits an int survives the cast.
LEMMA Int32Identity ==
    ASSUME NEW n \in Nat, 2 * n < IntRange
    PROVE  Int32(n) = n
<1>1. n % IntRange = n
  BY TimersAssumption
<1> QED BY <1>1, TimersAssumption DEF Int32

\* A thread that is not about to sleep, and leaves no timer uncovered, keeps
\* the wake-up guarantee.
LEMMA WakeStep ==
    ASSUME SteadyClock, WakeInv, [Next]_vars
    PROVE  WakeInv'
<1> USE TimersAssumption DEF WakeInv, SteadyClock, Threads
<1>0. TimerInv'
  BY TimerStep
<1>a. TypeOK /\ TypeOK' /\ m_timers \subseteq Timers
  BY <1>0 DEF TimerInv, TypeOK
<1>1. ASSUME NEW t \in Threads, NEW x \in Timers, NEW ms \in Periods, Construct(t, x, ms)
      PROVE  WakeInv'
  <2>1. x \notin m_timers /\ \A u \in Threads : arg[u] # {} => u # t
    BY <1>1 DEF TimerInv, Lifecycle, Fresh, Construct
  <2>2. Started'
    BY <1>1, <1>a, <2>1 DEF Construct, Started, Constructed, TypeOK, clock, poller
  <2>3. WaitBounded' /\ (WakeComing => WakeComing')
    BY <1>1, <1>a DEF Construct, Goto, WaitBounded, WakeComing, TypeOK, poller
  <2>4. Covered => Covered'
    BY <1>1, <1>a, <2>1 DEF Construct, Covered, TimeUntil, TypeOK, clock, poller
  <2> QED BY <1>0, <1>1, <2>2, <2>3, <2>4 DEF Construct, TickledMeansComing
<1>2. ASSUME NEW t \in Threads, Insert(t)
      PROVE  WakeInv'
  <2>1. PICK x \in arg[t] : InsertTimer(t, x, m_timers, m_next)
    BY <1>2 DEF Insert
  <2>2. x \in Timers /\ m_timers' = m_timers \cup {x}
    BY <1>a, <2>1 DEF TypeOK, InsertTimer
  <2>3. Started'
    BY <1>2, <1>a, <2>2 DEF Insert, Started, Constructed, TypeOK, clock, poller
  <2>4. WaitBounded'
    BY <1>2, <1>a, <2>1 DEF Insert, InsertTimer, Goto, WaitBounded, TypeOK, poller
  <2>5. CASE m_tickled' /\ pc' = [pc EXCEPT ![t] = "front"]
    <3>1. WakeComing'
      BY <1>a, <2>5 DEF WakeComing, TypeOK
    <3> QED BY <1>0, <2>3, <2>4, <3>1 DEF TickledMeansComing
  <2>6. CASE m_tickled' = m_tickled /\ pc' = [pc EXCEPT ![t] = "busy"]
    <3>1. WakeComing => WakeComing'
      BY <1>2, <1>a, <2>6 DEF Insert, WakeComing, TypeOK
    <3>2. CASE m_tickled
      BY <1>0, <2>3, <2>4, <2>6, <3>1, <3>2 DEF TickledMeansComing
    <3>3. CASE ~m_tickled
      <4>1. PICK y \in m_timers : m_next[y] <= m_next[x]
        BY <1>a, <2>1, <2>6, <3>3 DEF InsertTimer, Goto, TypeOK
      <4>2. Covered => Covered'
        BY <1>2, <1>a, <2>2, <4>1 DEF Insert, Covered, TimeUntil, TypeOK, clock, poller
      <4> QED BY <1>0, <2>3, <2>4, <2>6, <3>1, <3>3, <4>2 DEF TickledMeansComing
    <3> QED BY <3>2, <3>3
  <2> QED BY <2>1, <2>5, <2>6 DEF InsertTimer, Goto
<1>3. ASSUME NEW t \in Threads, InsertedAtFront(t)
      PROVE  WakeInv'
  <2>1. WakeComing'
    BY <1>3, <1>a DEF InsertedAtFront, Goto, WakeComing, HasIdleThreads, IdlePc, TypeOK
  <2>2. Started' /\ WaitBounded'
    BY <1>3, <1>a DEF InsertedAtFront, Goto, Started, Constructed, WaitBounded, TypeOK,
       clock, poller
  <2> QED BY <1>0, <2>1, <2>2 DEF TickledMeansComing
<1>4. ASSUME NEW t \in Threads, NEW x \in Timers, Cancel(t, x)
      PROVE  WakeInv'
  BY <1>0, <1>4 DEF Cancel, Started, Constructed, WaitBounded, TickledMeansComing, WakeComing,
     Covered, TimeUntil, clock, poller
<1>5. ASSUME NEW t \in Threads, NEW x \in Timers, Refresh(t, x)
      PROVE  WakeInv'
  <2>1. m_next'[x] >= m_next[x] /\ \A y \in Timers \ {x} : m_next'[y] = m_next[y]
    BY <1>5, <1>a DEF Refresh, Started, TypeOK
  <2>2. Started'
    BY <1>5, <1>a DEF Refresh, Started, Constructed, TypeOK, clock, poller
  <2>3. Covered => Covered'
    BY <1>5, <1>a, <2>1 DEF Refresh, Covered, TimeUntil, TypeOK, clock, poller
  <2> QED BY <1>0, <1>5, <2>2, <2>3 DEF Refresh, WaitBounded, TickledMeansComing, WakeComing,
     poller
<1>6. ASSUME NEW t \in Threads, NEW x \in Timers, NEW ms \in Periods, NEW fn \in BOOLEAN,
             Reset(t, x, ms, fn)
      PROVE  WakeInv'
  <2>1. x \in m_timers /\ m_timers' = m_timers /\ InsertTimer(t, x, m_timers \ {x}, m_next')
    BY <1>6 DEF Reset, InsertTimer
  <2>2. /\ m_next'[x] <= now + ms
        /\ \A y \in Timers \ {x} : m_next'[y] = m_next[y]
    BY <1>6, <1>a, <2>1 DEF Reset, Started, TypeOK
  <2>3. Started'
    BY <1>6, <1>a, <2>1, <2>2 DEF Reset, Started, Constructed, TypeOK, clock, poller
  <2>4. WaitBounded'
    BY <1>6, <1>a, <2>1 DEF Reset, InsertTimer, Goto, WaitBounded, TypeOK, poller
  <2>5. CASE m_tickled' /\ pc' = [pc EXCEPT ![t] = "front"]
    <3>1. WakeComing'
      BY <1>a, <2>5 DEF WakeComing, TypeOK
    <3> QED BY <1>0, <2>3, <2>4, <3>1 DEF TickledMeansComing
  <2>6. CASE m_tickled' = m_tickled /\ pc' = [pc EXCEPT ![t] = "busy"]
    <3>1. WakeComing => WakeComing'
      BY <1>6, <1>a, <2>6 DEF Reset, Operate, WakeComing, TypeOK
    <3>2. CASE m_tickled
      BY <1>0, <2>3, <2>4, <2>6, <3>1, <3>2 DEF TickledMeansComing
    <3>3. CASE ~m_tickled
      <4>1. PICK y \in m_timers \ {x} : m_next'[y] <= m_next'[x]
        BY <1>a, <2>1, <2>6, <3>3 DEF InsertTimer, Goto, TypeOK
      <4>2. Covered => Covered'
        BY <1>6, <1>a, <2>1, <2>2, <4>1 DEF Reset, Covered, TimeUntil, TypeOK, clock, poller
      <4> QED BY <1>0, <2>3, <2>4, <2>6, <3>1, <3>3, <4>2 DEF TickledMeansComing
    <3> QED BY <3>2, <3>3
  <2> QED BY <2>1, <2>5, <2>6 DEF InsertTimer, Goto
<1>7. ASSUME NEW p \in Pollers, EnterIdle(p)
      PROVE  WakeInv'
  BY <1>0, <1>7, <1>a DEF EnterIdle, Goto, Started, Constructed, WaitBounded,
     TickledMeansComing, WakeComing, TypeOK, clock, poller
<1>8. ASSUME NEW p \in Pollers, GetNextTimer(p)
      PROVE  WakeInv'
  <2>1. ASSUME NEW x \in m_timers
        PROVE  TimeToNext(x) \in 0..MAX_TIMEOUT /\ TimeToNext(x) <= TimeUntil(x)
    <3>1. CASE now >= m_next[x]
      BY <1>a, <2>1, <3>1 DEF TimeToNext, TimeUntil, TypeOK
    <3>2. CASE now < m_next[x]
      <4>1. m_next[x] - now \in Nat /\ 2 * (m_next[x] - now) < IntRange
        BY <1>a, <2>1, <3>2 DEF Started, TypeOK
      <4>2. Int32(m_next[x] - now) = m_next[x] - now
        BY <4>1, Int32Identity
      <4> QED BY <1>a, <2>1, <3>2, <4>1, <4>2
        DEF TimeToNext, TimeUntil, EpollTimeout, TypeOK
    <3> QED BY <1>a, <2>1, <3>1, <3>2 DEF TypeOK
  <2>2. left'[p] \in 0..MAX_TIMEOUT /\ \A q \in Pollers \ {p} : left'[q] = left[q]
    BY <1>8, <1>a, <2>1 DEF GetNextTimer, TypeOK
  <2>3. \A x \in m_timers : left'[p] <= TimeUntil(x)
    <3> SUFFICES ASSUME NEW x \in m_timers
                 PROVE  left'[p] <= TimeUntil(x)
      OBVIOUS
    <3>1. PICK y \in m_timers : First(y, m_timers, m_next) /\ left'[p] = TimeToNext(y)
      BY <1>8, <1>a DEF GetNextTimer, TypeOK
    <3>2. TimeUntil(y) <= TimeUntil(x) /\ TimeUntil(y) \in Int /\ TimeUntil(x) \in Int
      BY <1>a, <3>1 DEF First, TimeUntil, TypeOK
    <3> QED BY <2>1, <3>1, <3>2
  <2>4. Covered'
    BY <1>8, <2>3 DEF GetNextTimer, Covered, TimeUntil, clock
  <2>5. Started' /\ WaitBounded'
    BY <1>8, <1>a, <2>2 DEF GetNextTimer, Goto, Started, Constructed, WaitBounded, TypeOK, clock
  <2> QED BY <1>0, <1>8, <2>4, <2>5 DEF GetNextTimer, TickledMeansComing
<1>9. ASSUME NEW p \in Pollers, Wake(p) \/ CheckEmpty(p)
      PROVE  WakeInv'
  <2>1. WakeComing'
    BY <1>9, <1>a DEF Wake, CheckEmpty, Goto, WakeComing, TypeOK
  <2>2. Started'
    BY <1>9, <1>a DEF Wake, CheckEmpty, Started, Constructed, TypeOK, clock
  <2>3. WaitBounded'
    BY <1>9, <1>a DEF Wake, CheckEmpty, Goto, WaitBounded, TypeOK
  <2> QED BY <1>0, <2>1, <2>2, <2>3 DEF TickledMeansComing
<1>10. ASSUME NEW p \in Pollers, ListExpired(p)
      PROVE  WakeInv'
  <2>1. WakeComing'
    BY <1>10, <1>a DEF ListExpired, Goto, WakeComing, TypeOK
  <2>2. Started'
    <3>1. \A q \in Pollers : now_ms'[q] <= now'
      BY <1>10, <1>a DEF ListExpired, Started, TypeOK
    <3>2. m_timers' \subseteq m_timers /\ Constructed' = Constructed
          /\ UNCHANGED <<now, m_ms>>
      BY <1>10 DEF ListExpired, Constructed
    <3>3. \A x \in Timers : m_next'[x] = m_next[x] \/ m_next'[x] = now_ms[p] + m_ms[x]
      BY <1>10 DEF ListExpired
    <3>4. now_ms[p] <= now /\ now_ms[p] \in Int /\ now \in Int /\ m_ms \in [Timers -> Nat]
          /\ m_next \in [Timers -> Int]
      BY <1>a DEF Started, TypeOK
    <3>5. \A x \in m_timers' \cup Constructed' : m_ms'[x] \in Periods /\ m_next'[x] <= now' + m_ms'[x]
      <4> TAKE x \in m_timers' \cup Constructed'
      <4>1. x \in Timers /\ m_ms[x] \in Periods /\ m_next[x] <= now + m_ms[x]
        BY <1>a, <3>2 DEF Started, Constructed
      <4>2. m_ms[x] \in Nat
        BY <3>4, <4>1
      <4> QED BY <3>2, <3>3, <3>4, <4>1, <4>2
    <3> QED BY <3>1, <3>5 DEF Started
  <2>3. WaitBounded'
    BY <1>10, <1>a DEF ListExpired, Goto, WaitBounded, TypeOK
  <2> QED BY <1>0, <2>1, <2>2, <2>3 DEF TickledMeansComing
<1>11. CASE Tick
  <2>1. Started'
    BY <1>11, <1>a DEF Tick, Started, Constructed, TypeOK
  <2>2. WaitBounded' /\ (WakeComing <=> WakeComing')
    BY <1>11, <1>a DEF Tick, WaitBounded, WakeComing, TypeOK
  <2>3. ASSUME Covered, ~WakeComing
        PROVE  Covered'
    <3> SUFFICES ASSUME NEW x \in m_timers
                 PROVE  \E p \in Pollers : left'[p] <= TimeUntil(x)'
      BY <1>11 DEF Tick, Covered
    <3>1. PICK p \in Pollers : left[p] <= TimeUntil(x)
      BY <2>3 DEF Covered
    <3>2. pc[p] = "wait" /\ left[p] \in 0..MAX_TIMEOUT
      BY <2>3 DEF WakeComing, WaitBounded
    <3>3. left'[p] = IF left[p] > 0 THEN left[p] - 1 ELSE left[p]
      BY <1>11, <3>2 DEF Tick
    <3>4. TimeUntil(x)' >= TimeUntil(x) - 1 /\ TimeUntil(x)' >= 0
          /\ TimeUntil(x) \in Int /\ TimeUntil(x)' \in Int
      BY <1>11, <1>a DEF Tick, TimeUntil, TypeOK
    <3> QED BY <3>1, <3>2, <3>3, <3>4
  <2> QED BY <1>0, <1>11, <2>1, <2>2, <2>3 DEF Tick, TickledMeansComing
<1>12. CASE UNCHANGED vars
  BY <1>0, <1>12 DEF vars, Started, Constructed, WaitBounded, TickledMeansComing, WakeComing,
     Covered, TimeUntil
<1> QED
  BY <1>1, <1>2, <1>3, <1>4, <1>5, <1>6, <1>7, <1>8, <1>9, <1>10, <1>11, <1>12
  DEF Next, User, Poll, Horizon, Interrupted

\* All pollers are awake.
LEMMA WakeInit ==
    ASSUME Init PROVE WakeInv
<1>1. Started /\ WaitBounded
  BY TimersAssumption DEF Init, Started, Constructed, WaitBounded, Threads
<1> QED BY <1>1, TimerInit DEF Init, WakeInv, TickledMeansComing, Covered

\* If the clock only moves with time, signals do not restart epoll_wait and the
\* periods fit an int, then no poller ever sleeps past a timer while all of
\* them sleep, for any number of pollers and of threads that add timers.
THEOREM NoMissedWakeCorrect ==
    ASSUME SteadyClock
    PROVE  Spec => []NoMissedWake
<1>1. WakeInv => NoMissedWake
  BY DEF WakeInv, NoMissedWake, WakeComing, Covered, WaitBounded, TimerInv, TypeOK
<1> QED BY <1>1, WakeInit, WakeStep, PTL DEF Spec

\* Under the same conditions epoll_wait never sleeps longer than MAX_TIMEOUT.
THEOREM WaitBoundedCorrect ==
    ASSUME SteadyClock
    PROVE  Spec => []WaitBounded
<1>1. WakeInv => WaitBounded
  BY DEF WakeInv
<1> QED BY <1>1, WakeInit, WakeStep, PTL DEF Spec

=============================================================================
