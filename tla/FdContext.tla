----------------------------- MODULE FdContext -----------------------------
(***************************************************************************)
(* The handle events of ljrServer/iomanager.cpp: the table m_fdContexts of *)
(* FdContext objects, addEvent, delEvent, cancelEvent and cancelAll, the   *)
(* part of IOManager::idle that handles what epoll_wait returned, and the  *)
(* count m_pendingEventCount on which IOManager::stopping rests.           *)
(*                                                                         *)
(* The threads of the IOManager alternate between running tasks, which     *)
(* call the operations, and polling. The kernel's epoll instance is        *)
(* modelled by how the code uses it: one interest mask for each handle.    *)
(***************************************************************************)
EXTENDS Integers, FiniteSets

CONSTANTS
    Threads,      \* threads of the IOManager
    Fds,          \* file descriptors
    Closable,     \* those that tasks may close
    InitialSize,  \* the size the constructor gives m_fdContexts (32)
    MaxAdds       \* bound on the calls of addEvent

ASSUME FdsAssumption ==
    /\ IsFiniteSet(Threads)
    /\ Fds \subseteq Nat
    /\ Closable \subseteq Fds
    /\ InitialSize \in Nat \ {0, 1}
    /\ MaxAdds \in Nat

Event == {"READ", "WRITE"}

VARIABLES
    size,       \* m_fdContexts.size()
    slot,       \* the object m_fdContexts[fd], numbered from 1; 0 if none
    created,    \* how many objects contextResize created for each handle
    events,     \* <<fd, object, event>> : the event is set in FdContext::events
    waiter,     \* <<fd, object, event>> : the EventContext has a fiber or cb
    interest,   \* the kernel's interest mask of each handle, {} if none
    data,       \* the object epoll_event::data of the handle points to
    m_pendingEventCount,
    pc, arg,    \* where each thread is, and what it works on
    adds,       \* calls of addEvent so far
    alive       \* FALSE once an assertion of the IOManager failed

vars == <<size, slot, created, events, waiter, interest, data,
          m_pendingEventCount, pc, arg, adds, alive>>

(***************************************************************************)
(* busy   running tasks              grow    will resize the table         *)
(* add, del, cancel, all, close      has fetched the FdContext object      *)
(* poll   in epoll_wait              event   has an epoll_event to handle  *)
(* trig, trigclose  holds the FdContext mutex, about to triggerEvent       *)
(* dec, decclose    about to lower m_pendingEventCount                     *)
(* shut   cancelAll done, about to close the handle                        *)
(***************************************************************************)
Locking == {"trig", "trigclose", "dec", "decclose"}
ThreadPc == Locking \cup {"busy", "grow", "add", "del", "cancel", "all", "close",
                          "poll", "event", "shut"}

\* fd, object, the events an operation or an epoll result is about, and
\* whether the result has EPOLLERR or EPOLLHUP
Arg == [fd : Fds \cup {-1}, gen : Nat, ev : SUBSET Event, err : BOOLEAN]
NoArg == [fd |-> -1, gen |-> 0, ev |-> {}, err |-> FALSE]

TypeOK ==
    /\ size \in Nat
    /\ slot \in [Fds -> Nat]
    /\ created \in [Fds -> Nat]
    /\ events \subseteq Fds \X Nat \X Event
    /\ waiter \subseteq Fds \X Nat \X Event
    /\ interest \in [Fds -> SUBSET Event]
    /\ data \in [Fds -> Nat]
    /\ m_pendingEventCount \in Nat
    /\ pc \in [Threads -> ThreadPc]
    /\ arg \in [Threads -> Arg]
    /\ adds \in 0..MaxAdds
    /\ alive \in BOOLEAN

Init ==
    /\ size = InitialSize
    /\ slot = [fd \in Fds |-> IF fd < InitialSize THEN 1 ELSE 0]
    /\ created = slot
    /\ events = {}
    /\ waiter = {}
    /\ interest = [fd \in Fds |-> {}]
    /\ data = [fd \in Fds |-> 0]
    /\ m_pendingEventCount = 0
    /\ pc = [t \in Threads |-> "busy"]
    /\ arg = [t \in Threads |-> NoArg]
    /\ adds = 0
    /\ alive = TRUE

-----------------------------------------------------------------------------
\* The events set in FdContext object g of handle fd
EventsOf(fd, g) == {e \in Event : <<fd, g, e>> \in events}

\* The mutex of the object is held by a thread that triggers its events
Locked(fd, g) ==
    \E u \in Threads : pc[u] \in Locking /\ arg[u].fd = fd /\ arg[u].gen = g

table == <<size, slot, created>>
kernel == <<interest, data>>

Return(t) ==
    /\ pc' = [pc EXCEPT ![t] = "busy"]
    /\ arg' = [arg EXCEPT ![t] = NoArg]

Goto(t, loc, a) ==
    /\ pc' = [pc EXCEPT ![t] = loc]
    /\ arg' = [arg EXCEPT ![t] = a]

\* epoll_ctl with EPOLL_CTL_MOD (mask # {}) or EPOLL_CTL_DEL (mask = {}) fails
\* when the handle is not registered; MOD also stores the object
CtlKnown(fd) == interest[fd] # {}
CtlModDel(fd, g, mask) ==
    /\ interest' = [interest EXCEPT ![fd] = mask]
    /\ data' = [data EXCEPT ![fd] = IF mask = {} THEN 0 ELSE g]

-----------------------------------------------------------------------------
(* addEvent                                                                *)

\* addEvent under the read lock: take the object or see that the table is short
BeginAdd(t, fd, e) ==
    /\ pc[t] = "busy"
    /\ adds < MaxAdds
    /\ adds' = adds + 1
    /\ LET a == [NoArg EXCEPT !.fd = fd, !.ev = {e}, !.gen = slot[fd]]
       IN  Goto(t, IF size > fd THEN "add" ELSE "grow", a)
    /\ UNCHANGED <<table, events, waiter, kernel, m_pendingEventCount, alive>>

\* addEvent under the write lock: contextResize(fd * 1.5), which sets the size
\* whatever it was, and creates the missing objects
Grow(t) ==
    /\ pc[t] = "grow"
    /\ LET fd == arg[t].fd
           n  == (fd * 3) \div 2
           missing == {f \in Fds : f < n /\ slot[f] = 0}
       IN  /\ size' = n
           /\ created' = [f \in Fds |-> IF f \in missing THEN created[f] + 1 ELSE created[f]]
           /\ slot' = [f \in Fds |-> IF f >= n THEN 0
                                     ELSE IF f \in missing THEN created[f] + 1 ELSE slot[f]]
           /\ Goto(t, "add", [arg[t] EXCEPT !.gen = slot'[fd]])
    /\ UNCHANGED <<events, waiter, kernel, m_pendingEventCount, adds, alive>>

\* addEvent with the object's mutex
Add(t) ==
    /\ pc[t] = "add"
    /\ LET fd == arg[t].fd
           g  == arg[t].gen
           own == EventsOf(fd, g)
           new == {<<fd, g, e>> : e \in arg[t].ev}
           ok  == IF own = {} THEN interest[fd] = {} ELSE CtlKnown(fd)
       IN  /\ ~Locked(fd, g)
           /\ IF arg[t].ev \cap own # {} \/ (ok /\ new \cap waiter # {})
              THEN /\ alive' = FALSE
                   /\ UNCHANGED <<events, waiter, kernel, m_pendingEventCount>>
              ELSE /\ UNCHANGED alive
                   /\ IF ok
                      THEN /\ CtlModDel(fd, g, own \cup arg[t].ev)
                           /\ m_pendingEventCount' = m_pendingEventCount + 1
                           /\ events' = events \cup new
                           /\ waiter' = waiter \cup new
                      ELSE UNCHANGED <<events, waiter, kernel, m_pendingEventCount>>
    /\ Return(t)
    /\ UNCHANGED <<table, adds>>

-----------------------------------------------------------------------------
(* delEvent, cancelEvent, cancelAll and the close() of hook.cpp            *)

\* Their beginning under the read lock: fetch the object. A handle beyond the
\* table has none: they return, and close() goes on to close the handle.
Begin(t, op, fd, E) ==
    /\ pc[t] = "busy"
    /\ size > fd \/ op = "close"
    /\ Goto(t, IF size > fd THEN op ELSE "shut",
            [NoArg EXCEPT !.fd = fd, !.ev = E, !.gen = slot[fd]])
    /\ UNCHANGED <<table, events, waiter, kernel, m_pendingEventCount, adds, alive>>

\* Bug: delEvent forgets --m_pendingEventCount
DelNoCount(t) ==
    /\ pc[t] = "del"
    /\ LET fd == arg[t].fd
           g  == arg[t].gen
           own == EventsOf(fd, g)
           old == {<<fd, g, e>> : e \in arg[t].ev}
       IN  /\ ~Locked(fd, g)
           /\ IF arg[t].ev \subseteq own /\ CtlKnown(fd)
              THEN /\ CtlModDel(fd, g, own \ arg[t].ev)
                   /\ events' = events \ old
                   /\ waiter' = waiter \ old
              ELSE UNCHANGED <<events, waiter, kernel>>
    /\ Return(t)
    /\ UNCHANGED <<table, m_pendingEventCount, adds, alive>>

\* Bug: delEvent does not resetContext
DelNoReset(t) ==
    /\ pc[t] = "del"
    /\ LET fd == arg[t].fd
           g  == arg[t].gen
           own == EventsOf(fd, g)
           old == {<<fd, g, e>> : e \in arg[t].ev}
       IN  /\ ~Locked(fd, g)
           /\ IF arg[t].ev \subseteq own /\ CtlKnown(fd)
              THEN /\ CtlModDel(fd, g, own \ arg[t].ev)
                   /\ m_pendingEventCount' = m_pendingEventCount - 1
                   /\ events' = events \ old
              ELSE UNCHANGED <<events, kernel, m_pendingEventCount>>
    /\ Return(t)
    /\ UNCHANGED <<table, waiter, adds, alive>>

\* delEvent with the object's mutex: the waiter is dropped, not scheduled
Del(t) ==
    /\ pc[t] = "del"
    /\ LET fd == arg[t].fd
           g  == arg[t].gen
           own == EventsOf(fd, g)
           old == {<<fd, g, e>> : e \in arg[t].ev}
       IN  /\ ~Locked(fd, g)
           /\ IF arg[t].ev \subseteq own /\ CtlKnown(fd)
              THEN /\ CtlModDel(fd, g, own \ arg[t].ev)
                   /\ m_pendingEventCount' = m_pendingEventCount - 1
                   /\ events' = events \ old
                   /\ waiter' = waiter \ old
              ELSE UNCHANGED <<events, waiter, kernel, m_pendingEventCount>>
    /\ Return(t)
    /\ UNCHANGED <<table, adds, alive>>

\* cancelEvent with the object's mutex, up to triggerEvent
Cancel(t) ==
    /\ pc[t] = "cancel"
    /\ LET fd == arg[t].fd
           g  == arg[t].gen
           own == EventsOf(fd, g)
       IN  /\ ~Locked(fd, g)
           /\ IF arg[t].ev \subseteq own /\ CtlKnown(fd)
              THEN CtlModDel(fd, g, own \ arg[t].ev) /\ Goto(t, "trig", arg[t])
              ELSE UNCHANGED kernel /\ Return(t)
    /\ UNCHANGED <<table, events, waiter, m_pendingEventCount, adds, alive>>

\* cancelAll with the object's mutex, up to the first triggerEvent; close()
\* goes on to close the handle
CancelAll(t) ==
    /\ pc[t] \in {"all", "close"}
    /\ LET fd == arg[t].fd
           g  == arg[t].gen
           own == EventsOf(fd, g)
       IN  /\ ~Locked(fd, g)
           /\ IF own # {} /\ CtlKnown(fd)
              THEN /\ CtlModDel(fd, g, {})
                   /\ Goto(t, IF pc[t] = "all" THEN "trig" ELSE "trigclose",
                           [arg[t] EXCEPT !.ev = own])
              ELSE /\ UNCHANGED kernel
                   /\ IF pc[t] = "all" THEN Return(t) ELSE Goto(t, "shut", arg[t])
    /\ UNCHANGED <<table, events, waiter, m_pendingEventCount, adds, alive>>

\* close_f(fd): the kernel forgets the handle
Shut(t) ==
    /\ pc[t] = "shut"
    /\ CtlModDel(arg[t].fd, 0, {})
    /\ Return(t)
    /\ UNCHANGED <<table, events, waiter, m_pendingEventCount, adds, alive>>

-----------------------------------------------------------------------------
(* IOManager::idle                                                         *)

EnterPoll(t) ==
    /\ pc[t] = "busy"
    /\ Goto(t, "poll", NoArg)
    /\ UNCHANGED <<table, events, waiter, kernel, m_pendingEventCount, adds, alive>>

\* epoll_wait reports some of the events of interest, an error, or nothing. It
\* reports a handle once, and handling one handle's epoll_event touches no other
\* handle: a result with several is the same as several polls.
PollReturn(t) ==
    /\ pc[t] = "poll"
    /\ \/ Return(t)
       \/ \E fd \in Fds : \E E \in SUBSET interest[fd] : \E err \in BOOLEAN :
             /\ interest[fd] # {}
             /\ E # {} \/ err
             /\ Goto(t, "event", [fd |-> fd, gen |-> data[fd], ev |-> E, err |-> err])
    /\ UNCHANGED <<table, events, waiter, kernel, m_pendingEventCount, adds, alive>>

\* Bug: after an error both events are triggered, whether or not they are set
HandleEventErrAll(t) ==
    /\ pc[t] = "event"
    /\ LET fd == arg[t].fd
           g  == arg[t].gen
           own == EventsOf(fd, g)
           real_events == IF arg[t].err THEN Event ELSE arg[t].ev
       IN  /\ ~Locked(fd, g)
           /\ IF own \cap real_events # {} /\ CtlKnown(fd)
              THEN /\ CtlModDel(fd, g, own \ real_events)
                   /\ Goto(t, "trig", [arg[t] EXCEPT !.ev = real_events, !.err = FALSE])
              ELSE UNCHANGED kernel /\ Return(t)
    /\ UNCHANGED <<table, events, waiter, m_pendingEventCount, adds, alive>>

\* Bug: the kernel is not told to leave out the events that are handled
HandleEventNoCtl(t) ==
    /\ pc[t] = "event"
    /\ LET fd == arg[t].fd
           g  == arg[t].gen
           own == EventsOf(fd, g)
           real_events == arg[t].ev \cup (IF arg[t].err THEN own ELSE {})
       IN  /\ ~Locked(fd, g)
           /\ IF own \cap real_events # {}
              THEN Goto(t, "trig", [arg[t] EXCEPT !.ev = real_events, !.err = FALSE])
              ELSE Return(t)
    /\ UNCHANGED <<table, events, waiter, kernel, m_pendingEventCount, adds, alive>>

\* Handling one epoll_event with the object's mutex, up to triggerEvent
HandleEvent(t) ==
    /\ pc[t] = "event"
    /\ LET fd == arg[t].fd
           g  == arg[t].gen
           own == EventsOf(fd, g)
           real_events == arg[t].ev \cup (IF arg[t].err THEN own ELSE {})
       IN  /\ ~Locked(fd, g)
           /\ IF own \cap real_events # {} /\ CtlKnown(fd)
              THEN /\ CtlModDel(fd, g, own \ real_events)
                   /\ Goto(t, "trig", [arg[t] EXCEPT !.ev = real_events, !.err = FALSE])
              ELSE UNCHANGED kernel /\ Return(t)
    /\ UNCHANGED <<table, events, waiter, m_pendingEventCount, adds, alive>>

\* The event triggered next: READ before WRITE
NextOf(E) == IF "READ" \in E THEN "READ" ELSE "WRITE"

\* FdContext::triggerEvent: assert the event is set, clear it, schedule the
\* waiter
Trigger(t) ==
    /\ pc[t] \in {"trig", "trigclose"}
    /\ LET x == <<arg[t].fd, arg[t].gen, NextOf(arg[t].ev)>>
       IN  IF x \in events
           THEN /\ events' = events \ {x}
                /\ waiter' = waiter \ {x}
                /\ pc' = [pc EXCEPT ![t] = IF pc[t] = "trig" THEN "dec" ELSE "decclose"]
                /\ UNCHANGED alive
           ELSE /\ alive' = FALSE
                /\ UNCHANGED <<events, waiter, pc>>
    /\ UNCHANGED <<table, kernel, m_pendingEventCount, arg, adds>>

\* --m_pendingEventCount; go on with the other event, if any
Decrement(t) ==
    /\ pc[t] \in {"dec", "decclose"}
    /\ m_pendingEventCount' = m_pendingEventCount - 1
    /\ LET rest == arg[t].ev \ {NextOf(arg[t].ev)}
           a == [arg[t] EXCEPT !.ev = rest]
       IN  IF rest # {}
           THEN Goto(t, IF pc[t] = "dec" THEN "trig" ELSE "trigclose", a)
           ELSE IF pc[t] = "dec" THEN Return(t) ELSE Goto(t, "shut", a)
    /\ UNCHANGED <<table, events, waiter, kernel, adds, alive>>

-----------------------------------------------------------------------------
Step(t) ==
    \/ \E fd \in Fds : \E e \in Event :
          BeginAdd(t, fd, e) \/ Begin(t, "del", fd, {e}) \/ Begin(t, "cancel", fd, {e})
    \/ \E fd \in Fds : Begin(t, "all", fd, {})
    \/ \E fd \in Closable : Begin(t, "close", fd, {})
    \/ Grow(t) \/ Add(t) \/ Del(t) \/ Cancel(t) \/ CancelAll(t) \/ Shut(t)
    \/ EnterPoll(t) \/ PollReturn(t) \/ HandleEvent(t) \/ Trigger(t) \/ Decrement(t)

\* A failed assertion ends the process
Next ==
    \/ alive /\ \E t \in Threads : Step(t)
    \/ ~alive /\ UNCHANGED vars

Spec == Init /\ [][Next]_vars

-----------------------------------------------------------------------------
(* What the handle events must guarantee                                   *)

\* The threads between triggerEvent and --m_pendingEventCount
Decrementing == {t \in Threads : pc[t] \in {"dec", "decclose"}}

\* m_pendingEventCount is the number of events some task waits for, plus the
\* events whose waiter is scheduled but which are not subtracted yet: it never
\* reaches 0, and lets the IOManager stop, while a waiter is unscheduled.
PendingExact == m_pendingEventCount = Cardinality(events) + Cardinality(Decrementing)

\* An EventContext is filled exactly while its event is set.
ContextMatches == waiter = events

\* What a thread holding the mutex of the object is about to trigger
Triggering(fd, g) ==
    {e \in Event : \E t \in Threads :
        /\ pc[t] \in Locking
        /\ arg[t].fd = fd /\ arg[t].gen = g
        /\ e \in arg[t].ev}

\* The kernel watches exactly the events that are set in the handle's object
\* and not being triggered: no waiter is left without its epoll registration,
\* and no registration without a waiter.
KernelMatches ==
    \A fd \in Fds :
        /\ interest[fd] = EventsOf(fd, slot[fd]) \ Triggering(fd, slot[fd])
        /\ interest[fd] # {} => data[fd] = slot[fd]

\* On one thread, triggerEvent is only reached for an event that is still set, as its
\* assertion requires, though handles are closed and opened again and events are deleted
\* and cancelled between the polls. No result of epoll_wait is ever stale there: it is
\* handled before anything else runs. With a second thread it may be, and the code's
\* assertion can then fail.
TriggerAsserts ==
    \A t \in Threads :
        pc[t] \in {"trig", "trigclose"} =>
            <<arg[t].fd, arg[t].gen, NextOf(arg[t].ev)>> \in events

-----------------------------------------------------------------------------
(* The inductive invariants behind the theorems of FdContextProofs         *)

\* What a thread that has begun an operation works on
ArgShape ==
    \A t \in Threads :
        /\ pc[t] \notin {"busy", "poll"} => arg[t].fd \in Fds
        /\ pc[t] \in {"grow", "add", "del", "cancel"} =>
              \E e \in Event : arg[t].ev = {e}
        /\ pc[t] \in Locking => arg[t].ev # {}

PendingInv ==
    /\ TypeOK
    /\ IsFiniteSet(events)
    /\ ArgShape
    /\ PendingExact
    /\ ContextMatches

\* The assumption under which the kernel's view is exact: handles are not
\* closed, and the constructor made the table large enough.
FixedTable ==
    /\ Closable = {}
    /\ \A fd \in Fds : fd < InitialSize

\* Every handle has one object, and no more than one thread its mutex
OneObject ==
    /\ size = InitialSize
    /\ \A fd \in Fds : slot[fd] = 1
    /\ \A t \in Threads :
          /\ pc[t] \notin {"grow", "close", "trigclose", "decclose", "shut"}
          /\ pc[t] \notin {"busy", "poll"} => arg[t].gen = 1
    /\ \A t, u \in Threads :
          pc[t] \in Locking /\ pc[u] \in Locking /\ arg[t].fd = arg[u].fd => t = u

\* A thread about to lower the count has cleared the event
Cleared ==
    \A t \in Decrementing : <<arg[t].fd, arg[t].gen, NextOf(arg[t].ev)>> \notin events

KernelInv == PendingInv /\ OneObject /\ Cleared /\ KernelMatches

=============================================================================
