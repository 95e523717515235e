------------------------------- MODULE Hook -------------------------------
(***************************************************************************)
(* The hooked system calls (ljrServer/hook.cpp): fibers on the threads of  *)
(* an IOManager call sleep, socket, connect, accept, the reads and writes  *)
(* (all of them do_io), close, fcntl, ioctl and setsockopt.  A call that   *)
(* would block registers its fiber for the event, arms a timer and yields; *)
(* an event, the timer's callback or close() wakes it.                     *)
(*                                                                         *)
(* The IOManager is what the modules FdContext, TimerManager and Scheduler *)
(* make of it: addEvent, cancelEvent and cancelAll are single steps, a     *)
(* timer that is due becomes a callback some thread runs, and a fiber that *)
(* is scheduled before it has yielded runs again once it has.  Time is     *)
(* abstracted: an armed timer may expire whenever a thread is idle.  The   *)
(* kernel's sockets are external.                                          *)
(***************************************************************************)
EXTENDS FdManager, FiniteSets

CONSTANTS
    Fibers,         \* the fibers that make calls
    Calls,          \* the calls fibers make, records of CallType
    InitialOpen,    \* sockets the program has created before
    Pools,          \* the deployments to consider: records of PoolType
    MaxCalls,       \* bound: how many calls each fiber makes
    NoFiber         \* no fiber waits

IoOps == {"recv", "send", "accept"}
WaitOps == IoOps \cup {"connect"}
SetOps == {"fcntl", "ioctl", "setsockopt"}
Ops == WaitOps \cup SetOps \cup {"sleep", "socket", "close"}
CallType == [by : Fibers, op : Ops, fd : Fds, ev : Events, on : BOOLEAN]

ASSUME CallsAreCalls == Calls \subseteq CallType
\* connect_with_timeout waits for IOManager::WRITE
ASSUME ConnectsWrite == \A c \in Calls : c.op = "connect" => c.ev = "WRITE"
\* The size of the thread pool, and the fibers that run on its hooked threads
PoolType == [threads : Nat, hooked : SUBSET Fibers]
ASSUME PoolsArePools == Pools \subseteq PoolType
ASSUME OpenAreHandles == InitialOpen \subseteq Fds
ASSUME NullsAreNot == NoFiber \notin Fibers /\ NoCtx \notin FdCtxs
ASSUME BoundedCalls == MaxCalls \in [Fibers -> Nat]
ASSUME FiniteFibers == IsFiniteSet(Fibers)

VARIABLES
    t_hook_enable,      \* whether the thread of each fiber is hooked
    m_threadCount,      \* the number of threads of the IOManager
    s_connect_timeout,  \* whether connect() has a timeout (config tcp.connect.timeout)
    kern,               \* the kernel's sockets
    waiter,             \* the fiber registered for each event of each handle
    pc, st, woken,      \* of each fiber: its place, its state, a wake-up to come
    call, left,         \* the call it is in, and how many it may still make
    timer, cancelled,   \* its timer is armed; tinfo->cancelled
    connected,          \* its last call was a connect that returned 0
    cbs,                \* callbacks of expired timers, due or under way
    raw,                \* handles whose blocking mode was changed behind the table's back
    outside,            \* handles that threads without hook opened or closed
    aborted             \* addEvent's assertion failed

fiber == <<pc, st, woken, call, left, timer, cancelled, connected>>
config == <<t_hook_enable, m_threadCount>>
vars == <<table, config, s_connect_timeout, kern, waiter, fiber, cbs, raw, outside, aborted>>

NoCall == [op |-> "none"]
InCall(f) == call[f] # NoCall

Closed == [open |-> FALSE, nonblock |-> FALSE, ready |-> {}, conn |-> "no", watched |-> FALSE]
Fresh == [Closed EXCEPT !.open = TRUE]
Managed == [Fresh EXCEPT !.nonblock = TRUE]

Init ==
    /\ \E p \in Pools : /\ m_threadCount = p.threads
                        /\ t_hook_enable = [f \in Fibers |-> f \in p.hooked]
    /\ s_connect_timeout = TRUE
    /\ m_datas = [fd \in Fds |-> IF fd \in InitialOpen THEN FdCtx(TRUE) ELSE NoCtx]
    /\ size = InitialSize
    /\ kern = [fd \in Fds |-> IF fd \in InitialOpen THEN Managed ELSE Closed]
    /\ waiter = [fd \in Fds |-> [e \in Events |-> NoFiber]]
    /\ pc = [f \in Fibers |-> "app"]
    /\ st = [f \in Fibers |-> "ready"]
    /\ woken = [f \in Fibers |-> FALSE]
    /\ call = [f \in Fibers |-> NoCall]
    /\ left = MaxCalls
    /\ timer = [f \in Fibers |-> FALSE]
    /\ cancelled = [f \in Fibers |-> FALSE]
    /\ connected = [f \in Fibers |-> FALSE]
    /\ cbs = {} /\ raw = {} /\ outside = {} /\ aborted = FALSE

-----------------------------------------------------------------------------
(* Threads and the IOManager                                               *)

\* A fiber or a callback occupies a thread until it yields or ends
FreeThread ==
    Cardinality({f \in Fibers : t_hook_enable[f] /\ st[f] = "run"})
        + Cardinality({c \in cbs : c.stage = "cancel"}) < m_threadCount

At(f, loc) == ~aborted /\ st[f] = "run" /\ pc[f] = loc
Goto(f, loc) == pc' = [pc EXCEPT ![f] = loc]

\* The events of fd that have a waiter
Waited(fd) == {e \in Events : waiter[fd][e] # NoFiber}

\* FdContext::triggerEvent for the events es: their fibers are scheduled
Wake(S) ==
    /\ st' = [f \in Fibers |-> IF f \in S /\ st[f] = "hold" THEN "ready" ELSE st[f]]
    /\ woken' = [f \in Fibers |-> woken[f] \/ (f \in S /\ st[f] # "hold")]

trigger(fd, es) ==
    /\ waiter' = [waiter EXCEPT ![fd] = [e \in Events |-> IF e \in es THEN NoFiber ELSE @[e]]]
    /\ kern' = [kern EXCEPT ![fd].watched = Waited(fd) \ es # {}]
    /\ Wake({waiter[fd][e] : e \in es})

\* Bug: cancelEvent drops the event as delEvent does, and wakes nobody
cancelEventSilent(fd, es) ==
    IF Waited(fd) \cap es # {} /\ kern[fd].watched
    THEN /\ waiter' = [waiter EXCEPT ![fd] = [e \in Events |-> IF e \in es THEN NoFiber ELSE @[e]]]
         /\ kern' = [kern EXCEPT ![fd].watched = Waited(fd) \ es # {}]
         /\ UNCHANGED <<st, woken>>
    ELSE UNCHANGED <<waiter, kern, st, woken>>

\* cancelEvent and cancelAll do nothing without an event; epoll_ctl fails for a
\* handle the kernel no longer watches, and then nothing is triggered either
cancelEvent(fd, es) ==
    IF Waited(fd) \cap es # {} /\ kern[fd].watched
    THEN trigger(fd, Waited(fd) \cap es)
    ELSE UNCHANGED <<waiter, kern, st, woken>>

\* The scheduler gives a scheduled fiber a thread
Resume(f) ==
    /\ ~aborted /\ st[f] = "ready" /\ (~t_hook_enable[f] \/ FreeThread)
    /\ st' = [st EXCEPT ![f] = "run"]
    /\ UNCHANGED <<table, config, s_connect_timeout, kern, waiter, pc, woken, call, left,
                   timer, cancelled, connected, cbs, raw, outside, aborted>>

\* idle(): epoll_wait reports what is ready, and the events are triggered
Poll(fd) ==
    /\ ~aborted /\ FreeThread
    /\ kern[fd].watched
    /\ LET es == kern[fd].ready \cap Waited(fd)
       IN  es # {} /\ trigger(fd, es)
    /\ UNCHANGED <<table, config, s_connect_timeout, pc, call, left, timer, cancelled,
                   connected, cbs, raw, outside, aborted>>

\* idle(): a timer that is due leaves the TimerManager, its callback is scheduled
Expire(f) ==
    /\ ~aborted /\ FreeThread /\ timer[f]
    /\ timer' = [timer EXCEPT ![f] = FALSE]
    /\ cbs' = cbs \cup {[of |-> f, id |-> left[f], op |-> call[f].op, fd |-> call[f].fd,
                         ev |-> call[f].ev, stage |-> "due"]}
    /\ UNCHANGED <<table, config, s_connect_timeout, kern, waiter, pc, st, woken, call,
                   left, cancelled, connected, raw, outside, aborted>>

\* The callback of a timeout: the call it belongs to may be over (winfo.lock()
\* is null) or timed out already; otherwise it is marked
Mark(c) ==
    IF InCall(c.of) /\ left[c.of] = c.id /\ ~cancelled[c.of]
    THEN /\ cancelled' = [cancelled EXCEPT ![c.of] = TRUE]
         /\ cbs' = (cbs \ {c}) \cup {[c EXCEPT !.stage = "cancel"]}
    ELSE cbs' = cbs \ {c} /\ UNCHANGED cancelled

\* A thread runs the callback: of a sleep, it schedules the fiber
RunCallback(c) ==
    /\ ~aborted /\ FreeThread /\ c.stage = "due"
    /\ IF c.op = "sleep"
       THEN Wake({c.of}) /\ cbs' = cbs \ {c} /\ UNCHANGED cancelled
       ELSE Mark(c) /\ UNCHANGED <<st, woken>>
    /\ UNCHANGED <<table, config, s_connect_timeout, kern, waiter, pc, call, left, timer,
                   connected, raw, outside, aborted>>

\* Bug: every timeout cancels the read
CallbackCancelRead(c) ==
    /\ ~aborted /\ c.stage = "cancel"
    /\ cancelEvent(c.fd, {"READ"})
    /\ cbs' = cbs \ {c}
    /\ UNCHANGED <<table, config, s_connect_timeout, pc, call, left, timer, cancelled,
                   connected, raw, outside, aborted>>

\* ... and then cancels the event, whosever it is by now
CallbackCancel(c) ==
    /\ ~aborted /\ c.stage = "cancel"
    /\ cancelEvent(c.fd, {c.ev})
    /\ cbs' = cbs \ {c}
    /\ UNCHANGED <<table, config, s_connect_timeout, pc, call, left, timer, cancelled,
                   connected, raw, outside, aborted>>

-----------------------------------------------------------------------------
(* Calls                                                                   *)

\* A hooked call returns: tinfo is destroyed with it
Return(f, r) ==
    /\ Goto(f, "app")
    /\ call' = [call EXCEPT ![f] = NoCall]
    /\ connected' = [connected EXCEPT ![f] = call[f].op = "connect" /\ r = "ok"]
    /\ cancelled' = [cancelled EXCEPT ![f] = FALSE]

Stay(f) == UNCHANGED <<call, connected, cancelled>>

\* Does the call go through the hook, or straight to the system?  connect
\* refuses a handle without context, the others hand it on
Hooked(f, c) ==
    /\ t_hook_enable[f]
    /\ get(c.fd) # NoCtx
    /\ get(c.fd).isSocket /\ ~get(c.fd).userNonblock

Entry(f, c) ==
    CASE c.op = "sleep" -> IF ~t_hook_enable[f] THEN "done" ELSE "arm"
      [] c.op = "socket" -> "socket"
      [] c.op = "close" -> IF ~t_hook_enable[f] \/ get(c.fd) = NoCtx THEN "close_f" ELSE "cancelAll"
      [] c.op = "connect" /\ t_hook_enable[f] /\ get(c.fd) = NoCtx -> "ebadf"
      [] OTHER -> IF Hooked(f, c) THEN "try" ELSE "direct"

\* The timeout of a call is read once, when it starts
Timed(c) ==
    CASE c.op = "connect" -> s_connect_timeout
      [] c.op = "sleep" -> TRUE
      [] c.op \in IoOps -> get(c.fd) # NoCtx /\ get(c.fd).timed[c.ev]
      [] OTHER -> FALSE

Begin(f, c) ==
    /\ At(f, "app") /\ left[f] > 0
    /\ c.by = f /\ c.op \notin SetOps
    /\ c.op = "connect" => kern[c.fd].conn = "no"
    /\ left' = [left EXCEPT ![f] = @ - 1]
    /\ call' = [call EXCEPT ![f] = [op |-> c.op, fd |-> c.fd, ev |-> c.ev, timed |-> Timed(c),
                                    lost |-> FALSE]]
    /\ Goto(f, Entry(f, c))
    /\ connected' = [connected EXCEPT ![f] = FALSE]
    /\ UNCHANGED <<table, config, s_connect_timeout, kern, waiter, st, woken, timer,
                   cancelled, cbs, raw, outside, aborted>>

\* sleep on a thread without hook, connect without context
Immediate(f) ==
    /\ At(f, "done") \/ At(f, "ebadf")
    /\ Return(f, IF pc[f] = "done" THEN "ok" ELSE "err")
    /\ UNCHANGED <<table, config, s_connect_timeout, kern, waiter, st, woken, left, timer,
                   cbs, raw, outside, aborted>>

\* The kernel hands out the lowest handle that is not open
NewFd(fd) == ~kern[fd].open /\ \A g \in Fds : g < fd => kern[g].open

\* One call of the original function by do_io or connect_with_timeout, direct
\* or hooked; it blocks its thread when the socket really is in blocking mode.
\* EINTR is retried at once and leaves no trace.
Try(f) ==
    /\ At(f, "try") \/ At(f, "direct")
    /\ LET fd == call[f].fd
           k == kern[fd]
           is == call[f].ev \in k.ready
           hooked == pc[f] = "try"
       IN  \/ /\ ~k.open
              /\ Return(f, "err") /\ UNCHANGED <<kern>>
           \/ /\ k.open /\ call[f].op \in {"recv", "send"} /\ is
              /\ kern' = [kern EXCEPT ![fd].ready = @ \ {call[f].ev}]
              /\ Return(f, "ok")
           \/ /\ k.open /\ call[f].op = "accept" /\ is
              /\ IF \E new \in Fds : NewFd(new)
                 THEN /\ kern' = [kern EXCEPT ![fd].ready = @ \ {call[f].ev}]
                      /\ Goto(f, "socket") /\ Stay(f)
                 ELSE Return(f, "err") /\ UNCHANGED kern
           \/ /\ k.open /\ call[f].op \in IoOps /\ ~is /\ k.nonblock
              /\ IF hooked THEN Goto(f, "arm") /\ Stay(f) ELSE Return(f, "err")
              /\ UNCHANGED kern
           \/ /\ k.open /\ call[f].op = "connect"
              /\ \/ kern' = [kern EXCEPT ![fd].conn = "yes"] /\ Return(f, "ok")
                 \/ kern' = kern /\ Return(f, "err")
           \/ /\ k.open /\ call[f].op = "connect" /\ k.nonblock
              /\ kern' = [kern EXCEPT ![fd].conn = "going", ![fd].ready = {}]
              /\ IF hooked THEN Goto(f, "arm") /\ Stay(f) ELSE Return(f, "err")
    /\ UNCHANGED <<table, config, s_connect_timeout, waiter, st, woken, left, timer, cbs,
                   raw, outside, aborted>>

\* addConditionTimer, or the addTimer of sleep; a call without timeout has none
ArmTimer(f) ==
    /\ At(f, "arm")
    /\ timer' = [timer EXCEPT ![f] = call[f].timed]
    /\ Goto(f, IF call[f].op = "sleep" THEN "yield" ELSE "add")
    /\ UNCHANGED <<table, config, s_connect_timeout, kern, waiter, st, woken, call, left,
                   cancelled, connected, cbs, raw, outside, aborted>>

\* addEvent: asserts that the event is free; epoll_ctl fails for a handle that
\* is closed, and EPOLL_CTL_MOD for one the kernel does not watch
addEvent(f) ==
    /\ At(f, "add")
    /\ LET fd == call[f].fd
           fails == ~kern[fd].open \/ (Waited(fd) # {} /\ ~kern[fd].watched)
       IN  \/ /\ waiter[fd][call[f].ev] # NoFiber
              /\ aborted' = TRUE
              /\ UNCHANGED <<waiter, kern, timer, pc, call, connected, cancelled>>
           \/ /\ waiter[fd][call[f].ev] = NoFiber /\ fails
              /\ timer' = [timer EXCEPT ![f] = FALSE]
              /\ IF call[f].op = "connect" THEN Goto(f, "check") /\ Stay(f) ELSE Return(f, "err")
              /\ UNCHANGED <<waiter, kern, aborted>>
           \/ /\ waiter[fd][call[f].ev] = NoFiber /\ ~fails
              /\ waiter' = [waiter EXCEPT ![fd][call[f].ev] = f]
              /\ kern' = [kern EXCEPT ![fd].watched = TRUE]
              /\ Goto(f, "yield")
              /\ UNCHANGED <<timer, call, connected, cancelled, aborted>>
    /\ UNCHANGED <<table, config, s_connect_timeout, st, woken, left, cbs, raw, outside>>

\* YieldToHold; a fiber that has been scheduled meanwhile is ready at once
Yield(f) ==
    /\ At(f, "yield")
    /\ st' = [st EXCEPT ![f] = IF woken[f] THEN "ready" ELSE "hold"]
    /\ woken' = [woken EXCEPT ![f] = FALSE]
    /\ Goto(f, "woke")
    /\ UNCHANGED <<table, config, s_connect_timeout, kern, waiter, call, left, timer,
                   cancelled, connected, cbs, raw, outside, aborted>>

\* Bug: connect does not look at tinfo->cancelled
WokeIgnoresCancel(f) ==
    /\ At(f, "woke")
    /\ timer' = [timer EXCEPT ![f] = FALSE]
    /\ \/ call[f].op = "sleep" /\ Return(f, "ok")
       \/ call[f].op # "sleep" /\ cancelled[f] /\ call[f].op # "connect" /\ Return(f, "timeout")
       \/ /\ call[f].op # "sleep" /\ (cancelled[f] => call[f].op = "connect")
          /\ Goto(f, IF call[f].op = "connect" THEN "check" ELSE "try") /\ Stay(f)
    /\ UNCHANGED <<table, config, s_connect_timeout, kern, waiter, st, woken, left, cbs,
                   raw, outside, aborted>>

\* Back from YieldToHold: cancel the timer, then give up or go on
Woke(f) ==
    /\ At(f, "woke")
    /\ timer' = [timer EXCEPT ![f] = FALSE]
    /\ \/ call[f].op = "sleep" /\ Return(f, "ok")
       \/ call[f].op # "sleep" /\ cancelled[f] /\ Return(f, "timeout")
       \/ /\ call[f].op # "sleep" /\ ~cancelled[f]
          /\ Goto(f, IF call[f].op = "connect" THEN "check" ELSE "try") /\ Stay(f)
    /\ UNCHANGED <<table, config, s_connect_timeout, kern, waiter, st, woken, left, cbs,
                   raw, outside, aborted>>

\* connect_with_timeout asks for SO_ERROR, which a connection still under way
\* does not have
CheckConnect(f) ==
    /\ At(f, "check")
    /\ Return(f, IF kern[call[f].fd].open /\ kern[call[f].fd].conn # "failed" THEN "ok" ELSE "err")
    /\ UNCHANGED <<table, config, s_connect_timeout, kern, waiter, st, woken, left, timer,
                   cbs, raw, outside, aborted>>

-----------------------------------------------------------------------------
(* Creating, configuring and closing handles                               *)

\* socket_f, or the handle accept_f returns; then get(fd, true) under the read lock,
\* which accept() calls without hook as well
SocketF(f) ==
    /\ At(f, "socket")
    /\ \/ /\ \A fd \in Fds : ~NewFd(fd)
          /\ Return(f, "err") /\ UNCHANGED <<kern, raw, outside>>
       \/ \E fd \in Fds :
            /\ NewFd(fd)
            /\ kern' = [kern EXCEPT ![fd] = Fresh]
            /\ raw' = IF Found(fd) THEN raw \cup {fd} ELSE raw
            /\ outside' = IF t_hook_enable[f] THEN outside ELSE outside \cup {fd}
            /\ IF (call[f].op = "socket" /\ ~t_hook_enable[f]) \/ Found(fd)
               THEN Return(f, "ok")
               ELSE /\ Goto(f, "create") /\ call' = [call EXCEPT ![f].fd = fd]
                    /\ UNCHANGED <<connected, cancelled>>
    /\ UNCHANGED <<table, config, s_connect_timeout, waiter, st, woken, left, timer, cbs,
                   aborted>>

\* get(fd, true) under the write lock; FdCtx::init makes the socket nonblocking
CreateCtx(f) ==
    /\ At(f, "create")
    /\ LET fd == call[f].fd
       IN  /\ Create(fd, kern[fd].open)
           /\ kern' = [kern EXCEPT ![fd].nonblock = kern[fd].open]
    /\ Return(f, "ok")
    /\ UNCHANGED <<config, s_connect_timeout, waiter, st, woken, left, timer, cbs, raw,
                   outside, aborted>>

\* Bug: fcntl hands the user's flag on
fcntlModeUser(fd, on) == on

\* The mode fcntl(F_SETFL) really sets on a socket, whatever the user asks for
fcntlMode(fd, on) == get(fd).sysNonblock

\* fcntl(F_SETFL), ioctl(FIONBIO) and setsockopt(SO_RCVTIMEO or SO_SNDTIMEO).
\* ioctl hands the user's mode on to the kernel.
Set(f, c) ==
    /\ At(f, "app") /\ left[f] > 0
    /\ c.by = f /\ c.op \in SetOps /\ kern[c.fd].open
    /\ left' = [left EXCEPT ![f] = @ - 1]
    /\ LET known == get(c.fd) # NoCtx
           mode(v) == kern' = [kern EXCEPT ![c.fd].nonblock = v]
       IN  \/ /\ c.op = "fcntl" /\ known /\ get(c.fd).isSocket
              /\ setUserNonblock(c.fd, c.on) /\ mode(fcntlMode(c.fd, c.on))
              /\ UNCHANGED raw
           \/ /\ c.op = "ioctl" /\ known /\ get(c.fd).isSocket
              /\ setUserNonblock(c.fd, c.on) /\ mode(c.on)
              /\ raw' = IF c.on THEN raw ELSE raw \cup {c.fd}
           \/ /\ c.op \in {"fcntl", "ioctl"} /\ (known => ~get(c.fd).isSocket)
              /\ mode(c.on) /\ UNCHANGED <<table, raw>>
           \/ /\ c.op = "setsockopt" /\ known /\ t_hook_enable[f]
              /\ setTimeout(c.fd, c.ev) /\ UNCHANGED <<kern, raw>>
           \/ /\ c.op = "setsockopt" /\ (~known \/ ~t_hook_enable[f])
              /\ UNCHANGED <<table, kern, raw>>
    /\ UNCHANGED <<config, s_connect_timeout, waiter, pc, st, woken, call, timer,
                   cancelled, connected, cbs, outside, aborted>>

\* Bug: close() forgets the writers
CancelAllReaders(f) ==
    /\ At(f, "cancelAll")
    /\ cancelEvent(call[f].fd, {"READ"})
    /\ Goto(f, "del")
    /\ UNCHANGED <<table, config, s_connect_timeout, call, left, timer, cancelled, connected,
                   cbs, raw, outside, aborted>>

\* close: cancelAll, then del, then close_f
CancelAll(f) ==
    /\ At(f, "cancelAll")
    /\ cancelEvent(call[f].fd, Events)
    /\ Goto(f, "del")
    /\ UNCHANGED <<table, config, s_connect_timeout, call, left, timer, cancelled, connected,
                   cbs, raw, outside, aborted>>

DelCtx(f) ==
    /\ At(f, "del")
    /\ del(call[f].fd)
    /\ Goto(f, "close_f")
    /\ UNCHANGED <<config, s_connect_timeout, kern, waiter, st, woken, call, left, timer,
                   cancelled, connected, cbs, raw, outside, aborted>>

\* close_f: the kernel forgets the socket and stops watching it
CloseF(f) ==
    /\ At(f, "close_f")
    /\ LET fd == call[f].fd
       IN  /\ kern' = [kern EXCEPT ![fd] = Closed]
           /\ outside' = IF ~t_hook_enable[f] /\ kern[fd].open THEN outside \cup {fd} ELSE outside
           /\ call' = [g \in Fibers |-> IF g = f THEN NoCall
                                        ELSE IF InCall(g) /\ call[g].fd = fd
                                        THEN [call[g] EXCEPT !.lost = TRUE]
                                        ELSE call[g]]
    /\ Goto(f, "app")
    /\ UNCHANGED <<table, config, s_connect_timeout, waiter, st, woken, left, timer,
                   cancelled, connected, cbs, raw, aborted>>

\* The fiber's function returns
Exit(f) ==
    /\ At(f, "app")
    /\ st' = [st EXCEPT ![f] = "end"]
    /\ UNCHANGED <<table, config, s_connect_timeout, kern, waiter, pc, woken, call, left,
                   timer, cancelled, connected, cbs, raw, outside, aborted>>

-----------------------------------------------------------------------------
(* The peers, and the configuration                                        *)

\* Data or room arrives at a handle some call is about: nobody looks at the others
Arrive(fd, e) ==
    /\ ~aborted /\ \E c \in Calls : c.fd = fd /\ c.ev = e /\ c.op \in IoOps
    /\ kern[fd].open /\ e \notin kern[fd].ready /\ kern[fd].conn # "going"
    /\ kern' = [kern EXCEPT ![fd].ready = @ \cup {e}]
    /\ UNCHANGED <<table, config, s_connect_timeout, waiter, fiber, cbs, raw, outside, aborted>>

ConnectEnds(fd, how) ==
    /\ ~aborted
    /\ kern[fd].open /\ kern[fd].conn = "going"
    /\ kern' = [kern EXCEPT ![fd].conn = how, ![fd].ready = @ \cup {"WRITE"}]
    /\ UNCHANGED <<table, config, s_connect_timeout, waiter, fiber, cbs, raw, outside, aborted>>

\* The listener on tcp.connect.timeout; -1 is no timeout
ConnectTimeoutChanged ==
    /\ ~aborted /\ s_connect_timeout /\ \E f \in Fibers : left[f] > 0
    /\ s_connect_timeout' = FALSE
    /\ UNCHANGED <<table, config, kern, waiter, fiber, cbs, raw, outside, aborted>>

FiberStep(f) ==
    \/ Immediate(f) \/ Try(f) \/ ArmTimer(f) \/ addEvent(f) \/ Yield(f) \/ Woke(f)
    \/ CheckConnect(f) \/ SocketF(f) \/ CreateCtx(f) \/ CancelAll(f) \/ DelCtx(f) \/ CloseF(f)
    \/ Exit(f)

ManagerStep ==
    \/ \E fd \in Fds : Poll(fd)
    \/ \E f \in Fibers : Expire(f)
    \/ \E c \in cbs : RunCallback(c) \/ CallbackCancel(c)

Environment ==
    \/ \E fd \in Fds, e \in Events : Arrive(fd, e)
    \/ \E fd \in Fds, how \in {"yes", "failed"} : ConnectEnds(fd, how)
    \/ ConnectTimeoutChanged

Next ==
    \/ \E f \in Fibers, c \in Calls : Begin(f, c) \/ Set(f, c)
    \/ \E f \in Fibers : Resume(f) \/ FiberStep(f)
    \/ ManagerStep
    \/ Environment

Spec == Init /\ [][Next]_vars

\* Every thread goes on with what it runs (a fiber between calls may end), takes
\* what is scheduled, and its idle fiber polls; the peers owe nothing
FairSpec ==
    /\ Spec
    /\ \A f \in Fibers : WF_vars(FiberStep(f)) /\ WF_vars(Resume(f)) /\ WF_vars(Expire(f))
    /\ \A fd \in Fds : WF_vars(Poll(fd))
    /\ WF_vars(\E c \in cbs : RunCallback(c) \/ CallbackCancel(c))

-----------------------------------------------------------------------------
(* Properties                                                              *)

Places == {"app", "socket", "create", "try", "direct", "arm", "add", "yield", "woke", "check",
           "cancelAll", "del", "close_f", "done", "ebadf"}

\* Every variable has its type; a context in the table lies within the vector,
\* and a fiber is between calls exactly when it has no call.
TypeOK ==
    /\ TableTypeOK
    /\ t_hook_enable \in [Fibers -> BOOLEAN]
    /\ m_threadCount \in Nat /\ s_connect_timeout \in BOOLEAN
    /\ \A fd \in Fds :
        /\ kern[fd].ready \subseteq Events
        /\ kern[fd].conn \in {"no", "going", "yes", "failed"}
        /\ ~kern[fd].open => kern[fd] = Closed
    /\ waiter \in [Fds -> [Events -> Fibers \cup {NoFiber}]]
    /\ pc \in [Fibers -> Places]
    /\ st \in [Fibers -> {"ready", "run", "hold", "end"}]
    /\ \A f \in Fibers : InCall(f) <=> pc[f] # "app"
    /\ connected \in [Fibers -> BOOLEAN]
    /\ raw \subseteq Fds

\* Nobody is forgotten: a fiber that has yielded inside a call is registered for
\* the event it waits for (or its sleep timer will fire), whatever events, timeouts
\* and close() calls crossed it; and an event with a waiter has that fiber waiting,
\* or about to.
NoLostWaiter ==
    /\ \A f \in Fibers : st[f] = "hold" =>
        IF call[f].op = "sleep"
        THEN timer[f] \/ \E c \in cbs : c.of = f /\ c.id = left[f] /\ c.stage = "due"
        ELSE waiter[call[f].fd][call[f].ev] = f
    /\ \A fd \in Fds, e \in Events : waiter[fd][e] # NoFiber =>
        LET f == waiter[fd][e]
        IN  /\ InCall(f) /\ call[f].fd = fd /\ call[f].ev = e
            /\ pc[f] \in {"yield", "woke"} /\ (pc[f] = "woke" => st[f] = "hold") /\ ~woken[f]

\* No timer outlives its call: on every way out of do_io, connect_with_timeout
\* and sleep the timer has been cancelled or has left the TimerManager.
NoStaleTimer == \A f \in Fibers : timer[f] => InCall(f) /\ pc[f] \in {"add", "yield", "woke"}

\* On one thread close() leaves no event behind: whoever waited on the handle
\* was woken by cancelAll and cannot register again before close_f.  (Two
\* threads can: cancelAll, the reader's retry and addEvent, then close_f.)  A
\* handle that a thread without hook opened or closed is excepted: it closes
\* without cancelAll, and opens without a context for the next close() to find.
NoOrphanEvent ==
    m_threadCount = 1 => \A fd \in Fds : Waited(fd) # {} => kern[fd].watched \/ fd \in outside

\* A socket with a context really is in nonblocking mode, whatever mode its user
\* asked for with fcntl, so that no hooked call blocks a thread; ioctl(FIONBIO)
\* and a context left over from a handle closed without hook are the exceptions.
NonblockKept ==
    \A fd \in Fds :
        kern[fd].open /\ m_datas[fd] # NoCtx /\ m_datas[fd].isSocket /\ fd \notin raw
            => kern[fd].nonblock

\* Another timeout can cancel the WRITE event of fd under the connect of f
OtherTimeout(f, fd) ==
    \E c \in Calls : c.fd = fd /\ c.ev = "WRITE"
                    /\ (c.op = "setsockopt" \/ (c.op = "connect" /\ c.by # f))

\* connect() returns 0 only for a connection that is established, on one thread,
\* unless the handle was closed under it: nothing but its own event or its own
\* timeout wakes it, since SO_ERROR cannot tell a connection under way.  A handle
\* other fibers write to with a timeout is excepted: the callback of a timeout
\* cancels whatever is registered by then.
ConnectTrue ==
    [][\A f \in Fibers :
        (call[f].op = "connect" /\ call'[f] = NoCall /\ connected'[f])
            => \/ kern'[call[f].fd].conn = "yes"
               \/ call[f].lost \/ call[f].fd \in outside \/ OtherTimeout(f, call[f].fd)
               \/ m_threadCount > 1]_vars

\* On one thread a call with a timeout, and a sleep, always return: with their
\* event, or when their timer fires.  (On two threads a timer that fires before
\* addEvent is lost and the call waits on.)
TimedCallReturns ==
    \A f \in Fibers :
        (m_threadCount = 1 /\ InCall(f) /\ call[f].op \in WaitOps \cup {"sleep"} /\ call[f].timed)
            ~> (~InCall(f) \/ raw # {} \/ outside # {} \/ aborted)
=============================================================================
