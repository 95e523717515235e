----------------------------- MODULE HookProofs -----------------------------
(***************************************************************************)
(* Theorems about Hook, for every set of fibers and handles, every mix of  *)
(* calls and every number of threads.                                      *)
(***************************************************************************)
EXTENDS Hook, FiniteSetTheorems, TLAPS

\* What the constructor of FdManager gives: room enough that growing to 1.5 times a handle
\* makes a slot for it (a table of size 1 would not grow for the handle 1), and for the
\* handles the program has at the start.
RoomAtStart == InitialSize >= 2 /\ \A fd \in InitialOpen : fd < InitialSize

(***************************************************************************)
(* The parts of the inductive invariant                                    *)
(***************************************************************************)
WaitPlaces == {"arm", "yield", "woke", "done"}
CallRec == [op : WaitOps \cup {"sleep", "socket", "close"}, fd : Fds, ev : Events,
            timed : BOOLEAN, lost : BOOLEAN]
KernRec == [open : BOOLEAN, nonblock : BOOLEAN, ready : SUBSET Events,
            conn : {"no", "going", "yes", "failed"}, watched : BOOLEAN]
CbRec == [of : Fibers, id : Nat, op : WaitOps \cup {"sleep", "socket", "close"}, fd : Fds,
          ev : Events, stage : {"due", "cancel"}]

\* The types, by the parts of the state that actions change together.
KernOK == kern \in [Fds -> KernRec] /\ \A fd \in Fds : ~kern[fd].open => kern[fd] = Closed
TableOK == TableTypeOK /\ size >= 2
ControlOK ==
    /\ pc \in [Fibers -> Places]
    /\ call \in [Fibers -> CallRec \cup {NoCall}]
    /\ \A f \in Fibers : InCall(f) <=> pc[f] # "app"
    /\ connected \in [Fibers -> BOOLEAN]
ThreadsOK ==
    /\ st \in [Fibers -> {"ready", "run", "hold", "end"}]
    /\ woken \in [Fibers -> BOOLEAN]
    /\ waiter \in [Fds -> [Events -> Fibers \cup {NoFiber}]]
RestOK ==
    /\ t_hook_enable \in [Fibers -> BOOLEAN]
    /\ m_threadCount \in Nat /\ s_connect_timeout \in BOOLEAN
    /\ left \in [Fibers -> Nat] /\ timer \in [Fibers -> BOOLEAN]
    /\ cbs \subseteq CbRec /\ raw \subseteq Fds

Typed == KernOK /\ TableOK /\ ControlOK /\ ThreadsOK /\ RestOK

\* A fiber that waits inside a call: it has yielded, or is about to and was not woken yet.
Waiting(f) ==
    /\ InCall(f) /\ ~woken[f]
    /\ (pc[f] = "yield" /\ st[f] = "run") \/ (pc[f] = "woke" /\ st[f] = "hold")

\* Somebody is going to wake it.
Awaited(f) ==
    IF call[f].op = "sleep"
    THEN timer[f] \/ \E c \in cbs : c.of = f /\ c.id = left[f] /\ c.stage = "due" /\ c.op = "sleep"
    ELSE waiter[call[f].fd][call[f].ev] = f

\* Where a fiber is, against its state.
Local(f) ==
    /\ pc[f] = "yield" => st[f] = "run"
    /\ st[f] = "hold" => pc[f] = "woke"
    /\ woken[f] => pc[f] = "yield"
    /\ InCall(f) /\ call[f].op = "sleep" => call[f].timed /\ pc[f] \in WaitPlaces

\* The callback of a sleep belongs to a fiber that still sleeps, and to its only timer.
SleepCb(c) ==
    /\ c.stage = "due" /\ Waiting(c.of) /\ ~timer[c.of]
    /\ call[c.of].op = "sleep" /\ c.id = left[c.of]
    /\ c.fd = call[c.of].fd /\ c.ev = call[c.of].ev

Registered(f, fd, e) ==
    Waiting(f) /\ call[f].fd = fd /\ call[f].ev = e /\ call[f].op # "sleep"

TimerHeld(f) ==
    /\ InCall(f) /\ pc[f] \in {"add", "yield", "woke"}
    /\ call[f].op = "sleep" => Waiting(f)

WaitInv ==
    /\ \A f \in Fibers : Local(f)
    /\ \A f \in Fibers : Waiting(f) => Awaited(f)
    /\ \A fd \in Fds, e \in Events : waiter[fd][e] # NoFiber => Registered(waiter[fd][e], fd, e)
    /\ \A c \in cbs : c.op = "sleep" => SleepCb(c)
    /\ \A f \in Fibers : timer[f] => TimerHeld(f)

HookInv == Typed /\ WaitInv

(***************************************************************************)
(* Who waits                                                               *)
(***************************************************************************)

\* A step of one fiber that neither waits before nor after, and arms no timer of a sleep.
LEMMA FiberMoves ==
    ASSUME Typed, WaitInv,
           NEW f \in Fibers,
           UNCHANGED <<waiter, cbs>>,
           \A g \in Fibers \ {f} :
                /\ pc'[g] = pc[g] /\ st'[g] = st[g] /\ woken'[g] = woken[g]
                /\ left'[g] = left[g] /\ timer'[g] = timer[g]
                /\ InCall(g)' <=> InCall(g)
                /\ InCall(g) => /\ call'[g].op = call[g].op /\ call'[g].fd = call[g].fd
                                /\ call'[g].ev = call[g].ev /\ call'[g].timed = call[g].timed,
           ~Waiting(f), ~Waiting(f)', Local(f)', timer'[f] => TimerHeld(f)'
    PROVE  WaitInv'
<1>1. \A g \in Fibers \ {f} : /\ Waiting(g)' <=> Waiting(g)
                              /\ Local(g)' <=> Local(g)
                              /\ TimerHeld(g)' <=> TimerHeld(g)
  BY DEF Waiting, Local, TimerHeld
<1>2. \A g \in Fibers : Local(g)'
  BY <1>1 DEF WaitInv
<1>3. \A g \in Fibers \ {f} : Waiting(g) => (Awaited(g)' <=> Awaited(g))
  BY DEF Waiting, Awaited
<1>4. \A g \in Fibers : Waiting(g)' => Awaited(g)'
  BY <1>1, <1>3 DEF WaitInv
<1>5. ASSUME NEW fd \in Fds, NEW e \in Events, waiter'[fd][e] # NoFiber
      PROVE  Registered(waiter[fd][e], fd, e)'
  <2>1. Registered(waiter[fd][e], fd, e) /\ waiter[fd][e] \in Fibers \ {f}
    BY <1>5 DEF WaitInv, Registered, Typed, ThreadsOK
  <2> QED BY <1>1, <2>1 DEF Registered, Waiting
<1>6. ASSUME NEW c \in cbs', c.op = "sleep"
      PROVE  SleepCb(c)'
  <2>1. SleepCb(c) /\ c.of \in Fibers \ {f}
    BY <1>6 DEF WaitInv, SleepCb, Typed, RestOK, CbRec
  <2> QED BY <1>1, <2>1 DEF SleepCb, Waiting
<1>7. \A g \in Fibers : timer'[g] => TimerHeld(g)'
  BY <1>1 DEF WaitInv
<1> QED BY <1>2, <1>4, <1>5, <1>6, <1>7 DEF WaitInv

\* The same for a fiber that runs and has no timer left.
LEMMA SimpleMove ==
    ASSUME Typed, WaitInv, NEW f \in Fibers,
           st[f] = "run", pc[f] # "yield", pc'[f] \notin {"yield", "woke"}, ~timer'[f],
           UNCHANGED <<waiter, cbs, st, woken>>,
           \A g \in Fibers \ {f} :
                /\ pc'[g] = pc[g] /\ left'[g] = left[g] /\ timer'[g] = timer[g]
                /\ InCall(g)' <=> InCall(g)
                /\ InCall(g) => /\ call'[g].op = call[g].op /\ call'[g].fd = call[g].fd
                                /\ call'[g].ev = call[g].ev /\ call'[g].timed = call[g].timed,
           InCall(f)' /\ call'[f].op = "sleep" => call'[f].timed /\ pc'[f] \in WaitPlaces
    PROVE  WaitInv'
<1>1. ~woken[f] /\ ~Waiting(f) /\ ~Waiting(f)'
  BY DEF WaitInv, Local, Waiting
<1>2. Local(f)'
  BY <1>1 DEF Local
<1> QED BY <1>1, <1>2, FiberMoves

\* trigger() wakes exactly the fibers registered for the events, while close() may go on
\* from cancelAll and the callback that cancelled may end.
LEMMA TriggerWakes ==
    ASSUME Typed, WaitInv,
           NEW fd \in Fds, NEW es \in SUBSET Waited(fd),
           trigger(fd, es) \/ (es = {} /\ UNCHANGED <<waiter, st, woken>>),
           NEW M \in SUBSET Fibers,
           \A f \in M : pc[f] = "cancelAll" /\ pc'[f] = "del",
           \A f \in Fibers \ M : pc'[f] = pc[f],
           UNCHANGED <<call, left, timer>>,
           \A c \in cbs' : c.op = "sleep" => c \in cbs,
           \A c \in cbs : c.op = "sleep" => c \in cbs'
    PROVE  WaitInv'
<1> DEFINE S == {waiter[fd][e] : e \in es}
<1>1. ASSUME trigger(fd, es)
      PROVE  /\ waiter' = [waiter EXCEPT ![fd] = [e \in Events |-> IF e \in es THEN NoFiber ELSE @[e]]]
             /\ st' = [f \in Fibers |-> IF f \in S /\ st[f] = "hold" THEN "ready" ELSE st[f]]
             /\ woken' = [f \in Fibers |-> woken[f] \/ (f \in S /\ st[f] # "hold")]
  BY <1>1 DEF trigger, Wake
<1>2. \A e \in es : e \in Events /\ waiter[fd][e] \in Fibers /\ waiter[fd][e] # NoFiber
  BY DEF Waited, Typed, ThreadsOK
<1>3. \A f \in S : /\ f \in Fibers /\ Waiting(f) /\ call[f].fd = fd /\ call[f].ev \in es
                   /\ call[f].op # "sleep"
  BY <1>2 DEF WaitInv, Registered
<1>4. \A f \in Fibers \ S : st'[f] = st[f] /\ woken'[f] = woken[f]
  BY <1>1 DEF Typed, ThreadsOK
<1>5. \A f \in S : \/ st[f] = "hold" /\ st'[f] = "ready" /\ pc[f] = "woke" /\ woken'[f] = FALSE
                   \/ st[f] = "run" /\ st'[f] = "run" /\ pc[f] = "yield" /\ woken'[f] = TRUE
  <2>1. CASE trigger(fd, es)
    <3>1. \A f \in S : f \in Fibers /\ (st[f] = "hold" => pc[f] = "woke") /\ ~woken[f]
                      /\ (st[f] # "hold" => st[f] = "run" /\ pc[f] = "yield")
      BY <1>3 DEF Waiting, WaitInv, Local
    <3>2. \A f \in S : st'[f] = IF st[f] = "hold" THEN "ready" ELSE st[f]
      BY <1>1, <2>1, <3>1
    <3>3. \A f \in S : woken'[f] = (woken[f] \/ st[f] # "hold")
      BY <1>1, <2>1, <3>1
    <3> HIDE DEF S
    <3> QED BY <3>1, <3>2, <3>3
  <2>2. CASE es = {}
    BY <2>2
  <2> QED BY <2>1, <2>2
<1>m. \A f \in M : f \notin S /\ ~Waiting(f) /\ ~Waiting(f)' /\ ~timer[f] /\ Local(f)'
  <2>1. \A f \in M : ~Waiting(f) /\ ~Waiting(f)' /\ ~timer[f]
    BY DEF Waiting, WaitInv, TimerHeld
  <2>2. \A f \in M : f \notin S
    BY <1>3, <2>1
  <2>3. \A f \in M : Local(f) /\ st'[f] = st[f] /\ woken'[f] = woken[f]
    BY <1>4, <2>2 DEF WaitInv
  <2>4. \A f \in M : Local(f)'
    BY <2>3 DEF Local, InCall, WaitPlaces
  <2> QED BY <2>1, <2>2, <2>4
<1>6. \A f \in Fibers : InCall(f)' <=> InCall(f)
  BY DEF InCall
<1>7. \A f \in S : ~Waiting(f)'
  BY <1>5, <1>m DEF Waiting
<1>8. \A f \in Fibers \ S : Waiting(f)' <=> Waiting(f)
  BY <1>4, <1>6, <1>m DEF Waiting
<1>9. \A f \in Fibers : Local(f)'
  <2>1. \A f \in Fibers \ M : Local(f)'
    BY <1>4, <1>5, <1>6 DEF WaitInv, Local
  <2> QED BY <1>m, <2>1
<1>10. /\ \A e \in es : waiter'[fd][e] = NoFiber
       /\ \A g \in Fds, e \in Events : g # fd \/ e \notin es => waiter'[g][e] = waiter[g][e]
  <2>1. CASE trigger(fd, es)
    BY <1>1, <1>2, <2>1 DEF Typed, ThreadsOK
  <2>2. CASE es = {} /\ UNCHANGED <<waiter, st, woken>>
    BY <2>2
  <2> QED BY <2>1, <2>2
<1>11. ASSUME NEW f \in Fibers, Waiting(f)'
       PROVE  Awaited(f)'
  <2>1. f \notin S /\ Waiting(f) /\ Awaited(f)
    BY <1>7, <1>8, <1>11 DEF WaitInv
  <2>2. CASE call[f].op = "sleep"
    BY <2>1, <2>2 DEF Awaited
  <2>3. CASE call[f].op # "sleep"
    <3>1. call[f].fd \in Fds /\ call[f].ev \in Events
      BY <2>1 DEF Waiting, InCall, Typed, ControlOK, CallRec
    <3>2. waiter[call[f].fd][call[f].ev] = f
      BY <2>1, <2>3 DEF Awaited
    <3>3. call[f].fd # fd \/ call[f].ev \notin es
      BY <2>1, <3>2
    <3> QED BY <1>10, <2>3, <3>1, <3>2, <3>3 DEF Awaited
  <2> QED BY <2>2, <2>3
<1>12. ASSUME NEW g \in Fds, NEW e \in Events, waiter'[g][e] # NoFiber
       PROVE  Registered(waiter[g][e], g, e)'
  <2>1. waiter'[g][e] = waiter[g][e] /\ (g # fd \/ e \notin es)
    BY <1>10, <1>12
  <2>2. Registered(waiter[g][e], g, e) /\ waiter[g][e] \in Fibers
    BY <1>12, <2>1 DEF WaitInv, Typed, ThreadsOK
  <2>3. waiter[g][e] \notin S
    BY <1>3, <2>1, <2>2 DEF Registered
  <2> QED BY <1>8, <2>1, <2>2, <2>3 DEF Registered
<1>13. ASSUME NEW c \in cbs', c.op = "sleep"
       PROVE  SleepCb(c)'
  <2>1. SleepCb(c) /\ c.of \in Fibers
    BY <1>13 DEF WaitInv, Typed, RestOK, CbRec
  <2>2. c.of \notin S
    BY <1>3, <2>1 DEF SleepCb
  <2> QED BY <1>8, <2>1, <2>2 DEF SleepCb
<1>14. ASSUME NEW f \in Fibers, timer'[f]
       PROVE  TimerHeld(f)'
  <2>1. TimerHeld(f)
    BY <1>14 DEF WaitInv
  <2>2. call[f].op = "sleep" => f \notin S
    BY <1>3
  <2>3. f \notin M
    BY <1>m, <1>14
  <2> QED BY <1>6, <1>8, <2>1, <2>2, <2>3 DEF TimerHeld
<1> QED BY <1>9, <1>11, <1>12, <1>13, <1>14 DEF WaitInv

(***************************************************************************)
(* Types                                                                   *)
(***************************************************************************)

\* They are TypeOK and more.
LEMMA TypedIsTypeOK ==
    Typed => TypeOK
<1>1. KernOK => \A fd \in Fds : /\ kern[fd].ready \subseteq Events
                                /\ kern[fd].conn \in {"no", "going", "yes", "failed"}
  BY DEF KernOK, KernRec
<1> QED BY <1>1 DEF Typed, KernOK, TableOK, ControlOK, ThreadsOK, RestOK, TypeOK

\* A fiber that stays in its call.
LEMMA GotoControl ==
    ASSUME ControlOK, NEW f \in Fibers, NEW loc \in Places \ {"app"}, pc[f] # "app",
           Goto(f, loc), UNCHANGED <<call, connected>>
    PROVE  ControlOK'
BY DEF ControlOK, Goto, InCall

\* A fiber whose call returns.
LEMMA ReturnControl ==
    ASSUME ControlOK, NEW f \in Fibers, NEW r, Return(f, r)
    PROVE  /\ ControlOK' /\ pc'[f] = "app" /\ ~InCall(f)'
           /\ \A g \in Fibers \ {f} : pc'[g] = pc[g] /\ call'[g] = call[g]
<1>1. /\ pc' = [pc EXCEPT ![f] = "app"] /\ call' = [call EXCEPT ![f] = NoCall]
      /\ connected' = [connected EXCEPT ![f] = call[f].op = "connect" /\ r = "ok"]
  BY DEF Return, Goto
<1>2. "app" \in Places
  BY DEF Places
<1>3. connected' \in [Fibers -> BOOLEAN]
  BY <1>1 DEF ControlOK
<1>4. /\ pc' \in [Fibers -> Places] /\ call' \in [Fibers -> CallRec \cup {NoCall}]
      /\ \A g \in Fibers \ {f} : pc'[g] = pc[g] /\ call'[g] = call[g]
      /\ pc'[f] = "app" /\ call'[f] = NoCall
  BY <1>1, <1>2 DEF ControlOK
<1> QED BY <1>3, <1>4 DEF ControlOK, InCall

\* The fields of a call in progress.
LEMMA CallFields ==
    ASSUME ControlOK, NEW f \in Fibers, pc[f] # "app"
    PROVE  /\ call[f] \in CallRec
           /\ call[f].fd \in Fds /\ call[f].ev \in Events /\ call[f].timed \in BOOLEAN
           /\ call[f].op \in WaitOps \cup {"sleep", "socket", "close"}
BY DEF ControlOK, InCall, CallRec

\* trigger and cancelEvent keep the kernel, the waiters and the fibers typed.
LEMMA CancelTyped ==
    ASSUME Typed, NEW fd \in Fds,
           \/ UNCHANGED <<waiter, kern, st, woken>>
           \/ kern[fd].watched /\ \E es \in SUBSET Waited(fd) : trigger(fd, es)
    PROVE  KernOK' /\ ThreadsOK'
<1> USE DEF Typed
<1>1. CASE UNCHANGED <<waiter, kern, st, woken>>
  BY <1>1 DEF KernOK, ThreadsOK
<1>2. CASE kern[fd].watched /\ \E es \in SUBSET Waited(fd) : trigger(fd, es)
  <2>1. PICK es \in SUBSET Waited(fd) : trigger(fd, es)
    BY <1>2
  <2>2. kern[fd].open /\ kern[fd] \in KernRec
    BY <1>2 DEF KernOK, Closed
  <2>3. kern' = [kern EXCEPT ![fd].watched = Waited(fd) \ es # {}]
    BY <2>1 DEF trigger
  <2>4. KernOK'
    BY <2>2, <2>3 DEF KernOK, KernRec
  <2>5. /\ waiter' = [waiter EXCEPT ![fd] = [e \in Events |-> IF e \in es THEN NoFiber ELSE @[e]]]
        /\ Wake({waiter[fd][e] : e \in es})
    BY <2>1 DEF trigger
  <2>6. ThreadsOK'
    <3>1. waiter' \in [Fds -> [Events -> Fibers \cup {NoFiber}]]
      BY <2>5 DEF ThreadsOK
    <3>2. /\ st' \in [Fibers -> {"ready", "run", "hold", "end"}]
          /\ woken' \in [Fibers -> BOOLEAN]
      BY <2>5 DEF Wake, ThreadsOK
    <3> QED BY <3>1, <3>2 DEF ThreadsOK
  <2> QED BY <2>4, <2>6
<1> QED BY <1>1, <1>2

\* cancelEvent triggers the events that have a waiter, or does nothing.
LEMMA CancelCases ==
    ASSUME NEW fd \in Fds, NEW es \in SUBSET Events, cancelEvent(fd, es)
    PROVE  \E s \in SUBSET Waited(fd) :
                \/ kern[fd].watched /\ trigger(fd, s)
                \/ s = {} /\ UNCHANGED <<waiter, kern, st, woken>>
BY DEF cancelEvent

\* A table that grows makes room for its handle.
LEMMA CreateTyped ==
    ASSUME TableOK, NEW fd \in Fds, NEW isOpen \in BOOLEAN, Create(fd, isOpen)
    PROVE  TableOK' /\ m_datas' = [m_datas EXCEPT ![fd] = FdCtx(isOpen)] /\ size' > fd
<1>1. /\ size' = GrownSize(fd) /\ m_datas' = [m_datas EXCEPT ![fd] = FdCtx(isOpen)]
      /\ fd \in Nat /\ size \in Nat /\ size >= 2
  BY FdsAreHandles DEF Create, TableOK, TableTypeOK
<1>2. GrownSize(fd) \in Nat /\ GrownSize(fd) >= size /\ GrownSize(fd) > fd
  <2>1. CASE fd >= size
    <3>1. (fd * 3) \div 2 \in Nat /\ (fd * 3) \div 2 > fd
      BY <1>1, <2>1
    <3> QED BY <1>1, <2>1, <3>1 DEF GrownSize
  <2>2. CASE ~(fd >= size)
    BY <1>1, <2>2 DEF GrownSize
  <2> QED BY <2>1, <2>2
<1>3. FdCtx(isOpen) \in FdCtxs
  BY DEF FdCtx, FdCtxs
<1>4. m_datas' \in [Fds -> FdCtxs \cup {NoCtx}]
  BY <1>1, <1>3 DEF TableOK, TableTypeOK
<1>5. \A g \in Fds : m_datas'[g] # NoCtx => g < size'
  <2> SUFFICES ASSUME NEW g \in Fds, m_datas'[g] # NoCtx PROVE g < size'
    OBVIOUS
  <2>1. g \in Nat
    BY FdsAreHandles
  <2>2. CASE g = fd
    BY <1>1, <1>2, <2>2
  <2>3. CASE g # fd
    BY <1>1, <1>2, <2>1, <2>3 DEF TableOK, TableTypeOK
  <2> QED BY <2>2, <2>3
<1> QED BY <1>1, <1>2, <1>4, <1>5 DEF TableOK, TableTypeOK

\* The setters of a context that is there, and del.
LEMMA SetterTyped ==
    ASSUME TableOK, NEW fd \in Fds,
           \/ m_datas[fd] # NoCtx /\ \E v \in BOOLEAN : setUserNonblock(fd, v)
           \/ m_datas[fd] # NoCtx /\ \E e \in Events : setTimeout(fd, e)
           \/ del(fd)
           \/ UNCHANGED table
    PROVE  TableOK'
<1>1. fd \in Nat /\ size \in Nat
  BY FdsAreHandles DEF TableOK, TableTypeOK
<1>2. CASE UNCHANGED table
  BY <1>2 DEF table, TableOK, TableTypeOK
<1>3. CASE del(fd)
  BY <1>1, <1>3 DEF del, TableOK, TableTypeOK
<1>4. CASE m_datas[fd] # NoCtx /\ \E v \in BOOLEAN : setUserNonblock(fd, v)
  <2>1. PICK v \in BOOLEAN : m_datas' = [m_datas EXCEPT ![fd].userNonblock = v] /\ size' = size
    BY <1>4 DEF setUserNonblock
  <2>2. m_datas[fd] \in FdCtxs
    BY <1>4 DEF TableOK, TableTypeOK
  <2>3. [m_datas[fd] EXCEPT !.userNonblock = v] \in FdCtxs
    BY <2>2 DEF FdCtxs
  <2> QED BY <1>4, <2>1, <2>3 DEF TableOK, TableTypeOK
<1>5. CASE m_datas[fd] # NoCtx /\ \E e \in Events : setTimeout(fd, e)
  <2>1. PICK e \in Events : m_datas' = [m_datas EXCEPT ![fd].timed[e] = TRUE] /\ size' = size
    BY <1>5 DEF setTimeout
  <2>2. m_datas[fd] \in FdCtxs
    BY <1>5 DEF TableOK, TableTypeOK
  <2>3. [m_datas[fd] EXCEPT !.timed[e] = TRUE] \in FdCtxs
    BY <2>2 DEF FdCtxs
  <2> QED BY <1>5, <2>1, <2>3 DEF TableOK, TableTypeOK
<1> QED BY <1>2, <1>3, <1>4, <1>5

(***************************************************************************)
(* The steps of a fiber                                                    *)
(***************************************************************************)

\* What holds of a fiber that runs its next step.
LEMMA AtFacts ==
    ASSUME HookInv, NEW f \in Fibers, NEW loc \in Places, At(f, loc)
    PROVE  /\ st[f] = "run" /\ pc[f] = loc
           /\ loc # "yield" => ~woken[f]
           /\ loc \notin {"add", "yield", "woke"} => ~timer[f]
           /\ loc # "app" => InCall(f) /\ call[f] \in CallRec
           /\ loc \notin WaitPlaces \cup {"app"} => call[f].op # "sleep"
BY CallFields DEF At, HookInv, Typed, ControlOK, WaitInv, Local, TimerHeld

\* A step that returns from the call.
LEMMA ReturnStep ==
    ASSUME HookInv, NEW f \in Fibers, NEW loc \in Places \ {"yield"}, At(f, loc),
           NEW r, Return(f, r), KernOK', TableOK', raw' \subseteq Fds,
           timer' \in [Fibers -> BOOLEAN], ~timer'[f],
           \A g \in Fibers \ {f} : timer'[g] = timer[g],
           UNCHANGED <<config, s_connect_timeout, waiter, st, woken, left, cbs>>
    PROVE  HookInv'
<1> USE DEF HookInv, Typed
<1>1. st[f] = "run" /\ pc[f] = loc
  BY AtFacts
<1>2. /\ ControlOK' /\ pc'[f] = "app" /\ ~InCall(f)'
      /\ \A g \in Fibers \ {f} : pc'[g] = pc[g] /\ call'[g] = call[g]
  BY ReturnControl
<1>3. Typed'
  BY <1>2 DEF ThreadsOK, RestOK, config
<1>4. \A g \in Fibers \ {f} : InCall(g)' <=> InCall(g)
  BY <1>2 DEF InCall
<1>5. WaitInv'
  BY <1>1, <1>2, <1>4, SimpleMove
<1> QED BY <1>3, <1>5

\* A step inside a call, up to a place where the fiber does not wait.
LEMMA GotoStep ==
    ASSUME HookInv, NEW f \in Fibers, NEW loc \in Places \ {"yield", "app"}, At(f, loc),
           NEW to \in Places \ {"yield", "woke", "app"}, Goto(f, to),
           UNCHANGED <<call, connected>>,
           call[f].op = "sleep" => to \in WaitPlaces,
           KernOK', TableOK', raw' \subseteq Fds, timer' \in [Fibers -> BOOLEAN],
           timer'[f] => to = "add", \A g \in Fibers \ {f} : timer'[g] = timer[g],
           UNCHANGED <<config, s_connect_timeout, waiter, st, woken, left, cbs>>
    PROVE  HookInv'
<1> USE DEF HookInv, Typed
<1>1. st[f] = "run" /\ pc[f] = loc /\ InCall(f) /\ ~woken[f]
  BY AtFacts
<1>2. ControlOK'
  BY <1>1, GotoControl
<1>3. Typed'
  BY <1>2 DEF ThreadsOK, RestOK, config
<1>4. pc'[f] = to /\ \A g \in Fibers \ {f} : pc'[g] = pc[g]
  BY DEF Goto, ControlOK
<1>5. \A g \in Fibers : InCall(g)' <=> InCall(g)
  BY DEF InCall
<1>6. ~Waiting(f) /\ ~Waiting(f)'
  BY <1>1, <1>4 DEF Waiting
<1>7. Local(f)'
  BY <1>1, <1>4, <1>5 DEF Local, WaitInv
<1>8. timer'[f] => TimerHeld(f)'
  <2>1. to = "add" => call[f].op # "sleep"
    BY DEF WaitPlaces
  <2> QED BY <1>1, <1>4, <1>5, <2>1 DEF TimerHeld
<1>9. WaitInv'
  BY <1>4, <1>5, <1>6, <1>7, <1>8, FiberMoves
<1> QED BY <1>3, <1>9

\* Without hook, or without context; and the end of a connect.
LEMMA ImmediateStep ==
    ASSUME HookInv, NEW f \in Fibers, Immediate(f) \/ CheckConnect(f)
    PROVE  HookInv'
<1>1. PICK loc \in {"done", "ebadf", "check"} : At(f, loc)
  BY DEF Immediate, CheckConnect
<1>2. loc \in Places \ {"yield"} /\ loc \notin {"add", "yield", "woke"}
  BY DEF Places
<1>3. ~timer[f]
  BY <1>1, <1>2, AtFacts
<1>4. PICK r : Return(f, r)
  BY DEF Immediate, CheckConnect
<1>5. UNCHANGED <<table, config, s_connect_timeout, kern, waiter, st, woken, left, timer, cbs, raw>>
  BY DEF Immediate, CheckConnect
<1>6. KernOK' /\ TableOK' /\ raw' \subseteq Fds /\ timer' \in [Fibers -> BOOLEAN]
  BY <1>5 DEF HookInv, Typed, KernOK, TableOK, TableTypeOK, RestOK, table
<1> QED BY <1>1, <1>2, <1>3, <1>4, <1>5, <1>6, ReturnStep

\* One call of the original function.
LEMMA TryStep ==
    ASSUME HookInv, NEW f \in Fibers, Try(f)
    PROVE  HookInv'
<1> USE DEF HookInv, Typed
<1>1. PICK loc \in {"try", "direct"} : At(f, loc)
  BY DEF Try
<1>2. /\ loc \in Places \ {"yield"} /\ loc \in Places \ {"yield", "app"}
      /\ loc \notin WaitPlaces \cup {"app", "add", "yield", "woke"}
      /\ "arm" \in Places \ {"yield", "woke", "app"} /\ "socket" \in Places \ {"yield", "woke", "app"}
  BY DEF Places, WaitPlaces
<1>3. pc[f] = loc /\ ~timer[f] /\ call[f] \in CallRec /\ call[f].op # "sleep"
  BY <1>1, <1>2, AtFacts
<1>4. UNCHANGED <<table, config, s_connect_timeout, waiter, st, woken, left, timer, cbs, raw>>
  BY DEF Try
<1>5. TableOK' /\ raw' \subseteq Fds /\ timer' \in [Fibers -> BOOLEAN]
  BY <1>4 DEF TableOK, TableTypeOK, RestOK, table
<1>6. call[f].fd \in Fds /\ call[f].ev \in Events
  BY <1>3 DEF CallRec
<1>7. \/ UNCHANGED kern
      \/ /\ kern[call[f].fd].open
         /\ \/ kern' = [kern EXCEPT ![call[f].fd].ready = @ \ {call[f].ev}]
            \/ kern' = [kern EXCEPT ![call[f].fd].conn = "yes"]
            \/ kern' = [kern EXCEPT ![call[f].fd].conn = "going", ![call[f].fd].ready = {}]
  BY DEF Try
<1>8. KernOK'
  BY <1>6, <1>7 DEF KernOK, KernRec
<1>9. \/ \E r : Return(f, r)
      \/ (Goto(f, "arm") \/ Goto(f, "socket")) /\ UNCHANGED <<call, connected>>
  BY DEF Try, Stay
<1>10. CASE \E r : Return(f, r)
  BY <1>1, <1>2, <1>3, <1>4, <1>5, <1>8, <1>10, ReturnStep
<1>11. CASE Goto(f, "arm") /\ UNCHANGED <<call, connected>>
  BY <1>1, <1>2, <1>3, <1>4, <1>5, <1>8, <1>11, GotoStep
<1>12. CASE Goto(f, "socket") /\ UNCHANGED <<call, connected>>
  BY <1>1, <1>2, <1>3, <1>4, <1>5, <1>8, <1>12, GotoStep
<1> QED BY <1>9, <1>10, <1>11, <1>12

\* The timer of a call starts; a sleep waits from here on.
LEMMA ArmStep ==
    ASSUME HookInv, NEW f \in Fibers, ArmTimer(f)
    PROVE  HookInv'
<1> USE DEF HookInv, Typed
<1>1. /\ At(f, "arm") /\ timer' = [timer EXCEPT ![f] = call[f].timed]
      /\ Goto(f, IF call[f].op = "sleep" THEN "yield" ELSE "add")
      /\ UNCHANGED <<table, config, s_connect_timeout, kern, waiter, st, woken, call, left,
                     connected, cbs, raw>>
  BY DEF ArmTimer
<1>2. {"arm", "yield", "add"} \subseteq Places
  BY DEF Places
<1>3. st[f] = "run" /\ pc[f] = "arm" /\ InCall(f) /\ call[f] \in CallRec /\ ~woken[f] /\ ~timer[f]
  BY <1>1, <1>2, AtFacts
<1>4. /\ timer' \in [Fibers -> BOOLEAN] /\ timer'[f] = call[f].timed
      /\ \A g \in Fibers \ {f} : timer'[g] = timer[g]
  BY <1>1, <1>3 DEF RestOK, CallRec
<1>5. KernOK' /\ TableOK' /\ raw' \subseteq Fds
  BY <1>1 DEF KernOK, TableOK, TableTypeOK, RestOK, table
<1>6. CASE call[f].op # "sleep"
  BY <1>1, <1>2, <1>4, <1>5, <1>6, GotoStep
<1>7. CASE call[f].op = "sleep"
  <2>1. ControlOK'
    BY <1>1, <1>2, <1>3, <1>7, GotoControl
  <2>2. Typed'
    BY <1>1, <1>4, <1>5, <2>1 DEF ThreadsOK, RestOK, config
  <2>3. pc'[f] = "yield" /\ \A g \in Fibers \ {f} : pc'[g] = pc[g]
    BY <1>1, <1>7 DEF Goto, ControlOK
  <2>4. \A g \in Fibers : InCall(g)' <=> InCall(g)
    BY <1>1 DEF InCall
  <2>5. call[f].timed
    BY <1>3, <1>7 DEF WaitInv, Local
  <2>6. Waiting(f)' /\ ~Waiting(f)
    BY <1>1, <1>3, <2>3, <2>4 DEF Waiting
  <2>7. \A g \in Fibers \ {f} : Waiting(g)' <=> Waiting(g)
    BY <1>1, <2>3, <2>4 DEF Waiting
  <2>8. \A g \in Fibers : Local(g)'
    BY <1>1, <1>3, <2>3, <2>4, <2>5 DEF WaitInv, Local, WaitPlaces
  <2>9. Awaited(f)'
    BY <1>1, <1>4, <1>7, <2>5 DEF Awaited
  <2>10. \A g \in Fibers : Waiting(g)' => Awaited(g)'
    BY <1>1, <1>4, <2>7, <2>9 DEF WaitInv, Awaited
  <2>11. ASSUME NEW fd \in Fds, NEW e \in Events, waiter'[fd][e] # NoFiber
         PROVE  Registered(waiter[fd][e], fd, e)'
    <3>1. Registered(waiter[fd][e], fd, e) /\ waiter[fd][e] \in Fibers \ {f}
      BY <1>1, <2>6, <2>11 DEF WaitInv, Registered, ThreadsOK
    <3> QED BY <1>1, <2>7, <3>1 DEF Registered
  <2>12. ASSUME NEW c \in cbs', c.op = "sleep"
         PROVE  SleepCb(c)'
    <3>1. SleepCb(c) /\ c.of \in Fibers \ {f}
      BY <1>1, <2>6, <2>12 DEF WaitInv, SleepCb, RestOK, CbRec
    <3> QED BY <1>1, <1>4, <2>7, <3>1 DEF SleepCb
  <2>13. \A g \in Fibers : timer'[g] => TimerHeld(g)'
    BY <1>1, <1>4, <2>3, <2>4, <2>6, <2>7 DEF WaitInv, TimerHeld, Waiting
  <2>14. WaitInv'
    BY <2>8, <2>10, <2>11, <2>12, <2>13 DEF WaitInv
  <2> QED BY <2>2, <2>14
<1> QED BY <1>6, <1>7

\* A fiber registers for its event, or learns that it cannot.
LEMMA AddEventStep ==
    ASSUME HookInv, NEW f \in Fibers, addEvent(f)
    PROVE  HookInv'
<1> USE NullsAreNot DEF HookInv, Typed
<1> DEFINE fd == call[f].fd
           ev == call[f].ev
<1>1. /\ At(f, "add")
      /\ UNCHANGED <<table, config, s_connect_timeout, st, woken, left, cbs, raw>>
  BY DEF addEvent
<1>2. /\ "add" \in Places \ {"yield", "app"} /\ "add" \in Places \ {"yield"} /\ "yield" \in Places
      /\ "check" \in Places \ {"yield", "woke", "app"} /\ "add" \notin WaitPlaces \cup {"app"}
  BY DEF Places, WaitPlaces
<1>3. /\ st[f] = "run" /\ pc[f] = "add" /\ InCall(f) /\ call[f] \in CallRec
      /\ ~woken[f] /\ call[f].op # "sleep"
  BY <1>1, <1>2, AtFacts
<1>4. fd \in Fds /\ ev \in Events
  BY <1>3 DEF CallRec
<1>5. TableOK' /\ raw' \subseteq Fds
  BY <1>1 DEF TableOK, TableTypeOK, RestOK, table
<1>6. CASE UNCHANGED <<waiter, kern, timer, pc, call, connected>>
  <2>1. Typed'
    BY <1>1, <1>5, <1>6 DEF KernOK, ControlOK, InCall, ThreadsOK, RestOK, config
  <2>2. WaitInv'
    BY <1>1, <1>6 DEF WaitInv, Local, Waiting, Awaited, Registered, SleepCb, TimerHeld, InCall
  <2> QED BY <2>1, <2>2
<1>7. CASE /\ timer' = [timer EXCEPT ![f] = FALSE]
           /\ UNCHANGED <<waiter, kern>>
           /\ (Goto(f, "check") /\ UNCHANGED <<call, connected>>) \/ (\E r : Return(f, r))
  <2>1. /\ timer' \in [Fibers -> BOOLEAN] /\ ~timer'[f]
        /\ \A g \in Fibers \ {f} : timer'[g] = timer[g]
        /\ KernOK'
    BY <1>7 DEF RestOK, KernOK
  <2>2. CASE Goto(f, "check") /\ UNCHANGED <<call, connected>>
    BY <1>1, <1>2, <1>3, <1>5, <1>7, <2>1, <2>2, GotoStep
  <2>3. CASE \E r : Return(f, r)
    BY <1>1, <1>2, <1>5, <1>7, <2>1, <2>3, ReturnStep
  <2> QED BY <1>7, <2>2, <2>3
<1>8. CASE /\ waiter[fd][ev] = NoFiber /\ kern[fd].open
           /\ waiter' = [waiter EXCEPT ![fd][ev] = f]
           /\ kern' = [kern EXCEPT ![fd].watched = TRUE]
           /\ Goto(f, "yield") /\ UNCHANGED <<timer, call, connected>>
  <2>1. KernOK'
    <3>0. kern[fd] \in KernRec
      BY <1>4 DEF KernOK
    <3>1. [kern[fd] EXCEPT !.watched = TRUE] \in KernRec
      <4> HIDE DEF fd
      <4> QED BY <3>0 DEF KernRec
    <3>2. [kern[fd] EXCEPT !.watched = TRUE].open
      BY <1>4, <1>8 DEF KernOK, KernRec
    <3>3. /\ kern' \in [Fds -> KernRec] /\ kern'[fd] = [kern[fd] EXCEPT !.watched = TRUE]
          /\ \A g \in Fds \ {fd} : kern'[g] = kern[g]
      BY <1>4, <1>8, <3>1 DEF KernOK
    <3> QED BY <3>2, <3>3 DEF KernOK
  <2>2. ControlOK'
    BY <1>2, <1>3, <1>8, GotoControl
  <2>3. /\ waiter' \in [Fds -> [Events -> Fibers \cup {NoFiber}]] /\ waiter'[fd][ev] = f
        /\ \A g \in Fds, e \in Events : g # fd \/ e # ev => waiter'[g][e] = waiter[g][e]
    BY <1>4, <1>8 DEF ThreadsOK
  <2>4. Typed'
    BY <1>1, <1>5, <1>8, <2>1, <2>2, <2>3 DEF ThreadsOK, RestOK, config
  <2>5. pc'[f] = "yield" /\ \A g \in Fibers \ {f} : pc'[g] = pc[g]
    BY <1>8 DEF Goto, ControlOK
  <2>6. \A g \in Fibers : InCall(g)' <=> InCall(g)
    BY <1>8 DEF InCall
  <2>7. Waiting(f)' /\ ~Waiting(f)
    BY <1>1, <1>3, <2>5, <2>6 DEF Waiting
  <2>8. \A g \in Fibers \ {f} : Waiting(g)' <=> Waiting(g)
    BY <1>1, <2>5, <2>6 DEF Waiting
  <2>9. \A g \in Fibers : Local(g)'
    BY <1>1, <1>3, <1>8, <2>5, <2>6 DEF WaitInv, Local
  <2>10. ASSUME NEW g \in Fibers, Waiting(g)'
         PROVE  Awaited(g)'
    <3>1. CASE g = f
      BY <1>3, <1>8, <2>3, <3>1 DEF Awaited
    <3>2. CASE g # f
      <4>1. Waiting(g) /\ Awaited(g)
        BY <2>8, <2>10, <3>2 DEF WaitInv
      <4>2. CASE call[g].op = "sleep"
        BY <1>1, <1>8, <4>1, <4>2 DEF Awaited
      <4>3. CASE call[g].op # "sleep"
        <5>1. call[g].fd \in Fds /\ call[g].ev \in Events
          BY <4>1 DEF Waiting, InCall, ControlOK, CallRec
        <5>2. waiter[call[g].fd][call[g].ev] = g
          BY <4>1, <4>3 DEF Awaited
        <5>3. call[g].fd # fd \/ call[g].ev # ev
          BY <1>8, <5>2
        <5> QED BY <1>8, <2>3, <4>3, <5>1, <5>2, <5>3 DEF Awaited
      <4> QED BY <4>2, <4>3
    <3> QED BY <3>1, <3>2
  <2>11. ASSUME NEW h \in Fds, NEW e \in Events, waiter'[h][e] # NoFiber
         PROVE  Registered(waiter[h][e], h, e)'
    <3>1. CASE h = fd /\ e = ev
      BY <1>3, <1>8, <2>3, <2>7, <3>1 DEF Registered
    <3>2. CASE h # fd \/ e # ev
      <4>1. waiter'[h][e] = waiter[h][e]
        BY <2>3, <3>2
      <4>2. Registered(waiter[h][e], h, e) /\ waiter[h][e] \in Fibers \ {f}
        BY <2>7, <2>11, <4>1 DEF WaitInv, Registered, ThreadsOK
      <4> QED BY <1>8, <2>8, <4>1, <4>2 DEF Registered
    <3> QED BY <3>1, <3>2
  <2>12. ASSUME NEW c \in cbs', c.op = "sleep"
         PROVE  SleepCb(c)'
    <3>1. SleepCb(c) /\ c.of \in Fibers \ {f}
      BY <1>1, <2>7, <2>12 DEF WaitInv, SleepCb, RestOK, CbRec
    <3> QED BY <1>1, <1>8, <2>8, <3>1 DEF SleepCb
  <2>13. \A g \in Fibers : timer'[g] => TimerHeld(g)'
    BY <1>3, <1>8, <2>5, <2>6, <2>8 DEF WaitInv, TimerHeld
  <2>14. WaitInv'
    BY <2>9, <2>10, <2>11, <2>12, <2>13 DEF WaitInv
  <2> QED BY <2>4, <2>14
<1>9. \/ UNCHANGED <<waiter, kern, timer, pc, call, connected>>
      \/ /\ timer' = [timer EXCEPT ![f] = FALSE]
         /\ UNCHANGED <<waiter, kern>>
         /\ (Goto(f, "check") /\ UNCHANGED <<call, connected>>) \/ (\E r : Return(f, r))
      \/ /\ waiter[fd][ev] = NoFiber /\ kern[fd].open
         /\ waiter' = [waiter EXCEPT ![fd][ev] = f]
         /\ kern' = [kern EXCEPT ![fd].watched = TRUE]
         /\ Goto(f, "yield") /\ UNCHANGED <<timer, call, connected>>
  BY DEF addEvent, Stay
<1> QED BY <1>6, <1>7, <1>8, <1>9

\* YieldToHold: the fiber waits on, or is ready because it has been woken.
LEMMA YieldStep ==
    ASSUME HookInv, NEW f \in Fibers, Yield(f)
    PROVE  HookInv'
<1> USE DEF HookInv, Typed
<1>1. /\ At(f, "yield") /\ Goto(f, "woke")
      /\ st' = [st EXCEPT ![f] = IF woken[f] THEN "ready" ELSE "hold"]
      /\ woken' = [woken EXCEPT ![f] = FALSE]
      /\ UNCHANGED <<table, config, s_connect_timeout, kern, waiter, call, left, timer,
                     connected, cbs, raw>>
  BY DEF Yield
<1>2. "yield" \in Places /\ "woke" \in Places \ {"app"}
  BY DEF Places
<1>3. st[f] = "run" /\ pc[f] = "yield" /\ InCall(f) /\ woken[f] \in BOOLEAN
  BY <1>1, <1>2, AtFacts DEF ThreadsOK
<1>4. ControlOK'
  BY <1>1, <1>2, <1>3, GotoControl
<1>5. Typed'
  BY <1>1, <1>4 DEF KernOK, TableOK, TableTypeOK, ThreadsOK, RestOK, config, table
<1>6. /\ pc'[f] = "woke" /\ ~woken'[f] /\ st'[f] = IF woken[f] THEN "ready" ELSE "hold"
      /\ \A g \in Fibers \ {f} : pc'[g] = pc[g] /\ st'[g] = st[g] /\ woken'[g] = woken[g]
  BY <1>1 DEF Goto, ControlOK, ThreadsOK
<1>7. \A g \in Fibers : InCall(g)' <=> InCall(g)
  BY <1>1 DEF InCall
<1>8. \A g \in Fibers : Waiting(g)' <=> Waiting(g)
  BY <1>3, <1>6, <1>7 DEF Waiting
<1>9. \A g \in Fibers : Local(g)'
  BY <1>1, <1>3, <1>6, <1>7 DEF WaitInv, Local, WaitPlaces
<1>10. \A g \in Fibers : Awaited(g)' <=> Awaited(g)
  BY <1>1 DEF Awaited
<1>11. \A fd \in Fds, e \in Events : waiter'[fd][e] # NoFiber => Registered(waiter[fd][e], fd, e)'
  <2>1. \A fd \in Fds, e \in Events : waiter[fd][e] # NoFiber => waiter[fd][e] \in Fibers
    BY DEF ThreadsOK
  <2> QED BY <1>1, <1>8, <2>1 DEF WaitInv, Registered
<1>12. \A c \in cbs' : c.op = "sleep" => SleepCb(c)'
  <2>1. \A c \in cbs : c.of \in Fibers
    BY DEF RestOK, CbRec
  <2> QED BY <1>1, <1>8, <2>1 DEF WaitInv, SleepCb
<1>13. \A g \in Fibers : timer'[g] => TimerHeld(g)'
  BY <1>1, <1>6, <1>7, <1>8 DEF WaitInv, TimerHeld
<1>14. WaitInv'
  BY <1>8, <1>9, <1>10, <1>11, <1>12, <1>13 DEF WaitInv
<1> QED BY <1>5, <1>14

\* Back from the wait.
LEMMA WokeStep ==
    ASSUME HookInv, NEW f \in Fibers, Woke(f)
    PROVE  HookInv'
<1> USE DEF HookInv, Typed
<1>1. /\ At(f, "woke") /\ timer' = [timer EXCEPT ![f] = FALSE]
      /\ \/ \E r : Return(f, r)
         \/ /\ call[f].op # "sleep"
            /\ Goto(f, "check") \/ Goto(f, "try")
            /\ UNCHANGED <<call, connected>>
      /\ UNCHANGED <<table, config, s_connect_timeout, kern, waiter, st, woken, left, cbs, raw>>
  BY DEF Woke, Stay
<1>2. /\ "woke" \in Places \ {"yield"} /\ "woke" \in Places \ {"yield", "app"}
      /\ "check" \in Places \ {"yield", "woke", "app"} /\ "try" \in Places \ {"yield", "woke", "app"}
  BY DEF Places
<1>3. /\ timer' \in [Fibers -> BOOLEAN] /\ ~timer'[f]
      /\ \A g \in Fibers \ {f} : timer'[g] = timer[g]
  BY <1>1 DEF RestOK
<1>4. KernOK' /\ TableOK' /\ raw' \subseteq Fds
  BY <1>1 DEF KernOK, TableOK, TableTypeOK, RestOK, table
<1>5. CASE \E r : Return(f, r)
  BY <1>1, <1>2, <1>3, <1>4, <1>5, ReturnStep
<1>6. CASE call[f].op # "sleep" /\ Goto(f, "check") /\ UNCHANGED <<call, connected>>
  BY <1>1, <1>2, <1>3, <1>4, <1>6, GotoStep
<1>7. CASE call[f].op # "sleep" /\ Goto(f, "try") /\ UNCHANGED <<call, connected>>
  BY <1>1, <1>2, <1>3, <1>4, <1>7, GotoStep
<1> QED BY <1>1, <1>5, <1>6, <1>7

\* A new handle, and its context.
LEMMA SocketStep ==
    ASSUME HookInv, NEW f \in Fibers, SocketF(f)
    PROVE  HookInv'
<1> USE DEF HookInv, Typed
<1>1. /\ At(f, "socket")
      /\ UNCHANGED <<table, config, s_connect_timeout, waiter, st, woken, left, timer, cbs>>
  BY DEF SocketF
<1>2. /\ "socket" \in Places \ {"yield"} /\ "create" \in Places \ {"yield", "woke", "app"}
      /\ "socket" \notin WaitPlaces \cup {"app", "add", "yield", "woke"}
  BY DEF Places, WaitPlaces
<1>3. st[f] = "run" /\ pc[f] = "socket" /\ ~timer[f] /\ call[f] \in CallRec /\ InCall(f) /\ call[f].op # "sleep"
  BY <1>1, <1>2, AtFacts
<1>4. TableOK' /\ timer' \in [Fibers -> BOOLEAN]
  BY <1>1 DEF TableOK, TableTypeOK, RestOK, table
<1>5. CASE (\E r : Return(f, r)) /\ UNCHANGED <<kern, raw>>
  <2>1. KernOK' /\ raw' \subseteq Fds
    BY <1>5 DEF KernOK, RestOK
  <2> QED BY <1>1, <1>2, <1>3, <1>4, <1>5, <2>1, ReturnStep
<1>6. ASSUME NEW fd \in Fds, kern' = [kern EXCEPT ![fd] = Fresh], raw' \subseteq raw \cup {fd},
             \/ \E r : Return(f, r)
             \/ Goto(f, "create") /\ call' = [call EXCEPT ![f].fd = fd] /\ UNCHANGED connected
      PROVE  HookInv'
  <2>1. KernOK' /\ raw' \subseteq Fds
    BY <1>6 DEF KernOK, KernRec, Fresh, Closed, RestOK
  <2>2. CASE \E r : Return(f, r)
    BY <1>1, <1>2, <1>3, <1>4, <2>1, <2>2, ReturnStep
  <2>3. CASE Goto(f, "create") /\ call' = [call EXCEPT ![f].fd = fd] /\ UNCHANGED connected
    <3>1. [call[f] EXCEPT !.fd = fd] \in CallRec /\ [call[f] EXCEPT !.fd = fd].op = call[f].op
      BY <1>3 DEF CallRec
    <3>2. /\ call' \in [Fibers -> CallRec \cup {NoCall}] /\ call'[f] = [call[f] EXCEPT !.fd = fd]
          /\ \A g \in Fibers \ {f} : call'[g] = call[g]
      BY <2>3, <3>1 DEF ControlOK
    <3>3. call'[f] # NoCall
      <4>1. call[f].op # "none"
        BY <1>3 DEF CallRec, WaitOps, IoOps
      <4> QED BY <3>1, <3>2, <4>1 DEF NoCall
    <3>4. /\ pc' \in [Fibers -> Places] /\ pc'[f] = "create"
          /\ \A g \in Fibers \ {f} : pc'[g] = pc[g]
      BY <1>2, <2>3 DEF Goto, ControlOK
    <3>5. ControlOK'
      BY <2>3, <3>2, <3>3, <3>4 DEF ControlOK, InCall
    <3>6. Typed'
      BY <1>1, <1>4, <2>1, <3>5 DEF ThreadsOK, RestOK, config
    <3>7. \A g \in Fibers \ {f} : InCall(g)' <=> InCall(g)
      BY <3>2 DEF InCall
    <3>8. WaitInv'
      BY <1>1, <1>3, <3>1, <3>2, <3>4, <3>7, SimpleMove
    <3> QED BY <3>6, <3>8
  <2> QED BY <1>6, <2>2, <2>3
<1>7. \/ (\E r : Return(f, r)) /\ UNCHANGED <<kern, raw>>
      \/ \E fd \in Fds :
            /\ kern' = [kern EXCEPT ![fd] = Fresh] /\ raw' \subseteq raw \cup {fd}
            /\ \/ \E r : Return(f, r)
               \/ Goto(f, "create") /\ call' = [call EXCEPT ![f].fd = fd] /\ UNCHANGED connected
  BY DEF SocketF
<1> QED BY <1>5, <1>6, <1>7

\* Records of the kernel are their fields.
LEMMA SameRecord ==
    ASSUME NEW a \in KernRec, NEW b \in KernRec,
           a.open = b.open, a.nonblock = b.nonblock, a.ready = b.ready, a.conn = b.conn,
           a.watched = b.watched
    PROVE  a = b
BY DEF KernRec

\* FdManager makes the context of a new handle.
LEMMA CreateStep ==
    ASSUME HookInv, NEW f \in Fibers, CreateCtx(f)
    PROVE  HookInv'
<1> USE DEF HookInv, Typed
<1> DEFINE fd == call[f].fd
<1>1. /\ At(f, "create") /\ Create(fd, kern[fd].open)
      /\ kern' = [kern EXCEPT ![fd].nonblock = kern[fd].open]
      /\ Return(f, "ok")
      /\ UNCHANGED <<config, s_connect_timeout, waiter, st, woken, left, timer, cbs, raw>>
  BY DEF CreateCtx
<1>2. "create" \in Places \ {"yield"} /\ "create" \notin {"app", "add", "yield", "woke"}
  BY DEF Places
<1>3. ~timer[f] /\ fd \in Fds
  BY <1>1, <1>2, AtFacts DEF CallRec
<1>4. kern[fd] \in KernRec /\ (~kern[fd].open => kern[fd] = Closed)
  BY <1>3 DEF KernOK
<1>5. kern[fd].open \in BOOLEAN
  BY <1>4 DEF KernRec
<1>6. KernOK'
  <2> DEFINE k == [kern[fd] EXCEPT !.nonblock = kern[fd].open]
  <2>1. k \in KernRec /\ k.open = kern[fd].open
    <3> HIDE DEF fd
    <3> QED BY <1>4, <1>5 DEF KernRec
  <2>2. ~kern[fd].open => k = Closed
    <3> SUFFICES ASSUME ~kern[fd].open PROVE k = Closed
      OBVIOUS
    <3>1. Closed \in KernRec
      BY DEF Closed, KernRec
    <3>2. kern[fd].open = FALSE /\ kern[fd].nonblock = FALSE
      BY <1>4 DEF Closed
    <3>3. /\ k.open = kern[fd].open /\ k.nonblock = kern[fd].open /\ k.ready = kern[fd].ready
          /\ k.conn = kern[fd].conn /\ k.watched = kern[fd].watched
      <4> HIDE DEF fd
      <4> QED BY <1>4 DEF KernRec
    <3>4. /\ k.open = Closed.open /\ k.nonblock = Closed.nonblock /\ k.ready = Closed.ready
          /\ k.conn = Closed.conn /\ k.watched = Closed.watched
      BY <1>4, <3>2, <3>3
    <3> HIDE DEF k
    <3> QED BY <2>1, <3>1, <3>4, SameRecord
  <2>3. kern' \in [Fds -> KernRec] /\ kern'[fd] = k /\ \A g \in Fds \ {fd} : kern'[g] = kern[g]
    BY <1>1, <1>3, <2>1 DEF KernOK
  <2> QED BY <2>1, <2>2, <2>3 DEF KernOK
<1>7. TableOK'
  BY <1>1, <1>3, <1>5, CreateTyped
<1>8. raw' \subseteq Fds /\ timer' \in [Fibers -> BOOLEAN]
  BY <1>1 DEF RestOK
<1> QED BY <1>1, <1>2, <1>3, <1>6, <1>7, <1>8, ReturnStep

\* close() takes the context out of the table.
LEMMA DelStep ==
    ASSUME HookInv, NEW f \in Fibers, DelCtx(f)
    PROVE  HookInv'
<1> USE DEF HookInv, Typed
<1>1. /\ At(f, "del") /\ del(call[f].fd) /\ Goto(f, "close_f")
      /\ UNCHANGED <<config, s_connect_timeout, kern, waiter, st, woken, call, left, timer,
                     connected, cbs, raw>>
  BY DEF DelCtx
<1>2. /\ "del" \in Places \ {"yield", "app"} /\ "close_f" \in Places \ {"yield", "woke", "app"}
      /\ "del" \notin WaitPlaces \cup {"app", "add", "yield", "woke"}
  BY DEF Places, WaitPlaces
<1>3. ~timer[f] /\ call[f].fd \in Fds /\ call[f].op # "sleep"
  BY <1>1, <1>2, AtFacts DEF CallRec
<1>4. TableOK'
  BY <1>1, <1>3, SetterTyped
<1>5. KernOK' /\ raw' \subseteq Fds /\ timer' \in [Fibers -> BOOLEAN]
  BY <1>1 DEF KernOK, RestOK
<1> QED BY <1>1, <1>2, <1>3, <1>4, <1>5, GotoStep

\* close_f: other calls on the handle are marked, and go on.
LEMMA CloseStep ==
    ASSUME HookInv, NEW f \in Fibers, CloseF(f)
    PROVE  HookInv'
<1> USE DEF HookInv, Typed
<1> DEFINE fd == call[f].fd
<1>1. /\ At(f, "close_f") /\ Goto(f, "app")
      /\ kern' = [kern EXCEPT ![fd] = Closed] /\ raw' \subseteq raw \cup {fd}
      /\ call' = [g \in Fibers |-> IF g = f THEN NoCall
                                   ELSE IF InCall(g) /\ call[g].fd = fd
                                   THEN [call[g] EXCEPT !.lost = TRUE] ELSE call[g]]
      /\ UNCHANGED <<table, config, s_connect_timeout, waiter, st, woken, left, timer,
                     connected, cbs>>
  BY DEF CloseF
<1>2. "close_f" \in Places /\ "close_f" \notin {"app", "add", "yield", "woke"} /\ "app" \in Places
  BY DEF Places
<1>3. st[f] = "run" /\ pc[f] = "close_f" /\ ~timer[f] /\ fd \in Fds
  BY <1>1, <1>2, AtFacts DEF CallRec
<1>4. /\ pc' \in [Fibers -> Places] /\ pc'[f] = "app" /\ \A g \in Fibers \ {f} : pc'[g] = pc[g]
  BY <1>1, <1>2 DEF Goto, ControlOK
<1>5. call'[f] = NoCall
  BY <1>1
<1>6. ASSUME NEW g \in Fibers \ {f}
      PROVE  /\ call'[g] \in CallRec \cup {NoCall} /\ (InCall(g)' <=> InCall(g))
             /\ InCall(g) => /\ call'[g].op = call[g].op /\ call'[g].fd = call[g].fd
                             /\ call'[g].ev = call[g].ev /\ call'[g].timed = call[g].timed
  <2>1. CASE ~InCall(g)
    BY <1>1, <2>1 DEF InCall
  <2>2. CASE InCall(g)
    <3>1. call[g] \in CallRec /\ call[g].op # "none"
      BY <2>2 DEF InCall, ControlOK, CallRec, WaitOps, IoOps
    <3> DEFINE l == [call[g] EXCEPT !.lost = TRUE]
    <3>2. /\ l \in CallRec /\ l.op = call[g].op /\ l.fd = call[g].fd /\ l.ev = call[g].ev
          /\ l.timed = call[g].timed
      BY <3>1 DEF CallRec
    <3>3. l # NoCall
      BY <3>1, <3>2 DEF NoCall
    <3>4. call'[g] = l \/ call'[g] = call[g]
      BY <1>1
    <3> HIDE DEF l
    <3> QED BY <2>2, <3>1, <3>2, <3>3, <3>4 DEF InCall
  <2> QED BY <2>1, <2>2
<1>7. call' \in [Fibers -> CallRec \cup {NoCall}]
  <2>1. \A g \in Fibers : call'[g] \in CallRec \cup {NoCall}
    BY <1>5, <1>6
  <2>2. call' = [g \in Fibers |-> call'[g]]
    BY <1>1
  <2> QED BY <2>1, <2>2
<1>8. ControlOK'
  BY <1>1, <1>4, <1>5, <1>6, <1>7 DEF ControlOK, InCall
<1>9. KernOK'
  BY <1>1, <1>3 DEF KernOK, KernRec, Closed
<1>10. Typed'
  BY <1>1, <1>3, <1>8, <1>9 DEF TableOK, TableTypeOK, ThreadsOK, RestOK, config, table
<1>11. WaitInv'
  BY <1>1, <1>3, <1>4, <1>5, <1>6, SimpleMove DEF InCall
<1> QED BY <1>10, <1>11

\* close() wakes whoever waits on the handle.
LEMMA CancelAllStep ==
    ASSUME HookInv, NEW f \in Fibers, CancelAll(f)
    PROVE  HookInv'
<1> USE DEF HookInv, Typed
<1> DEFINE fd == call[f].fd
<1>1. /\ At(f, "cancelAll") /\ cancelEvent(fd, Events) /\ Goto(f, "del")
      /\ UNCHANGED <<table, config, s_connect_timeout, call, left, timer, connected, cbs, raw>>
  BY DEF CancelAll
<1>2. "cancelAll" \in Places \ {"app"} /\ "del" \in Places \ {"app"}
  BY DEF Places
<1>3. pc[f] = "cancelAll" /\ fd \in Fds
  BY <1>1, <1>2, AtFacts DEF CallRec
<1>4. PICK es \in SUBSET Waited(fd) :
            \/ kern[fd].watched /\ trigger(fd, es)
            \/ es = {} /\ UNCHANGED <<waiter, kern, st, woken>>
  BY <1>1, <1>3, CancelCases
<1>5. KernOK' /\ ThreadsOK'
  BY <1>3, <1>4, CancelTyped
<1>6. ControlOK'
  BY <1>1, <1>2, <1>3, GotoControl
<1>7. Typed'
  BY <1>1, <1>5, <1>6 DEF TableOK, TableTypeOK, RestOK, config, table
<1>8. pc'[f] = "del" /\ \A g \in Fibers \ {f} : pc'[g] = pc[g]
  BY <1>1 DEF Goto, ControlOK
<1>9. WaitInv'
  <2> DEFINE M == {f}
  <2>1. /\ M \in SUBSET Fibers /\ \A g \in M : pc[g] = "cancelAll" /\ pc'[g] = "del"
        /\ \A g \in Fibers \ M : pc'[g] = pc[g]
    BY <1>3, <1>8
  <2> HIDE DEF M, fd
  <2> QED BY <1>1, <1>3, <1>4, <2>1, TriggerWakes
<1> QED BY <1>7, <1>9

\* A fiber starts a call.
LEMMA BeginStep ==
    ASSUME HookInv, NEW f \in Fibers, NEW c \in Calls, Begin(f, c)
    PROVE  HookInv'
<1> USE DEF HookInv, Typed
<1> DEFINE r == [op |-> c.op, fd |-> c.fd, ev |-> c.ev, timed |-> Timed(c), lost |-> FALSE]
<1>1. /\ At(f, "app") /\ left[f] > 0 /\ c.op \notin SetOps
      /\ left' = [left EXCEPT ![f] = @ - 1] /\ call' = [call EXCEPT ![f] = r]
      /\ Goto(f, Entry(f, c)) /\ connected' = [connected EXCEPT ![f] = FALSE]
      /\ UNCHANGED <<table, config, s_connect_timeout, kern, waiter, st, woken, timer, cbs, raw>>
  BY DEF Begin
<1>2. "app" \in Places
  BY DEF Places
<1>3. st[f] = "run" /\ pc[f] = "app" /\ ~timer[f]
  BY <1>1, <1>2, AtFacts
<1>4. /\ c.fd \in Fds /\ c.ev \in Events
      /\ c.op \in WaitOps \cup {"sleep", "socket", "close"}
  BY <1>1, CallsAreCalls DEF CallType, Ops
<1>5. Timed(c) \in BOOLEAN
  <2>1. get(c.fd) # NoCtx => get(c.fd) \in FdCtxs
    BY <1>4 DEF get, TableOK, TableTypeOK
  <2>2. get(c.fd) # NoCtx => get(c.fd).timed[c.ev] \in BOOLEAN
    BY <1>4, <2>1 DEF FdCtxs
  <2>3. s_connect_timeout \in BOOLEAN
    BY DEF RestOK
  <2>4. CASE c.op = "connect"
    BY <2>3, <2>4 DEF Timed
  <2>5. CASE c.op = "sleep"
    BY <2>5 DEF Timed
  <2>6. CASE c.op \in IoOps
    <3>1. c.op # "connect" /\ c.op # "sleep"
      BY <2>6 DEF IoOps
    <3>2. Timed(c) = (get(c.fd) # NoCtx /\ get(c.fd).timed[c.ev])
      BY <2>6, <3>1 DEF Timed
    <3> QED BY <3>2, <2>2
  <2>7. CASE c.op \in {"socket", "close"}
    <3>1. c.op # "connect" /\ c.op # "sleep" /\ c.op \notin IoOps
      BY <2>7 DEF IoOps
    <3> QED BY <3>1 DEF Timed
  <2> QED BY <1>4, <2>4, <2>5, <2>6, <2>7 DEF WaitOps
<1>6. r \in CallRec /\ r # NoCall /\ r.op = c.op /\ r.timed = Timed(c)
  BY <1>4, <1>5 DEF CallRec, NoCall, WaitOps, IoOps
<1>7. /\ Entry(f, c) \in Places \ {"app", "yield", "woke"}
      /\ c.op = "sleep" => Entry(f, c) \in WaitPlaces /\ Timed(c)
  <2>1. CASE c.op = "sleep"
    <3>1. Entry(f, c) \in {"done", "arm"}
      BY <2>1 DEF Entry
    <3>2. Timed(c)
      BY <2>1 DEF Timed, IoOps
    <3> QED BY <3>1, <3>2 DEF Places, WaitPlaces
  <2>2. CASE c.op = "socket" \/ c.op = "close"
    BY <2>2 DEF Entry, Places
  <2>3. CASE c.op \in WaitOps
    <3>1. c.op # "sleep" /\ c.op # "socket" /\ c.op # "close"
      BY <2>3 DEF WaitOps, IoOps
    <3>2. Entry(f, c) \in {"ebadf", "try", "direct"}
      BY <3>1 DEF Entry
    <3> QED BY <3>1, <3>2 DEF Places
  <2> QED BY <1>4, <2>1, <2>2, <2>3
<1> HIDE DEF r
<1>8. /\ call' \in [Fibers -> CallRec \cup {NoCall}] /\ call'[f] = r
      /\ \A g \in Fibers \ {f} : call'[g] = call[g]
  BY <1>1, <1>6 DEF ControlOK
<1>9. /\ pc' \in [Fibers -> Places] /\ pc'[f] = Entry(f, c)
      /\ \A g \in Fibers \ {f} : pc'[g] = pc[g]
  BY <1>1, <1>7 DEF Goto, ControlOK
<1>10. connected' \in [Fibers -> BOOLEAN]
  BY <1>1 DEF ControlOK
<1>11. ControlOK'
  BY <1>6, <1>7, <1>8, <1>9, <1>10 DEF ControlOK, InCall
<1>12. left' \in [Fibers -> Nat] /\ \A g \in Fibers \ {f} : left'[g] = left[g]
  BY <1>1 DEF RestOK
<1>13. Typed'
  BY <1>1, <1>11, <1>12 DEF KernOK, TableOK, TableTypeOK, ThreadsOK, RestOK, config, table
<1>14. \A g \in Fibers \ {f} : InCall(g)' <=> InCall(g)
  BY <1>8 DEF InCall
<1>15. WaitInv'
  BY <1>1, <1>3, <1>6, <1>7, <1>8, <1>9, <1>12, <1>14, SimpleMove
<1> QED BY <1>13, <1>15

\* fcntl, ioctl and setsockopt.
LEMMA SetStep ==
    ASSUME HookInv, NEW f \in Fibers, NEW c \in Calls, Set(f, c)
    PROVE  HookInv'
<1> USE DEF HookInv, Typed
<1>1. /\ At(f, "app") /\ left[f] > 0 /\ kern[c.fd].open
      /\ left' = [left EXCEPT ![f] = @ - 1]
      /\ UNCHANGED <<config, s_connect_timeout, waiter, pc, st, woken, call, timer, connected, cbs>>
  BY DEF Set
<1>2. "app" \in Places
  BY DEF Places
<1>3. st[f] = "run" /\ pc[f] = "app" /\ ~timer[f] /\ ~InCall(f)
  BY <1>1, <1>2, AtFacts DEF ControlOK
<1>4. c.fd \in Fds /\ c.ev \in Events /\ c.on \in BOOLEAN
  BY CallsAreCalls DEF CallType
<1>5. get(c.fd) # NoCtx => /\ m_datas[c.fd] = get(c.fd) /\ m_datas[c.fd] # NoCtx
                           /\ get(c.fd).sysNonblock \in BOOLEAN
  <2>1. get(c.fd) # NoCtx => m_datas[c.fd] = get(c.fd) /\ m_datas[c.fd] # NoCtx
    BY DEF get
  <2>2. m_datas[c.fd] # NoCtx => m_datas[c.fd] \in FdCtxs
    BY <1>4 DEF TableOK, TableTypeOK
  <2> QED BY <2>1, <2>2 DEF FdCtxs
<1>6. /\ raw' \subseteq raw \cup {c.fd}
      /\ UNCHANGED kern \/ \E v \in BOOLEAN : kern' = [kern EXCEPT ![c.fd].nonblock = v]
      /\ \/ m_datas[c.fd] # NoCtx /\ \E v \in BOOLEAN : setUserNonblock(c.fd, v)
         \/ m_datas[c.fd] # NoCtx /\ \E e \in Events : setTimeout(c.fd, e)
         \/ UNCHANGED table
  BY <1>4, <1>5 DEF Set, fcntlMode
<1>7. TableOK'
  BY <1>4, <1>6, SetterTyped
<1>8. KernOK'
  <2>1. CASE UNCHANGED kern
    BY <2>1 DEF KernOK
  <2>2. ASSUME NEW v \in BOOLEAN, kern' = [kern EXCEPT ![c.fd].nonblock = v] PROVE KernOK'
    BY <1>1, <1>4, <2>2 DEF KernOK, KernRec
  <2> QED BY <1>6, <2>1, <2>2
<1>9. left' \in [Fibers -> Nat] /\ \A g \in Fibers \ {f} : left'[g] = left[g]
  BY <1>1 DEF RestOK
<1>10. ControlOK'
  BY <1>1 DEF ControlOK, InCall
<1>11. Typed'
  BY <1>1, <1>4, <1>6, <1>7, <1>8, <1>9, <1>10 DEF ThreadsOK, RestOK, config
<1>12. \A g \in Fibers : InCall(g)' <=> InCall(g)
  BY <1>1 DEF InCall
<1>13. WaitInv'
  BY <1>1, <1>3, <1>9, <1>12, SimpleMove
<1> QED BY <1>11, <1>13

\* A fiber gets a thread, or ends.
LEMMA ThreadStep ==
    ASSUME HookInv, NEW f \in Fibers, Resume(f) \/ Exit(f)
    PROVE  HookInv'
<1> USE DEF HookInv, Typed
<1>1. /\ \/ st[f] = "ready" /\ st' = [st EXCEPT ![f] = "run"]
         \/ st[f] = "run" /\ pc[f] = "app" /\ st' = [st EXCEPT ![f] = "end"]
      /\ UNCHANGED <<table, config, s_connect_timeout, kern, waiter, pc, woken, call, left,
                     timer, connected, cbs, raw>>
  BY DEF Resume, Exit, At
<1>2. \/ st[f] = "ready" /\ st'[f] = "run" /\ pc[f] # "yield"
      \/ st[f] = "run" /\ st'[f] = "end" /\ pc[f] = "app"
  BY <1>1 DEF ThreadsOK, WaitInv, Local
<1>3. \A g \in Fibers \ {f} : st'[g] = st[g]
  BY <1>1 DEF ThreadsOK
<1>4. Typed'
  BY <1>1 DEF KernOK, TableOK, TableTypeOK, ControlOK, InCall, ThreadsOK, RestOK, config, table
<1>5. \A g \in Fibers : InCall(g)' <=> InCall(g)
  BY <1>1 DEF InCall
<1>6. ~Waiting(f) /\ ~Waiting(f)'
  BY <1>1, <1>2 DEF Waiting
<1>7. Local(f)'
  BY <1>1, <1>2, <1>5 DEF WaitInv, Local
<1>8. timer'[f] => TimerHeld(f)'
  BY <1>1, <1>5, <1>6 DEF WaitInv, TimerHeld
<1>9. WaitInv'
  BY <1>1, <1>3, <1>5, <1>6, <1>7, <1>8, FiberMoves
<1> QED BY <1>4, <1>9

(***************************************************************************)
(* The steps of the manager and of the environment                         *)
(***************************************************************************)

\* What is ready is triggered.
LEMMA PollStep ==
    ASSUME HookInv, NEW fd \in Fds, Poll(fd)
    PROVE  HookInv'
<1> USE DEF HookInv, Typed
<1>1. PICK es \in SUBSET Waited(fd) : trigger(fd, es)
  BY DEF Poll
<1>2. /\ kern[fd].watched
      /\ UNCHANGED <<table, config, s_connect_timeout, pc, call, left, timer, connected, cbs, raw>>
  BY DEF Poll
<1>3. KernOK' /\ ThreadsOK'
  BY <1>1, <1>2, CancelTyped
<1>4. Typed'
  BY <1>2, <1>3 DEF TableOK, TableTypeOK, ControlOK, InCall, RestOK, config, table
<1>5. WaitInv'
  <2> DEFINE M == {}
  <2>1. /\ M \in SUBSET Fibers /\ \A g \in M : pc[g] = "cancelAll" /\ pc'[g] = "del"
        /\ \A g \in Fibers \ M : pc'[g] = pc[g]
    BY <1>2
  <2> HIDE DEF M
  <2> QED BY <1>1, <1>2, <2>1, TriggerWakes
<1> QED BY <1>4, <1>5

\* A timer becomes a callback: of a sleep, the one thing that will wake the sleeper.
LEMMA ExpireStep ==
    ASSUME HookInv, NEW f \in Fibers, Expire(f)
    PROVE  HookInv'
<1> USE DEF HookInv, Typed
<1> DEFINE n == [of |-> f, id |-> left[f], op |-> call[f].op, fd |-> call[f].fd,
                 ev |-> call[f].ev, stage |-> "due"]
<1>1. /\ timer[f] /\ timer' = [timer EXCEPT ![f] = FALSE] /\ cbs' = cbs \cup {n}
      /\ UNCHANGED <<table, config, s_connect_timeout, kern, waiter, pc, st, woken, call, left,
                     connected, raw>>
  BY DEF Expire
<1>2. TimerHeld(f)
  BY <1>1 DEF WaitInv
<1>3. InCall(f) /\ call[f] \in CallRec /\ left[f] \in Nat
  BY <1>2 DEF TimerHeld, InCall, ControlOK, RestOK
<1>4. n \in CbRec
  BY <1>3 DEF CbRec, CallRec
<1>5. /\ n.of = f /\ n.id = left[f] /\ n.op = call[f].op /\ n.fd = call[f].fd
      /\ n.ev = call[f].ev /\ n.stage = "due"
  OBVIOUS
<1> HIDE DEF n
<1>6. timer' \in [Fibers -> BOOLEAN] /\ ~timer'[f] /\ \A g \in Fibers \ {f} : timer'[g] = timer[g]
  BY <1>1 DEF RestOK
<1>7. Typed'
  <2>1. RestOK'
    BY <1>1, <1>4, <1>6 DEF RestOK, config
  <2> QED BY <1>1, <2>1 DEF KernOK, TableOK, TableTypeOK, ControlOK, InCall, ThreadsOK, table
<1>8. \A g \in Fibers : /\ InCall(g)' <=> InCall(g)
                        /\ Waiting(g)' <=> Waiting(g)
                        /\ Local(g)' <=> Local(g)
  BY <1>1 DEF InCall, Waiting, Local
<1>9. ASSUME NEW g \in Fibers, Waiting(g)'
      PROVE  Awaited(g)'
  <2>1. Awaited(g)
    BY <1>8, <1>9 DEF WaitInv
  <2>2. CASE call[g].op # "sleep"
    BY <1>1, <2>1, <2>2 DEF Awaited
  <2>3. CASE call[g].op = "sleep" /\ g = f
    <3>1. n \in cbs' /\ n.op = "sleep"
      BY <1>1, <1>5, <2>3
    <3> QED BY <1>1, <1>5, <2>3, <3>1 DEF Awaited
  <2>4. CASE call[g].op = "sleep" /\ g # f
    BY <1>1, <1>6, <2>1, <2>4 DEF Awaited
  <2> QED BY <2>2, <2>3, <2>4
<1>10. ASSUME NEW c \in cbs', c.op = "sleep"
       PROVE  SleepCb(c)'
  <2>1. CASE c \in cbs
    <3>1. SleepCb(c) /\ c.of \in Fibers \ {f}
      BY <1>1, <1>10, <2>1 DEF WaitInv, SleepCb, RestOK, CbRec
    <3> QED BY <1>1, <1>6, <1>8, <3>1 DEF SleepCb
  <2>2. CASE c = n
    <3>1. call[f].op = "sleep" /\ Waiting(f)'
      BY <1>2, <1>5, <1>8, <1>10, <2>2 DEF TimerHeld
    <3> QED BY <1>1, <1>5, <1>6, <2>2, <3>1 DEF SleepCb
  <2> QED BY <1>1, <2>1, <2>2
<1>11. ASSUME NEW fd \in Fds, NEW e \in Events, waiter'[fd][e] # NoFiber
       PROVE  Registered(waiter[fd][e], fd, e)'
  <2>1. Registered(waiter[fd][e], fd, e) /\ waiter[fd][e] \in Fibers
    BY <1>1, <1>11 DEF WaitInv, ThreadsOK
  <2> QED BY <1>1, <1>8, <2>1 DEF Registered
<1>12. \A g \in Fibers : timer'[g] => TimerHeld(g)'
  BY <1>1, <1>6, <1>8 DEF WaitInv, TimerHeld
<1>13. WaitInv'
  BY <1>8, <1>9, <1>10, <1>11, <1>12 DEF WaitInv
<1> QED BY <1>7, <1>13

\* The callback of a sleep wakes its fiber, which no other callback will.
LEMMA SleepCallbackStep ==
    ASSUME HookInv, NEW c \in cbs, c.op = "sleep", RunCallback(c)
    PROVE  HookInv'
<1> USE DEF HookInv, Typed
<1> DEFINE f == c.of
<1>1. /\ Wake({f}) /\ cbs' = cbs \ {c}
      /\ UNCHANGED <<table, config, s_connect_timeout, kern, waiter, pc, call, left, timer,
                     connected, raw>>
  BY DEF RunCallback
<1>2. SleepCb(c) /\ c \in CbRec /\ f \in Fibers
  BY DEF WaitInv, RestOK, CbRec
<1>3. /\ Waiting(f) /\ ~timer[f] /\ call[f].op = "sleep" /\ InCall(f) /\ ~woken[f]
      /\ (pc[f] = "yield" /\ st[f] = "run") \/ (pc[f] = "woke" /\ st[f] = "hold")
  BY <1>2 DEF SleepCb, Waiting
<1> HIDE DEF f
<1>4. /\ \A g \in Fibers \ {f} : st'[g] = st[g] /\ woken'[g] = woken[g]
      /\ \/ st[f] = "hold" /\ st'[f] = "ready" /\ pc[f] = "woke" /\ ~woken'[f]
         \/ st[f] = "run" /\ st'[f] = "run" /\ pc[f] = "yield" /\ woken'[f]
      /\ st' \in [Fibers -> {"ready", "run", "hold", "end"}]
      /\ woken' \in [Fibers -> BOOLEAN]
  <2>1. /\ st' = [g \in Fibers |-> IF g \in {f} /\ st[g] = "hold" THEN "ready" ELSE st[g]]
        /\ woken' = [g \in Fibers |-> woken[g] \/ (g \in {f} /\ st[g] # "hold")]
    BY <1>1 DEF Wake
  <2>2. \A g \in Fibers \ {f} : st'[g] = st[g] /\ woken'[g] = woken[g]
    BY <2>1 DEF ThreadsOK
  <2>3. st'[f] = (IF st[f] = "hold" THEN "ready" ELSE st[f]) /\ woken'[f] = (st[f] # "hold")
    BY <1>2, <1>3, <2>1 DEF f
  <2>4. /\ st' \in [Fibers -> {"ready", "run", "hold", "end"}]
        /\ woken' \in [Fibers -> BOOLEAN]
    BY <2>1 DEF ThreadsOK
  <2> QED BY <1>3, <2>2, <2>3, <2>4
<1>5. Typed'
  <2>1. cbs' \subseteq CbRec
    BY <1>1 DEF RestOK
  <2> QED BY <1>1, <1>4, <2>1
          DEF KernOK, TableOK, TableTypeOK, ControlOK, InCall, ThreadsOK, RestOK, config, table
<1>6. \A g \in Fibers : InCall(g)' <=> InCall(g)
  BY <1>1 DEF InCall
<1>7. ~Waiting(f)' /\ \A g \in Fibers \ {f} : Waiting(g)' <=> Waiting(g)
  BY <1>1, <1>4, <1>6 DEF Waiting
<1>8. \A g \in Fibers : Local(g)'
  BY <1>1, <1>4, <1>6 DEF WaitInv, Local
<1>9. ASSUME NEW g \in Fibers, Waiting(g)'
      PROVE  Awaited(g)'
  <2>1. g # f /\ Awaited(g)
    BY <1>7, <1>9 DEF WaitInv
  <2>2. CASE call[g].op # "sleep"
    BY <1>1, <2>1, <2>2 DEF Awaited
  <2>3. CASE call[g].op = "sleep" /\ timer[g]
    BY <1>1, <2>3 DEF Awaited
  <2>4. CASE call[g].op = "sleep" /\ ~timer[g]
    <3>1. PICK d \in cbs : d.of = g /\ d.id = left[g] /\ d.stage = "due" /\ d.op = "sleep"
      BY <2>1, <2>4 DEF Awaited
    <3>2. d # c
      BY <2>1, <3>1 DEF f
    <3>3. d \in cbs'
      BY <1>1, <3>2
    <3> QED BY <1>1, <2>4, <3>1, <3>3 DEF Awaited
  <2> QED BY <2>2, <2>3, <2>4
<1>10. ASSUME NEW fd \in Fds, NEW e \in Events, waiter'[fd][e] # NoFiber
       PROVE  Registered(waiter[fd][e], fd, e)'
  <2>1. Registered(waiter[fd][e], fd, e) /\ waiter[fd][e] \in Fibers \ {f}
    BY <1>1, <1>3, <1>10 DEF WaitInv, Registered, ThreadsOK
  <2> QED BY <1>1, <1>7, <2>1 DEF Registered
<1>11. ASSUME NEW d \in cbs', d.op = "sleep"
       PROVE  SleepCb(d)'
  <2>1. d \in cbs /\ d # c /\ d \in CbRec /\ SleepCb(d)
    BY <1>1, <1>11 DEF WaitInv, RestOK
  <2>2. d.of # f
    <3> SUFFICES ASSUME d.of = f PROVE FALSE
      OBVIOUS
    <3>1. /\ d.of = c.of /\ d.id = c.id /\ d.op = c.op /\ d.fd = c.fd /\ d.ev = c.ev
          /\ d.stage = c.stage
      BY <1>2, <1>11, <2>1 DEF SleepCb, f
    <3>2. d = c
      BY <1>2, <2>1, <3>1 DEF CbRec
    <3> QED BY <2>1, <3>2
  <2>3. d.of \in Fibers
    BY <2>1 DEF CbRec
  <2> QED BY <1>1, <1>7, <2>1, <2>2, <2>3 DEF SleepCb
<1>12. \A g \in Fibers : timer'[g] => TimerHeld(g)'
  <2>1. ~timer'[f]
    BY <1>1, <1>3
  <2>2. \A g \in Fibers \ {f} : timer'[g] => TimerHeld(g)'
    BY <1>1, <1>6, <1>7 DEF WaitInv, TimerHeld
  <2> QED BY <2>1, <2>2
<1>13. WaitInv'
  BY <1>8, <1>9, <1>10, <1>11, <1>12 DEF WaitInv
<1> QED BY <1>5, <1>13

\* The callback of a timeout marks its call, and then cancels the event.
LEMMA TimeoutStep ==
    ASSUME HookInv, NEW c \in cbs, (RunCallback(c) /\ c.op # "sleep") \/ CallbackCancel(c)
    PROVE  HookInv'
<1> USE DEF HookInv, Typed
<1> DEFINE fd == c.fd
<1>1. c \in CbRec /\ fd \in Fds /\ c.ev \in Events
  BY DEF RestOK, CbRec
<1>2. c.op # "sleep"
  BY DEF CallbackCancel, WaitInv, SleepCb
<1>3. /\ UNCHANGED <<table, config, s_connect_timeout, pc, call, left, timer, connected, raw>>
      /\ \/ cbs' = cbs \ {c}
         \/ cbs' = (cbs \ {c}) \cup {[c EXCEPT !.stage = "cancel"]}
  BY DEF RunCallback, Mark, CallbackCancel
<1>4. PICK es \in SUBSET Waited(fd) :
            \/ kern[fd].watched /\ trigger(fd, es)
            \/ es = {} /\ UNCHANGED <<waiter, kern, st, woken>>
  <2>1. CASE CallbackCancel(c)
    BY <1>1, <2>1, CancelCases DEF CallbackCancel
  <2>2. CASE RunCallback(c)
    <3>1. UNCHANGED <<waiter, kern, st, woken>>
      BY <1>2, <2>2 DEF RunCallback
    <3>2. {} \in SUBSET Waited(fd)
      OBVIOUS
    <3> QED BY <3>1, <3>2
  <2> QED BY <2>1, <2>2
<1>5. KernOK' /\ ThreadsOK'
  BY <1>1, <1>4, CancelTyped
<1> DEFINE d == [c EXCEPT !.stage = "cancel"]
<1>6. d \in CbRec /\ d.op = c.op
  BY <1>1 DEF CbRec
<1> HIDE DEF d
<1>7. cbs' \subseteq CbRec
  BY <1>3, <1>6 DEF RestOK, d
<1>8. Typed'
  BY <1>3, <1>5, <1>7 DEF TableOK, TableTypeOK, ControlOK, InCall, RestOK, config, table
<1>9. /\ \A b \in cbs' : b.op = "sleep" => b \in cbs
      /\ \A b \in cbs : b.op = "sleep" => b \in cbs'
  BY <1>2, <1>3, <1>6 DEF d
<1>10. WaitInv'
  <2> DEFINE M == {}
  <2>1. /\ M \in SUBSET Fibers /\ \A g \in M : pc[g] = "cancelAll" /\ pc'[g] = "del"
        /\ \A g \in Fibers \ M : pc'[g] = pc[g]
    BY <1>3
  <2> HIDE DEF M, fd
  <2> QED BY <1>1, <1>3, <1>4, <1>9, <2>1, TriggerWakes
<1> QED BY <1>8, <1>10

\* The peers change the kernel's sockets alone, the configuration the timeout.
LEMMA EnvironmentStep ==
    ASSUME HookInv, Environment \/ UNCHANGED vars
    PROVE  HookInv'
<1> USE DEF HookInv, Typed
<1>1. UNCHANGED <<table, config, waiter, pc, st, woken, call, left, timer, connected, cbs, raw>>
  BY DEF Environment, Arrive, ConnectEnds, ConnectTimeoutChanged, vars, fiber
<1>2. s_connect_timeout' \in BOOLEAN
  BY DEF Environment, Arrive, ConnectEnds, ConnectTimeoutChanged, vars, RestOK
<1>3. KernOK'
  <2>1. CASE UNCHANGED kern
    BY <2>1 DEF KernOK
  <2>2. ASSUME NEW fd \in Fds, NEW e \in Events, Arrive(fd, e) PROVE KernOK'
    <3>1. kern[fd].open /\ kern' = [kern EXCEPT ![fd].ready = @ \cup {e}]
      BY <2>2 DEF Arrive
    <3> QED BY <3>1 DEF KernOK, KernRec
  <2>3. ASSUME NEW fd \in Fds, NEW how \in {"yes", "failed"}, ConnectEnds(fd, how) PROVE KernOK'
    <3>1. /\ kern[fd].open
          /\ kern' = [kern EXCEPT ![fd].conn = how, ![fd].ready = @ \cup {"WRITE"}]
      BY <2>3 DEF ConnectEnds
    <3> DEFINE k == [[kern[fd] EXCEPT !.conn = how] EXCEPT !.ready = @ \cup {"WRITE"}]
    <3>2. [kern[fd] EXCEPT !.conn = how] \in KernRec
      BY DEF KernOK, KernRec
    <3>3. [kern[fd] EXCEPT !.conn = how].open
      BY <3>1 DEF KernOK, KernRec
    <3>4. k \in KernRec /\ k.open
      <4> DEFINE j == [kern[fd] EXCEPT !.conn = how]
      <4>1. j \in KernRec /\ j.open
        BY <3>2, <3>3
      <4> HIDE DEF j
      <4>2. [j EXCEPT !.ready = @ \cup {"WRITE"}] \in KernRec /\ [j EXCEPT !.ready = @ \cup {"WRITE"}].open
        BY <4>1 DEF KernRec, Events
      <4> QED BY <4>2 DEF j
    <3>5. kern' = [kern EXCEPT ![fd] = k]
      BY <3>1 DEF KernOK
    <3> HIDE DEF k
    <3> QED BY <3>4, <3>5 DEF KernOK
  <2> QED BY <2>1, <2>2, <2>3 DEF Environment, ConnectTimeoutChanged, vars
<1>4. Typed'
  BY <1>1, <1>2, <1>3 DEF TableOK, TableTypeOK, ControlOK, InCall, ThreadsOK, RestOK, config, table
<1>5. WaitInv'
  BY <1>1 DEF WaitInv, Local, Waiting, Awaited, Registered, SleepCb, TimerHeld, InCall
<1> QED BY <1>4, <1>5

(***************************************************************************)
(* Theorems                                                                *)
(***************************************************************************)

\* It holds at the start.
LEMMA HookStart ==
    ASSUME RoomAtStart, Init
    PROVE  HookInv
<1>1. TableOK
  <2>1. FdCtx(TRUE) \in FdCtxs
    BY DEF FdCtx, FdCtxs
  <2>2. m_datas \in [Fds -> FdCtxs \cup {NoCtx}]
    BY <2>1 DEF Init
  <2>3. \A fd \in Fds : m_datas[fd] # NoCtx => fd < size
    BY DEF Init, RoomAtStart
  <2> QED BY <2>2, <2>3, InitialSizeAssumption DEF Init, RoomAtStart, TableOK, TableTypeOK
<1>2. KernOK
  <2>1. Managed \in KernRec /\ Managed.open /\ Closed \in KernRec
    BY DEF Managed, Fresh, Closed, KernRec
  <2> QED BY <2>1 DEF Init, KernOK
<1>3. ControlOK
  BY DEF Init, ControlOK, InCall, Places
<1>4. ThreadsOK
  BY DEF Init, ThreadsOK
<1>5. RestOK
  BY PoolsArePools, BoundedCalls DEF Init, RestOK, PoolType
<1>6. WaitInv
  BY <1>3 DEF Init, WaitInv, Local, Waiting, InCall
<1> QED BY <1>1, <1>2, <1>3, <1>4, <1>5, <1>6 DEF HookInv, Typed

\* Every step keeps it.
LEMMA HookStep ==
    HookInv /\ [Next]_vars => HookInv'
<1> SUFFICES ASSUME HookInv, [Next]_vars PROVE HookInv'
  OBVIOUS
<1>1. ASSUME NEW f \in Fibers, NEW c \in Calls, Begin(f, c) \/ Set(f, c) PROVE HookInv'
  BY <1>1, BeginStep, SetStep
<1>2. ASSUME NEW f \in Fibers, Resume(f) \/ FiberStep(f) PROVE HookInv'
  BY <1>2, ThreadStep, ImmediateStep, TryStep, ArmStep, AddEventStep, YieldStep, WokeStep,
     SocketStep, CreateStep, CancelAllStep, DelStep, CloseStep DEF FiberStep
<1>3. CASE ManagerStep
  BY <1>3, PollStep, ExpireStep, SleepCallbackStep, TimeoutStep DEF ManagerStep
<1>4. CASE Environment \/ UNCHANGED vars
  BY <1>4, EnvironmentStep
<1> QED BY <1>1, <1>2, <1>3, <1>4 DEF Next

\* The state of the hooks is well-formed, for every table with room at the start: growing
\* to 1.5 times a handle always makes a slot for it, and a closed handle keeps nothing.
THEOREM HookTypeCorrect ==
    ASSUME RoomAtStart
    PROVE  Spec => []TypeOK
<1>1. Init => HookInv
  BY HookStart
<1>2. HookInv => TypeOK
  BY TypedIsTypeOK DEF HookInv
<1> QED BY <1>1, <1>2, HookStep, PTL DEF Spec

\* No hooked call loses its wake-up, on any number of threads: who has yielded is
\* registered for its event or has its sleep timer to come, and whoever is registered
\* waits. cancelAll, timeouts and events may cross in any order.
THEOREM HookNoLostWaiter ==
    ASSUME RoomAtStart
    PROVE  Spec => []NoLostWaiter
<1>1. Init => HookInv
  BY HookStart
<1>2. HookInv => NoLostWaiter
  <2> SUFFICES ASSUME HookInv PROVE NoLostWaiter
    OBVIOUS
  <2>1. ASSUME NEW f \in Fibers, st[f] = "hold" PROVE Awaited(f)
    <3>1. pc[f] = "woke" /\ ~woken[f] /\ InCall(f)
      BY <2>1 DEF HookInv, WaitInv, Local, Typed, ControlOK
    <3> QED BY <2>1, <3>1 DEF HookInv, WaitInv, Waiting
  <2>2. \A fd \in Fds, e \in Events : waiter[fd][e] # NoFiber => Registered(waiter[fd][e], fd, e)
    BY DEF HookInv, WaitInv
  <2> QED BY <2>1, <2>2 DEF NoLostWaiter, Awaited, Registered, Waiting
<1> QED BY <1>1, <1>2, HookStep, PTL DEF Spec

\* On every way out of do_io, connect_with_timeout and sleep the timer of the call is gone.
THEOREM HookNoStaleTimer ==
    ASSUME RoomAtStart
    PROVE  Spec => []NoStaleTimer
<1>1. Init => HookInv
  BY HookStart
<1>2. HookInv => NoStaleTimer
  BY DEF HookInv, WaitInv, TimerHeld, NoStaleTimer
<1> QED BY <1>1, <1>2, HookStep, PTL DEF Spec

(***************************************************************************)
(* The blocking mode of a socket                                           *)
(***************************************************************************)

\* A context of a socket says nonblocking, and the kernel agrees.
ModeKept(fd) ==
    m_datas[fd] # NoCtx /\ m_datas[fd].isSocket =>
        /\ m_datas[fd].sysNonblock
        /\ kern[fd].open /\ fd \notin raw => kern[fd].nonblock

ModeInv == \A fd \in Fds : ModeKept(fd)

\* The steps that change the mode of a socket, or which handles are open.
Configures(f) == SocketF(f) \/ CreateCtx(f) \/ CloseF(f) \/ \E c \in Calls : Set(f, c)

\* What one field of a socket's state means for the others.
LEMMA OneField ==
    ASSUME KernOK, NEW fd \in Fds, NEW x, NEW y,
           \/ UNCHANGED kern
           \/ kern' = [kern EXCEPT ![fd].ready = x]
           \/ kern' = [kern EXCEPT ![fd].conn = x]
           \/ kern' = [kern EXCEPT ![fd].conn = x, ![fd].ready = y]
           \/ kern' = [kern EXCEPT ![fd].watched = x]
    PROVE  /\ \A g \in Fds : kern'[g].open = kern[g].open /\ kern'[g].nonblock = kern[g].nonblock
           /\ \A g \in Fds : \/ kern'[g].watched = kern[g].watched
                             \/ g = fd /\ kern' = [kern EXCEPT ![fd].watched = x]
<1>1. \A g \in Fds : kern[g] \in KernRec
  BY DEF KernOK
<1>2. CASE UNCHANGED kern
  BY <1>2
<1>3. CASE kern' = [kern EXCEPT ![fd].ready = x]
  BY <1>1, <1>3 DEF KernOK, KernRec
<1>4. CASE kern' = [kern EXCEPT ![fd].conn = x]
  BY <1>1, <1>4 DEF KernOK, KernRec
<1>5. CASE kern' = [kern EXCEPT ![fd].conn = x, ![fd].ready = y]
  BY <1>1, <1>5 DEF KernOK, KernRec
<1>6. CASE kern' = [kern EXCEPT ![fd].watched = x]
  BY <1>1, <1>6 DEF KernOK, KernRec
<1> QED BY <1>2, <1>3, <1>4, <1>5, <1>6

\* No other step changes the mode.
LEMMA ModeQuiet ==
    ASSUME HookInv, [Next]_vars, \A f \in Fibers : ~Configures(f)
    PROVE  /\ UNCHANGED <<raw, outside>>
           /\ \A fd \in Fds : /\ kern'[fd].open = kern[fd].open
                              /\ kern'[fd].nonblock = kern[fd].nonblock
                              /\ m_datas'[fd] \in {m_datas[fd], NoCtx}
<1> USE DEF HookInv, Typed
<1>1. ASSUME NEW f \in Fibers, NEW c \in Calls, Begin(f, c) PROVE UNCHANGED <<table, kern, raw, outside>>
  BY <1>1 DEF Begin
<1>2. ASSUME NEW f \in Fibers,
             \/ Resume(f) \/ Immediate(f) \/ ArmTimer(f) \/ Yield(f) \/ Woke(f) \/ CheckConnect(f)
             \/ Exit(f) \/ Expire(f)
      PROVE  UNCHANGED <<table, kern, raw, outside>>
  BY <1>2 DEF Resume, Immediate, ArmTimer, Yield, Woke, CheckConnect, Exit, Expire
<1>3. ASSUME NEW f \in Fibers, DelCtx(f)
      PROVE  /\ UNCHANGED <<kern, raw, outside>>
             /\ \A fd \in Fds : m_datas'[fd] \in {m_datas[fd], NoCtx}
  BY <1>3 DEF DelCtx, del, TableOK, TableTypeOK
<1> DEFINE Other(fd, x, y) ==
        /\ UNCHANGED <<table, raw, outside>>
        /\ \/ UNCHANGED kern
           \/ kern' = [kern EXCEPT ![fd].ready = x]
           \/ kern' = [kern EXCEPT ![fd].conn = x]
           \/ kern' = [kern EXCEPT ![fd].conn = x, ![fd].ready = y]
           \/ kern' = [kern EXCEPT ![fd].watched = x]
           SomeField == \E fd \in Fds : \E x, y : Other(fd, x, y)
<1>4. ASSUME NEW f \in Fibers, Try(f) \/ addEvent(f) \/ CancelAll(f) PROVE SomeField
  <2>1. call[f].fd \in Fds
    <3>1. PICK loc \in {"try", "direct", "add", "cancelAll"} : At(f, loc)
      BY <1>4 DEF Try, addEvent, CancelAll
    <3>2. loc \in Places \ {"app"}
      BY DEF Places
    <3> QED BY <3>1, <3>2, AtFacts DEF CallRec
  <2>2. CASE Try(f)
    <3>1. \/ UNCHANGED kern
          \/ kern' = [kern EXCEPT ![call[f].fd].ready = kern[call[f].fd].ready \ {call[f].ev}]
          \/ kern' = [kern EXCEPT ![call[f].fd].conn = "yes"]
          \/ kern' = [kern EXCEPT ![call[f].fd].conn = "going", ![call[f].fd].ready = {}]
      BY <2>2 DEF Try
    <3>2. UNCHANGED <<table, raw, outside>>
      BY <2>2 DEF Try
    <3> QED BY <2>1, <3>1, <3>2
  <2>3. CASE addEvent(f)
    <3>1. UNCHANGED kern \/ kern' = [kern EXCEPT ![call[f].fd].watched = TRUE]
      BY <2>3 DEF addEvent
    <3>2. UNCHANGED <<table, raw, outside>>
      BY <2>3 DEF addEvent
    <3> QED BY <2>1, <3>1, <3>2
  <2>4. CASE CancelAll(f)
    <3>1. UNCHANGED <<table, raw, outside>> /\ cancelEvent(call[f].fd, Events)
      BY <2>4 DEF CancelAll
    <3>2. UNCHANGED kern \/ \E x : kern' = [kern EXCEPT ![call[f].fd].watched = x]
      BY <3>1 DEF cancelEvent, trigger
    <3> QED BY <2>1, <3>1, <3>2
  <2> QED BY <1>4, <2>2, <2>3, <2>4
<1>5. ASSUME NEW fd \in Fds, Poll(fd) PROVE SomeField
  <2>1. UNCHANGED <<table, raw, outside>> /\ \E x : kern' = [kern EXCEPT ![fd].watched = x]
    BY <1>5 DEF Poll, trigger
  <2> QED BY <2>1
<1>6. ASSUME NEW c \in cbs, RunCallback(c) PROVE UNCHANGED <<table, kern, raw, outside>>
  BY <1>6 DEF RunCallback
<1>7. ASSUME NEW c \in cbs, CallbackCancel(c) PROVE SomeField
  <2>1. UNCHANGED <<table, raw, outside>> /\ cancelEvent(c.fd, {c.ev}) /\ c.fd \in Fds
    BY <1>7 DEF CallbackCancel, RestOK, CbRec
  <2>2. UNCHANGED kern \/ \E x : kern' = [kern EXCEPT ![c.fd].watched = x]
    BY <2>1 DEF cancelEvent, trigger
  <2> QED BY <2>1, <2>2
<1>8. ASSUME NEW fd \in Fds, NEW e \in Events, Arrive(fd, e) PROVE SomeField
  <2>1. UNCHANGED <<table, raw, outside>> /\ kern' = [kern EXCEPT ![fd].ready = kern[fd].ready \cup {e}]
    BY <1>8 DEF Arrive
  <2> QED BY <2>1
<1>9. ASSUME NEW fd \in Fds, NEW how, ConnectEnds(fd, how) PROVE SomeField
  <2>1. /\ UNCHANGED <<table, raw, outside>>
        /\ kern' = [kern EXCEPT ![fd].conn = how, ![fd].ready = kern[fd].ready \cup {"WRITE"}]
    BY <1>9 DEF ConnectEnds, KernOK, KernRec
  <2> QED BY <2>1
<1>10. CASE ConnectTimeoutChanged \/ UNCHANGED vars
  BY <1>10 DEF ConnectTimeoutChanged, vars, table
<1>11. CASE SomeField
  <2>1. PICK fd \in Fds : \E x, y : Other(fd, x, y)
    BY <1>11
  <2>2. PICK x, y : Other(fd, x, y)
    BY <2>1
  <2> QED BY <2>2, OneField DEF table
<1> HIDE DEF SomeField
<1>12. CASE UNCHANGED <<table, kern, raw, outside>>
  BY <1>12 DEF table
<1> QED
  BY <1>1, <1>2, <1>3, <1>4, <1>5, <1>6, <1>7, <1>8, <1>9, <1>10, <1>11, <1>12
     DEF Next, FiberStep, ManagerStep, Environment, Configures

\* Creating, configuring and closing a handle keep the kernel and the context agreed.
LEMMA ModeStep ==
    ASSUME HookInv, ModeInv, [Next]_vars
    PROVE  ModeInv'
<1> USE DEF HookInv, Typed
<1>1. ASSUME NEW f \in Fibers, SocketF(f) PROVE ModeInv'
  <2>1. CASE UNCHANGED <<kern, raw>>
    BY <1>1, <2>1 DEF SocketF, ModeInv, ModeKept, table
  <2>2. ASSUME NEW fd \in Fds, kern' = [kern EXCEPT ![fd] = Fresh],
               raw' = IF Found(fd) THEN raw \cup {fd} ELSE raw
        PROVE  ModeInv'
    <3>1. m_datas' = m_datas /\ raw \subseteq raw' /\ (m_datas[fd] # NoCtx => fd \in raw')
      BY <1>1, <2>2 DEF SocketF, table, Found, get, TableOK, TableTypeOK
    <3>2. \A g \in Fds \ {fd} : kern'[g] = kern[g]
      BY <2>2 DEF KernOK
    <3> QED BY <3>1, <3>2 DEF ModeInv, ModeKept
  <2> QED BY <1>1, <2>1, <2>2 DEF SocketF
<1>2. ASSUME NEW f \in Fibers, CreateCtx(f) PROVE ModeInv'
  <2> DEFINE fd == call[f].fd
  <2>1. /\ Create(fd, kern[fd].open) /\ At(f, "create") /\ UNCHANGED raw
        /\ kern' = [kern EXCEPT ![fd].nonblock = kern[fd].open]
    BY <1>2 DEF CreateCtx
  <2>2. "create" \in Places /\ "create" # "app"
    BY DEF Places
  <2>3. fd \in Fds
    BY <2>1, <2>2, AtFacts DEF CallRec
  <2> HIDE DEF fd
  <2>4. m_datas' = [m_datas EXCEPT ![fd] = FdCtx(kern[fd].open)]
    BY <2>1 DEF Create
  <2>5. \A g \in Fds \ {fd} : kern'[g] = kern[g] /\ m_datas'[g] = m_datas[g]
    BY <2>1, <2>4 DEF KernOK, TableOK, TableTypeOK
  <2>6. /\ kern'[fd].open = kern[fd].open /\ kern'[fd].nonblock = kern[fd].open
        /\ m_datas'[fd] = FdCtx(kern[fd].open)
    BY <2>1, <2>3, <2>4 DEF KernOK, KernRec, TableOK, TableTypeOK
  <2> QED BY <2>1, <2>5, <2>6 DEF ModeInv, ModeKept, FdCtx
<1>3. ASSUME NEW f \in Fibers, CloseF(f) PROVE ModeInv'
  <2>1. kern' = [kern EXCEPT ![call[f].fd] = Closed] /\ UNCHANGED <<table, raw>>
    BY <1>3 DEF CloseF
  <2> QED BY <2>1 DEF ModeInv, ModeKept, KernOK, Closed, table
<1>4. ASSUME NEW f \in Fibers, NEW c \in Calls, Set(f, c) PROVE ModeInv'
  <2> DEFINE fd == c.fd
  <2>1. fd \in Fds /\ kern[fd].open
    BY <1>4, CallsAreCalls DEF CallType, Set
  <2>2. get(fd) = m_datas[fd]
    BY <2>1, FdsAreHandles DEF get, TableOK, TableTypeOK
  <2>3. m_datas[fd] # NoCtx => m_datas[fd] \in FdCtxs
    BY <2>1 DEF TableOK, TableTypeOK
  <2> HIDE DEF fd
  <2>4. \A v : m_datas[fd] # NoCtx /\ setUserNonblock(fd, v) =>
            /\ m_datas'[fd] # NoCtx => m_datas[fd] # NoCtx
            /\ m_datas'[fd].isSocket = m_datas[fd].isSocket
            /\ m_datas'[fd].sysNonblock = m_datas[fd].sysNonblock
            /\ \A g \in Fds \ {fd} : m_datas'[g] = m_datas[g]
    BY <2>1, <2>3 DEF setUserNonblock, FdCtxs, TableOK, TableTypeOK
  <2>5. \A v : kern' = [kern EXCEPT ![fd].nonblock = v] =>
            kern'[fd].nonblock = v /\ \A g \in Fds \ {fd} : kern'[g] = kern[g]
    BY <2>1 DEF KernOK, KernRec
  <2>6. CASE /\ c.op = "fcntl" /\ m_datas[fd] # NoCtx /\ m_datas[fd].isSocket
             /\ setUserNonblock(fd, c.on) /\ UNCHANGED raw
             /\ kern' = [kern EXCEPT ![fd].nonblock = m_datas[fd].sysNonblock]
    BY <2>4, <2>5, <2>6 DEF ModeInv, ModeKept
  <2>7. CASE /\ c.op = "ioctl" /\ m_datas[fd] # NoCtx /\ m_datas[fd].isSocket
             /\ setUserNonblock(fd, c.on) /\ raw' = (IF c.on THEN raw ELSE raw \cup {fd})
             /\ kern' = [kern EXCEPT ![fd].nonblock = c.on]
    <3>1. raw \subseteq raw' /\ (~c.on => fd \in raw')
      BY <2>7
    <3> QED BY <2>1, <2>4, <2>5, <2>7, <3>1 DEF ModeInv, ModeKept
  <2>8. CASE /\ m_datas[fd] # NoCtx => ~m_datas[fd].isSocket
             /\ kern' = [kern EXCEPT ![fd].nonblock = c.on] /\ UNCHANGED <<table, raw>>
    BY <2>5, <2>8 DEF ModeInv, ModeKept, table
  <2>9. CASE m_datas[fd] # NoCtx /\ setTimeout(fd, c.ev) /\ UNCHANGED <<kern, raw>>
    <3>1. /\ m_datas'[fd].isSocket = m_datas[fd].isSocket
          /\ m_datas'[fd].sysNonblock = m_datas[fd].sysNonblock
          /\ \A g \in Fds \ {fd} : m_datas'[g] = m_datas[g]
      BY <2>1, <2>3, <2>9 DEF setTimeout, FdCtxs, TableOK, TableTypeOK
    <3> QED BY <2>9, <3>1 DEF ModeInv, ModeKept
  <2>10. CASE UNCHANGED <<table, kern, raw>>
    BY <2>10 DEF ModeInv, ModeKept, table
  <2> QED BY <1>4, <2>2, <2>6, <2>7, <2>8, <2>9, <2>10 DEF Set, fcntlMode, fd
<1>5. CASE \A f \in Fibers : ~Configures(f)
  <2>1. /\ UNCHANGED raw
        /\ \A fd \in Fds : /\ kern'[fd].open = kern[fd].open
                           /\ kern'[fd].nonblock = kern[fd].nonblock
                           /\ m_datas'[fd] \in {m_datas[fd], NoCtx}
    BY <1>5, ModeQuiet
  <2> QED BY <2>1 DEF ModeInv, ModeKept
<1> QED BY <1>1, <1>2, <1>3, <1>4, <1>5 DEF Configures

\* No hooked call blocks its thread: the kernel's socket is nonblocking whenever its context
\* says the handle is a socket, whatever fcntl and setsockopt calls, closes, reopenings and
\* growths of the table came before; only ioctl and a leftover context are excepted.
THEOREM HookNonblockKept ==
    ASSUME RoomAtStart
    PROVE  Spec => []NonblockKept
<1>1. Init => HookInv /\ ModeInv
  <2> SUFFICES ASSUME Init, NEW fd \in Fds PROVE ModeKept(fd)
    BY HookStart DEF ModeInv
  <2>1. Managed.nonblock /\ FdCtx(TRUE).sysNonblock
    BY DEF FdCtx, Managed, Fresh, Closed
  <2>2. CASE fd \in InitialOpen
    <3>1. m_datas[fd] = FdCtx(TRUE) /\ kern[fd] = Managed
      BY <2>2 DEF Init
    <3> QED BY <2>1, <3>1 DEF ModeKept
  <2>3. CASE fd \notin InitialOpen
    <3>1. m_datas[fd] = NoCtx
      BY <2>3 DEF Init
    <3> QED BY <3>1 DEF ModeKept
  <2> QED BY <2>2, <2>3
<1>2. HookInv /\ ModeInv /\ [Next]_vars => HookInv' /\ ModeInv'
  BY HookStep, ModeStep
<1>3. ModeInv => NonblockKept
  BY DEF ModeInv, ModeKept, NonblockKept
<1> QED BY <1>1, <1>2, <1>3, PTL DEF Spec

(***************************************************************************)
(* One thread: no event outlives its handle                                *)
(***************************************************************************)

\* A fiber that occupies a thread of the IOManager.
Runs(f) == t_hook_enable[f] /\ st[f] = "run"

\* The thread is taken by one fiber, or by one callback that is about to cancel.
OneThread ==
    /\ \A f, g \in Fibers : Runs(f) /\ Runs(g) => f = g
    /\ \A f \in Fibers, c \in cbs : ~(Runs(f) /\ c.stage = "cancel")
    /\ \A c, d \in cbs : c.stage = "cancel" /\ d.stage = "cancel" => c = d

\* Where a fiber on a thread without hook can be.
OutsidePlaces == {"app", "done", "socket", "create", "direct", "close_f"}

\* A fiber that is inside a call and does not wait has its thread.
Placed(f) ==
    /\ pc[f] \notin {"app", "woke"} => st[f] = "run"
    /\ ~t_hook_enable[f] => pc[f] \in OutsidePlaces

\* An open handle has its context, or its opener or closer is on the thread.
HasCtx(fd) ==
    kern[fd].open /\ m_datas[fd] = NoCtx /\ fd \notin outside =>
        \E f \in Fibers : t_hook_enable[f] /\ pc[f] \in {"create", "close_f"} /\ call[f].fd = fd

\* After cancelAll nobody waits on the handle.
Emptied(f) ==
    t_hook_enable[f] /\ pc[f] \in {"del", "close_f"} =>
        Waited(call[f].fd) = {} \/ call[f].fd \in outside

\* What is waited for is watched.
Watched(fd) == Waited(fd) # {} => kern[fd].watched \/ fd \in outside

CloseInv ==
    /\ \A fd \in Fds : HasCtx(fd) /\ Watched(fd)
    /\ \A f \in Fibers : Emptied(f)

OrphanInv ==
    /\ HookInv /\ IsFiniteSet(cbs)
    /\ \A f \in Fibers : Placed(f)
    /\ m_threadCount = 1 => OneThread /\ CloseInv

\* The only thread is free when no fiber and no callback is on it.
LEMMA OnlyThread ==
    ASSUME IsFiniteSet(cbs), m_threadCount = 1, FreeThread
    PROVE  (\A f \in Fibers : ~Runs(f)) /\ (\A c \in cbs : c.stage # "cancel")
<1> DEFINE A == {f \in Fibers : t_hook_enable[f] /\ st[f] = "run"}
           B == {c \in cbs : c.stage = "cancel"}
<1>1. A \in SUBSET Fibers /\ B \in SUBSET cbs
  OBVIOUS
<1>2. IsFiniteSet(A) /\ IsFiniteSet(B)
  BY <1>1, FiniteFibers, FS_Subset
<1>3. Cardinality(A) + Cardinality(B) < 1
  BY DEF FreeThread
<1>4. A = {} /\ B = {}
  <2> HIDE DEF A, B
  <2>1. Cardinality(A) \in Nat /\ Cardinality(B) \in Nat
    BY <1>2, FS_CardinalityType
  <2>2. Cardinality(A) = 0 /\ Cardinality(B) = 0
    BY <1>3, <2>1
  <2> QED BY <1>2, <2>2, FS_EmptySet
<1> QED BY <1>4 DEF Runs

\* Every step leaves the thread to the one that has it, or gives it to somebody when it is free.
LEMMA OneThreadStep ==
    ASSUME OrphanInv, m_threadCount = 1, [Next]_vars
    PROVE  OneThread' /\ UNCHANGED config
<1> USE DEF OrphanInv, HookInv, Typed
<1> DEFINE Shrinks == /\ UNCHANGED config
                      /\ \A g \in Fibers : st'[g] = "run" => st[g] = "run"
                      /\ \A c \in cbs' : c.stage = "cancel" => c \in cbs
<1>1. ASSUME Shrinks PROVE OneThread' /\ UNCHANGED config
  <2>1. /\ \A g \in Fibers : Runs(g)' => Runs(g)
        /\ \A c \in cbs' : c.stage = "cancel" => c \in cbs
    BY <1>1 DEF Runs, config
  <2> QED BY <1>1, <2>1 DEF OneThread
<1>2. ASSUME NEW S, Wake(S) PROVE \A g \in Fibers : st'[g] = "run" => st[g] = "run"
  BY <1>2 DEF Wake
<1>3. ASSUME NEW fd, NEW es, cancelEvent(fd, es) \/ trigger(fd, es)
      PROVE  \A g \in Fibers : st'[g] = "run" => st[g] = "run"
  BY <1>2, <1>3 DEF cancelEvent, trigger
<1>4. ASSUME NEW f \in Fibers, NEW c \in Calls, Begin(f, c) \/ Set(f, c) PROVE Shrinks
  BY <1>4 DEF Begin, Set
<1>5. ASSUME NEW f \in Fibers,
             \/ Immediate(f) \/ Try(f) \/ ArmTimer(f) \/ addEvent(f) \/ Woke(f) \/ CheckConnect(f)
             \/ SocketF(f) \/ CreateCtx(f) \/ DelCtx(f) \/ CloseF(f)
      PROVE  UNCHANGED <<st, cbs, config>>
  BY <1>5 DEF Immediate, Try, ArmTimer, addEvent, Woke, CheckConnect, SocketF, CreateCtx, DelCtx,
              CloseF
<1>6. ASSUME NEW f \in Fibers, Yield(f) \/ Exit(f) PROVE Shrinks
  BY <1>6 DEF Yield, Exit, ThreadsOK
<1>7. ASSUME NEW f \in Fibers, CancelAll(f) PROVE Shrinks
  BY <1>3, <1>7 DEF CancelAll
<1>8. ASSUME NEW fd \in Fds, Poll(fd) PROVE Shrinks
  BY <1>3, <1>8 DEF Poll
<1>9. ASSUME NEW f \in Fibers, Expire(f) PROVE Shrinks
  BY <1>9 DEF Expire
<1>10. ASSUME NEW c \in cbs, CallbackCancel(c) PROVE Shrinks
  BY <1>3, <1>10 DEF CallbackCancel
<1>11. ASSUME NEW c \in cbs, RunCallback(c) PROVE OneThread' /\ UNCHANGED config
  <2>1. /\ \A g \in Fibers : ~Runs(g)
        /\ \A d \in cbs : d.stage # "cancel"
        /\ UNCHANGED config
    BY <1>11, OnlyThread DEF RunCallback
  <2>2. \A g \in Fibers : ~Runs(g)'
    BY <1>2, <1>11, <2>1 DEF RunCallback, Runs, config
  <2>3. cbs' \subseteq (cbs \ {c}) \cup {[c EXCEPT !.stage = "cancel"]}
    BY <1>11 DEF RunCallback, Mark
  <2> QED BY <2>1, <2>2, <2>3 DEF OneThread
<1>12. ASSUME NEW f \in Fibers, Resume(f) PROVE OneThread' /\ UNCHANGED config
  <2>1. /\ UNCHANGED <<config, cbs>> /\ st'[f] = "run" /\ \A g \in Fibers \ {f} : st'[g] = st[g]
        /\ ~t_hook_enable[f] \/ FreeThread
    BY <1>12 DEF Resume, ThreadsOK
  <2>2. CASE ~t_hook_enable[f]
    BY <2>1, <2>2 DEF OneThread, Runs, config
  <2>3. CASE FreeThread
    <3>1. (\A g \in Fibers : ~Runs(g)) /\ \A c \in cbs : c.stage # "cancel"
      BY <2>3, OnlyThread
    <3> QED BY <2>1, <3>1 DEF OneThread, Runs, config
  <2> QED BY <2>1, <2>2, <2>3
<1>13. CASE Environment \/ UNCHANGED vars
  BY <1>1, <1>13 DEF Environment, Arrive, ConnectEnds, ConnectTimeoutChanged, vars, fiber
<1>14. CASE UNCHANGED <<st, cbs, config>>
  BY <1>1, <1>14
<1> HIDE DEF Shrinks
<1> QED
  BY <1>1, <1>4, <1>5, <1>6, <1>7, <1>8, <1>9, <1>10, <1>11, <1>12, <1>13, <1>14
     DEF Next, FiberStep, ManagerStep

\* The callbacks stay finitely many.
LEMMA FiniteCallbacks ==
    ASSUME IsFiniteSet(cbs), [Next]_vars
    PROVE  IsFiniteSet(cbs)'
<1> DEFINE One == \E c : cbs' \in {cbs, cbs \ {c}, cbs \cup {c}}
                  Two == \E c, d : cbs' = (cbs \ {c}) \cup {d}
<1>1. ASSUME NEW f \in Fibers, NEW c \in Calls, Begin(f, c) \/ Set(f, c) PROVE One
  BY <1>1 DEF Begin, Set
<1>2. ASSUME NEW f \in Fibers, Resume(f) \/ FiberStep(f) PROVE One
  BY <1>2 DEF Resume, FiberStep, Immediate, Try, ArmTimer, addEvent, Yield, Woke, CheckConnect,
              SocketF, CreateCtx, CancelAll, DelCtx, CloseF, Exit
<1>3. ASSUME NEW fd \in Fds, Poll(fd) PROVE One
  BY <1>3 DEF Poll
<1>4. ASSUME NEW f \in Fibers, Expire(f) PROVE One
  BY <1>4 DEF Expire
<1>5. ASSUME NEW c \in cbs, RunCallback(c) \/ CallbackCancel(c) PROVE One \/ Two
  BY <1>5 DEF RunCallback, CallbackCancel, Mark
<1>6. CASE Environment \/ UNCHANGED vars
  BY <1>6 DEF Environment, Arrive, ConnectEnds, ConnectTimeoutChanged, vars
<1>7. ASSUME One PROVE IsFiniteSet(cbs)'
  BY <1>7, FS_AddElement, FS_RemoveElement
<1>8. ASSUME Two PROVE IsFiniteSet(cbs)'
  BY <1>8, FS_AddElement, FS_RemoveElement, ZenonT(60)
<1> HIDE DEF One, Two
<1> QED BY <1>1, <1>2, <1>3, <1>4, <1>5, <1>6, <1>7, <1>8 DEF Next, ManagerStep

\* A fiber moves within the call it has its thread for, or starts or ends one.
LEMMA PlacedMove ==
    ASSUME \A g \in Fibers : Placed(g), NEW f \in Fibers, st[f] = "run",
           UNCHANGED <<config, st>>, \A g \in Fibers \ {f} : pc'[g] = pc[g],
           ~t_hook_enable[f] => pc'[f] \in OutsidePlaces
    PROVE  \A g \in Fibers : Placed(g)'
BY DEF Placed, config

\* Who waits or has yielded is woken, and nobody loses the thread.
LEMMA PlacedWake ==
    ASSUME HookInv, \A g \in Fibers : Placed(g), NEW S, Wake(S), UNCHANGED <<config, pc>>
    PROVE  \A g \in Fibers : Placed(g)'
<1>1. \A g \in Fibers : st[g] = "run" => st'[g] = "run"
  BY DEF Wake
<1> QED BY <1>1 DEF Placed, config

\* Every step keeps the places of the callbacks.
LEMMA PlacedStep ==
    ASSUME OrphanInv, [Next]_vars
    PROVE  \A g \in Fibers : Placed(g)'
<1> USE DEF OrphanInv, HookInv, Typed
<1> DEFINE Moves(f) == /\ st[f] = "run" /\ UNCHANGED <<config, st>>
                       /\ \A g \in Fibers \ {f} : pc'[g] = pc[g]
                       /\ ~t_hook_enable[f] => pc'[f] \in OutsidePlaces
<1>1. ASSUME NEW f \in Fibers, NEW loc, NEW to, At(f, loc), Goto(f, to), UNCHANGED <<config, st>>,
             ~t_hook_enable[f] => to \in OutsidePlaces
      PROVE  Moves(f)
  BY <1>1 DEF At, Goto, ControlOK
<1>2. ASSUME NEW f \in Fibers, NEW loc, At(f, loc), loc \notin OutsidePlaces PROVE t_hook_enable[f]
  BY <1>2 DEF At, Placed
<1>3. ASSUME NEW f \in Fibers, NEW c \in Calls, Begin(f, c) PROVE Moves(f)
  <2>1. At(f, "app") /\ Goto(f, Entry(f, c)) /\ UNCHANGED <<config, st>> /\ c.op \notin SetOps
    BY <1>3 DEF Begin
  <2>2. ~t_hook_enable[f] => Entry(f, c) \in OutsidePlaces
    <3> SUFFICES ASSUME ~t_hook_enable[f] PROVE Entry(f, c) \in OutsidePlaces
      OBVIOUS
    <3>1. CASE c.op \in {"sleep", "socket", "close"}
      BY <3>1 DEF Entry, OutsidePlaces
    <3>2. CASE c.op \notin {"sleep", "socket", "close"}
      BY <3>2 DEF Entry, Hooked, OutsidePlaces
    <3> QED BY <3>1, <3>2
  <2> QED BY <1>1, <2>1, <2>2
<1>4. ASSUME NEW f \in Fibers, NEW c \in Calls, Set(f, c) PROVE UNCHANGED <<config, pc, st>>
  BY <1>4 DEF Set
<1>5. ASSUME NEW f \in Fibers, Immediate(f) \/ Try(f) \/ CheckConnect(f) \/ CreateCtx(f) PROVE Moves(f)
  <2>1. UNCHANGED <<config, st>>
    BY <1>5 DEF Immediate, Try, CheckConnect, CreateCtx
  <2>2. \E loc \in {"done", "ebadf", "try", "direct", "check", "create"},
            to \in {"app", "arm", "socket"} :
            At(f, loc) /\ Goto(f, to) /\ (to = "arm" => loc = "try")
    BY <1>5 DEF Immediate, Try, CheckConnect, CreateCtx, Return, At
  <2>3. "app" \in OutsidePlaces /\ "socket" \in OutsidePlaces /\ "try" \notin OutsidePlaces
    BY DEF OutsidePlaces
  <2> HIDE DEF Moves
  <2> QED BY <1>1, <1>2, <2>1, <2>2, <2>3
<1>6. ASSUME NEW f \in Fibers, ArmTimer(f) \/ addEvent(f) \/ Woke(f) \/ CancelAll(f) \/ DelCtx(f)
      PROVE  t_hook_enable[f] /\ UNCHANGED config /\ \A g \in Fibers \ {f} : pc'[g] = pc[g]
  <2>1. \E loc \in {"arm", "add", "woke", "cancelAll", "del"} : At(f, loc)
    BY <1>6 DEF ArmTimer, addEvent, Woke, CancelAll, DelCtx
  <2>2. {"arm", "add", "woke", "cancelAll", "del"} \cap OutsidePlaces = {}
    BY DEF OutsidePlaces
  <2>3. UNCHANGED config
    BY <1>6 DEF ArmTimer, addEvent, Woke, CancelAll, DelCtx
  <2>4. \A g \in Fibers \ {f} : pc'[g] = pc[g]
    <3>1. UNCHANGED pc \/ \E to : Goto(f, to)
      BY <1>6 DEF ArmTimer, addEvent, Woke, CancelAll, DelCtx, Return
    <3> QED BY <3>1 DEF Goto, ControlOK
  <2> QED BY <1>2, <2>1, <2>2, <2>3, <2>4
<1>7. ASSUME NEW f \in Fibers, ArmTimer(f) \/ addEvent(f) \/ Woke(f) \/ DelCtx(f) PROVE Moves(f)
  <2>1. st[f] = "run" /\ UNCHANGED st
    BY <1>7 DEF ArmTimer, addEvent, Woke, DelCtx, At
  <2> QED BY <1>6, <1>7, <2>1
<1>8. ASSUME NEW f \in Fibers, CancelAll(f) PROVE \A g \in Fibers : Placed(g)'
  <2>1. st[f] = "run" /\ cancelEvent(call[f].fd, Events)
    BY <1>8 DEF CancelAll, At
  <2>2. UNCHANGED st \/ \E S : Wake(S)
    BY <2>1 DEF cancelEvent, trigger
  <2>3. \A g \in Fibers : st[g] = "run" => st'[g] = "run"
    BY <2>2 DEF Wake
  <2> QED BY <1>6, <1>8, <2>1, <2>3 DEF Placed, config
<1>9. ASSUME NEW f \in Fibers, Yield(f) PROVE \A g \in Fibers : Placed(g)'
  <2>1. /\ At(f, "yield") /\ UNCHANGED config /\ pc'[f] = "woke"
        /\ \A g \in Fibers \ {f} : pc'[g] = pc[g] /\ st'[g] = st[g]
    BY <1>9 DEF Yield, Goto, ControlOK, ThreadsOK
  <2>2. "yield" \notin OutsidePlaces
    BY DEF OutsidePlaces
  <2>3. t_hook_enable[f]
    BY <1>2, <2>1, <2>2
  <2> QED BY <2>1, <2>3 DEF Placed, config
<1>10. ASSUME NEW f \in Fibers, SocketF(f) \/ CloseF(f) PROVE Moves(f)
  <2>1. UNCHANGED <<config, st>>
    BY <1>10 DEF SocketF, CloseF
  <2>2. \E loc \in {"socket", "close_f"}, to \in {"app", "create"} : At(f, loc) /\ Goto(f, to)
    BY <1>10 DEF SocketF, CloseF, Return
  <2>3. "app" \in OutsidePlaces /\ "create" \in OutsidePlaces
    BY DEF OutsidePlaces
  <2> HIDE DEF Moves
  <2> QED BY <1>1, <2>1, <2>2, <2>3
<1>11. ASSUME NEW f \in Fibers, Resume(f) \/ Exit(f) PROVE \A g \in Fibers : Placed(g)'
  <2>1. /\ UNCHANGED <<config, pc>> /\ \A g \in Fibers \ {f} : st'[g] = st[g]
        /\ st'[f] = "run" \/ pc[f] = "app"
    BY <1>11 DEF Resume, Exit, At, ThreadsOK
  <2> QED BY <2>1 DEF Placed, config
<1>12. ASSUME NEW fd \in Fds, Poll(fd) PROVE \A g \in Fibers : Placed(g)'
  BY <1>12, PlacedWake DEF Poll, trigger
<1>13. ASSUME NEW f \in Fibers, Expire(f) PROVE UNCHANGED <<config, pc, st>>
  BY <1>13 DEF Expire
<1>14. ASSUME NEW c \in cbs, RunCallback(c) \/ CallbackCancel(c) PROVE \A g \in Fibers : Placed(g)'
  <2>1. UNCHANGED <<config, pc>> /\ (UNCHANGED st \/ \E S : Wake(S))
    BY <1>14 DEF RunCallback, CallbackCancel, cancelEvent, trigger
  <2>2. CASE UNCHANGED st
    BY <2>1, <2>2 DEF Placed, config
  <2>3. CASE \E S : Wake(S)
    BY <2>1, <2>3, PlacedWake
  <2> QED BY <2>1, <2>2, <2>3
<1>15. CASE Environment \/ UNCHANGED vars
  BY <1>15 DEF Environment, Arrive, ConnectEnds, ConnectTimeoutChanged, vars, fiber, Placed, config
<1>16. CASE UNCHANGED <<config, pc, st>>
  BY <1>16 DEF Placed, config
<1>17. ASSUME NEW f \in Fibers, Moves(f) PROVE \A g \in Fibers : Placed(g)'
  BY <1>17, PlacedMove
<1> HIDE DEF Moves
<1> QED
  BY <1>3, <1>4, <1>5, <1>7, <1>8, <1>9, <1>10, <1>11, <1>12, <1>13, <1>14, <1>15, <1>16, <1>17
     DEF Next, FiberStep, ManagerStep

\* The places that the invariant speaks of.
ClosePlaces == {"create", "del", "close_f"}

\* A step that opens and closes nothing and at most takes waiters away.
LEMMA CloseQuiet ==
    ASSUME CloseInv, UNCHANGED <<config, outside>>,
           \A g \in Fibers : /\ pc'[g] \in ClosePlaces \/ pc[g] \in ClosePlaces =>
                                    pc'[g] = pc[g] /\ call'[g].fd = call[g].fd
                             /\ pc[g] \in ClosePlaces => call[g].fd \in Fds,
           \A fd \in Fds : /\ kern'[fd].open = kern[fd].open
                           /\ m_datas'[fd] = NoCtx <=> m_datas[fd] = NoCtx
                           /\ Waited(fd)' \subseteq Waited(fd)
                           /\ \/ kern'[fd].watched = kern[fd].watched
                              \/ Waited(fd)' # {} => kern'[fd].watched
    PROVE  CloseInv'
<1>1. \A fd \in Fds : HasCtx(fd)'
  BY DEF CloseInv, HasCtx, ClosePlaces, config
<1>2. \A fd \in Fds : Watched(fd)'
  BY DEF CloseInv, Watched
<1>3. \A g \in Fibers : Emptied(g)'
  BY DEF CloseInv, Emptied, ClosePlaces, config
<1> QED BY <1>1, <1>2, <1>3 DEF CloseInv

\* trigger leaves the handle watched for the waiters that remain.
LEMMA TriggerWatched ==
    ASSUME Typed, NEW fd \in Fds, NEW es \in SUBSET Events, trigger(fd, es)
    PROVE  /\ Waited(fd)' = Waited(fd) \ es
           /\ kern'[fd].watched = (Waited(fd)' # {})
           /\ \A g \in Fds : kern'[g].open = kern[g].open
           /\ \A g \in Fds \ {fd} : Waited(g)' = Waited(g) /\ kern'[g].watched = kern[g].watched
<1> USE DEF Typed
<1>1. /\ waiter' = [waiter EXCEPT ![fd] = [e \in Events |-> IF e \in es THEN NoFiber ELSE @[e]]]
      /\ kern' = [kern EXCEPT ![fd].watched = Waited(fd) \ es # {}]
  BY DEF trigger
<1>2. Waited(fd)' = Waited(fd) \ es
  BY <1>1 DEF Waited, ThreadsOK
<1>3. \A g \in Fds \ {fd} : Waited(g)' = Waited(g)
  BY <1>1 DEF Waited, ThreadsOK
<1>4. kern'[fd].watched = (Waited(fd) \ es # {}) /\ kern'[fd].open = kern[fd].open
  BY <1>1 DEF KernOK, KernRec
<1>5. \A g \in Fds \ {fd} : kern'[g] = kern[g]
  BY <1>1 DEF KernOK
<1> QED BY <1>2, <1>3, <1>4, <1>5

\* The steps that leave handles and waiters alone.
LEMMA CloseQuietStep ==
    ASSUME OrphanInv, CloseInv,
           \/ \E f \in Fibers, c \in Calls : Set(f, c)
           \/ \E f \in Fibers : Resume(f) \/ Immediate(f) \/ Try(f) \/ ArmTimer(f) \/ Yield(f)
                                \/ Woke(f) \/ CheckConnect(f) \/ Exit(f) \/ Expire(f)
           \/ \E c \in cbs : RunCallback(c)
           \/ Environment \/ UNCHANGED vars
    PROVE  CloseInv'
<1> USE DEF OrphanInv, HookInv, Typed
<1> DEFINE Still == \A g \in Fibers : /\ pc'[g] \in ClosePlaces \/ pc[g] \in ClosePlaces =>
                                            pc'[g] = pc[g] /\ call'[g].fd = call[g].fd
                                      /\ pc[g] \in ClosePlaces => call[g].fd \in Fds
           Kept == \A fd \in Fds : kern'[fd].open = kern[fd].open /\ kern'[fd].watched = kern[fd].watched
<1>1. \A g \in Fibers : pc[g] \in ClosePlaces => call[g].fd \in Fds
  <2>1. "app" \notin ClosePlaces
    BY DEF ClosePlaces
  <2> QED BY <2>1, CallFields
<1>2. ASSUME UNCHANGED <<pc, call>> PROVE Still
  BY <1>1, <1>2
<1>3. ASSUME NEW f \in Fibers, pc[f] \notin ClosePlaces, pc'[f] \notin ClosePlaces,
             \A g \in Fibers \ {f} : pc'[g] = pc[g] /\ call'[g] = call[g]
      PROVE  Still
  BY <1>1, <1>3
<1>4. ASSUME UNCHANGED <<config, outside, waiter, m_datas>>, Still, Kept PROVE CloseInv'
  <2>1. \A fd \in Fds : Waited(fd)' = Waited(fd)
    BY <1>4 DEF Waited
  <2> QED BY <1>4, <2>1, CloseQuiet
<1>5. ASSUME NEW f \in Fibers, NEW c \in Calls, Set(f, c) PROVE CloseInv'
  <2>1. c.fd \in Fds /\ UNCHANGED <<config, outside, waiter, pc, call>>
    BY <1>5, CallsAreCalls DEF CallType, Set
  <2>2. UNCHANGED kern \/ \E v : kern' = [kern EXCEPT ![c.fd].nonblock = v]
    BY <1>5 DEF Set
  <2>3. Kept
    <3>1. kern[c.fd] \in KernRec
      BY <2>1 DEF KernOK
    <3>2. \A v : /\ [kern[c.fd] EXCEPT !.nonblock = v].open = kern[c.fd].open
                /\ [kern[c.fd] EXCEPT !.nonblock = v].watched = kern[c.fd].watched
      BY <3>1 DEF KernRec
    <3>3. CASE UNCHANGED kern
      BY <3>3
    <3>4. ASSUME NEW v, kern' = [kern EXCEPT ![c.fd].nonblock = v] PROVE Kept
      <4>1. kern'[c.fd] = [kern[c.fd] EXCEPT !.nonblock = v] /\ \A g \in Fds \ {c.fd} : kern'[g] = kern[g]
        BY <2>1, <3>4 DEF KernOK
      <4> QED BY <3>2, <4>1, ZenonT(60)
    <3> QED BY <2>2, <3>3, <3>4
  <2>4. \/ m_datas[c.fd] # NoCtx /\ \E v \in BOOLEAN : setUserNonblock(c.fd, v)
        \/ m_datas[c.fd] # NoCtx /\ \E e \in Events : setTimeout(c.fd, e)
        \/ UNCHANGED table
    BY <1>5, CallsAreCalls DEF Set, CallType, get
  <2>5. \A fd \in Fds : m_datas'[fd] = NoCtx <=> m_datas[fd] = NoCtx
    <3>1. m_datas[c.fd] # NoCtx => m_datas[c.fd] \in FdCtxs
      BY <2>1 DEF TableOK, TableTypeOK
    <3>2. ASSUME NEW v \in BOOLEAN, m_datas[c.fd] # NoCtx PROVE [m_datas[c.fd] EXCEPT !.userNonblock = v] # NoCtx
      BY <3>1, <3>2, NullsAreNot DEF FdCtxs
    <3>3. ASSUME NEW e \in Events, m_datas[c.fd] # NoCtx PROVE [m_datas[c.fd] EXCEPT !.timed[e] = TRUE] # NoCtx
      <4>1. [m_datas[c.fd] EXCEPT !.timed[e] = TRUE] \in FdCtxs
        BY <3>1, <3>3 DEF FdCtxs
      <4> QED BY <4>1, NullsAreNot
    <3> QED BY <2>1, <2>4, <3>2, <3>3 DEF setUserNonblock, setTimeout, table, TableOK, TableTypeOK
  <2>6. \A fd \in Fds : Waited(fd)' = Waited(fd)
    BY <2>1 DEF Waited
  <2> QED BY <1>2, <2>1, <2>3, <2>5, <2>6, CloseQuiet
<1>6. ASSUME NEW f \in Fibers, Resume(f) \/ Exit(f) \/ Expire(f) PROVE CloseInv'
  BY <1>2, <1>4, <1>6 DEF Resume, Exit, Expire, table
<1>7. ASSUME NEW c \in cbs, RunCallback(c) PROVE CloseInv'
  BY <1>2, <1>4, <1>7 DEF RunCallback, table
<1>8. ASSUME NEW f \in Fibers, NEW loc, NEW to, At(f, loc), Goto(f, to), loc \notin ClosePlaces,
             to \notin ClosePlaces, UNCHANGED call \/ call' = [call EXCEPT ![f] = NoCall]
      PROVE  Still
  <2>1. pc[f] = loc /\ pc'[f] = to /\ \A g \in Fibers \ {f} : pc'[g] = pc[g] /\ call'[g] = call[g]
    BY <1>8 DEF At, Goto, ControlOK
  <2> QED BY <1>3, <1>8, <2>1
<1>9. ASSUME NEW f \in Fibers,
             Immediate(f) \/ Try(f) \/ ArmTimer(f) \/ Yield(f) \/ Woke(f) \/ CheckConnect(f)
      PROVE  Still
  <2> HIDE DEF Still
  <2>1. \E loc \in {"done", "ebadf", "try", "direct", "arm", "yield", "woke", "check"},
            to \in {"app", "arm", "socket", "yield", "add", "woke", "check", "try"} :
            At(f, loc) /\ Goto(f, to)
    BY <1>9 DEF Immediate, Try, ArmTimer, Yield, Woke, CheckConnect, Return
  <2>2. UNCHANGED call \/ call' = [call EXCEPT ![f] = NoCall]
    BY <1>9 DEF Immediate, Try, ArmTimer, Yield, Woke, CheckConnect, Return, Stay
  <2>3. \A loc \in {"done", "ebadf", "try", "direct", "arm", "yield", "woke", "check", "app",
                    "socket", "add"} : loc \notin ClosePlaces
    BY DEF ClosePlaces
  <2> QED BY <1>8, <2>1, <2>2, <2>3
<1>10. ASSUME NEW f \in Fibers, Immediate(f) \/ ArmTimer(f) \/ Yield(f) \/ Woke(f) \/ CheckConnect(f)
       PROVE  CloseInv'
  <2>1. UNCHANGED <<config, outside, waiter, m_datas, kern>>
    BY <1>10 DEF Immediate, ArmTimer, Yield, Woke, CheckConnect, table
  <2> QED BY <1>4, <1>9, <1>10, <2>1
<1>11. ASSUME NEW f \in Fibers, Try(f) PROVE CloseInv'
  <2>1. UNCHANGED <<config, outside, waiter, m_datas>>
    BY <1>11 DEF Try, table
  <2>2. call[f].fd \in Fds
    <3>1. pc[f] # "app"
      BY <1>11 DEF Try, At
    <3> QED BY <3>1, CallFields
  <2>3. \/ UNCHANGED kern
        \/ kern' = [kern EXCEPT ![call[f].fd].ready = kern[call[f].fd].ready \ {call[f].ev}]
        \/ kern' = [kern EXCEPT ![call[f].fd].conn = "yes"]
        \/ kern' = [kern EXCEPT ![call[f].fd].conn = "going", ![call[f].fd].ready = {}]
    BY <1>11 DEF Try
  <2>4. Kept
    BY <2>2, <2>3 DEF KernOK, KernRec
  <2> QED BY <1>4, <1>9, <1>11, <2>1, <2>4
<1>12. CASE Environment \/ UNCHANGED vars
  <2>1. UNCHANGED <<config, outside, waiter, m_datas, pc, call>>
    BY <1>12 DEF Environment, Arrive, ConnectEnds, ConnectTimeoutChanged, vars, fiber, table
  <2>2. Kept
    <3>1. CASE UNCHANGED kern
      BY <3>1
    <3>2. ASSUME NEW fd \in Fds, NEW e \in Events, Arrive(fd, e) PROVE Kept
      BY <3>2 DEF Arrive, KernOK, KernRec
    <3>3. ASSUME NEW fd \in Fds, NEW how, ConnectEnds(fd, how) PROVE Kept
      BY <3>3 DEF ConnectEnds, KernOK, KernRec
    <3> QED BY <1>12, <3>1, <3>2, <3>3 DEF Environment, ConnectTimeoutChanged, vars
  <2> QED BY <1>2, <1>4, <2>1, <2>2
<1> QED BY <1>5, <1>6, <1>7, <1>10, <1>11, <1>12

\* An event is triggered, by epoll or by a timeout.
LEMMA CloseTriggerStep ==
    ASSUME OrphanInv, CloseInv,
           (\E fd \in Fds : Poll(fd)) \/ (\E c \in cbs : CallbackCancel(c))
    PROVE  CloseInv'
<1> USE DEF OrphanInv, HookInv, Typed
<1>1. UNCHANGED <<config, outside, m_datas, pc, call>>
  BY DEF Poll, CallbackCancel, table
<1>2. \A g \in Fibers : pc[g] \in ClosePlaces => call[g].fd \in Fds
  <2>1. "app" \notin ClosePlaces
    BY DEF ClosePlaces
  <2> QED BY <2>1, CallFields
<1>3. CASE UNCHANGED <<waiter, kern>>
  <2>1. \A fd \in Fds : Waited(fd)' = Waited(fd)
    BY <1>3 DEF Waited
  <2> QED BY <1>1, <1>2, <1>3, <2>1, CloseQuiet
<1>4. ASSUME NEW fd \in Fds, NEW es \in SUBSET Events, trigger(fd, es) PROVE CloseInv'
  BY <1>1, <1>2, <1>4, TriggerWatched, CloseQuiet
<1>5. \A fd \in Fds : Waited(fd) \subseteq Events
  BY DEF Waited
<1>6. ASSUME NEW fd \in Fds, Poll(fd) PROVE \E es \in SUBSET Events : trigger(fd, es)
  BY <1>5, <1>6 DEF Poll
<1>7. ASSUME NEW c \in cbs, CallbackCancel(c)
      PROVE  UNCHANGED <<waiter, kern>> \/ \E fd \in Fds, es \in SUBSET Events : trigger(fd, es)
  <2>1. c.fd \in Fds
    BY DEF RestOK, CbRec
  <2> QED BY <1>5, <1>7, <2>1 DEF CallbackCancel, cancelEvent
<1> QED BY <1>3, <1>4, <1>6, <1>7

\* Who runs in a call of a hooked thread is alone on the thread.
LEMMA Alone ==
    ASSUME OrphanInv, OneThread, NEW f \in Fibers, Runs(f),
           NEW g \in Fibers, t_hook_enable[g], pc[g] \in ClosePlaces
    PROVE  g = f
BY DEF OrphanInv, OneThread, Placed, Runs, ClosePlaces

\* The steps that register, open, create, delete and close.
LEMMA CloseStepInv ==
    ASSUME OrphanInv, OneThread, CloseInv, NEW f \in Fibers,
           \/ \E c \in Calls : Begin(f, c)
           \/ addEvent(f) \/ SocketF(f) \/ CreateCtx(f) \/ CancelAll(f) \/ DelCtx(f) \/ CloseF(f)
    PROVE  CloseInv'
<1> USE DEF OrphanInv, HookInv, Typed
<1>a. \A g \in Fibers : pc[g] \in ClosePlaces => call[g].fd \in Fds
  <2>1. "app" \notin ClosePlaces
    BY DEF ClosePlaces
  <2> QED BY <2>1, CallFields
<1>b. UNCHANGED config
  BY DEF Begin, addEvent, SocketF, CreateCtx, CancelAll, DelCtx, CloseF
<1>c. \A fd \in Fds : ~kern[fd].open => ~kern[fd].watched
  BY DEF KernOK, Closed
<1>d. ASSUME NEW loc, NEW to, At(f, loc), Goto(f, to)
      PROVE  st[f] = "run" /\ pc[f] = loc /\ pc'[f] = to /\ \A g \in Fibers \ {f} : pc'[g] = pc[g]
  BY <1>d DEF At, Goto, ControlOK
<1>e. ASSUME UNCHANGED waiter PROVE \A fd \in Fds : Waited(fd)' = Waited(fd)
  BY <1>e DEF Waited
<1>1. ASSUME NEW c \in Calls, Begin(f, c) PROVE CloseInv'
  <2> DEFINE to == Entry(f, c)
  <2>1. /\ At(f, "app") /\ Goto(f, to) /\ c.fd \in Fds
        /\ call' = [call EXCEPT ![f] = [op |-> c.op, fd |-> c.fd, ev |-> c.ev, timed |-> Timed(c),
                                        lost |-> FALSE]]
        /\ UNCHANGED <<m_datas, kern, waiter, outside>>
    BY <1>1, CallsAreCalls DEF Begin, CallType, table
  <2>2. st[f] = "run" /\ pc[f] = "app" /\ pc'[f] = to /\ \A g \in Fibers \ {f} : pc'[g] = pc[g]
    BY <1>d, <2>1
  <2>3. call'[f].fd = c.fd /\ \A g \in Fibers \ {f} : call'[g] = call[g]
    BY <2>1 DEF ControlOK
  <2>4. to \in {"done", "arm", "socket", "close_f", "cancelAll", "ebadf", "try", "direct"}
    BY <1>1 DEF Entry
  <2>5. to = "close_f" /\ t_hook_enable[f] => get(c.fd) = NoCtx
    BY <2>1 DEF Entry
  <2> HIDE DEF to
  <2>6. \A fd \in Fds : HasCtx(fd)'
    <3> SUFFICES ASSUME NEW fd \in Fds, kern[fd].open, m_datas[fd] = NoCtx, fd \notin outside
                 PROVE  \E g \in Fibers : t_hook_enable[g] /\ pc'[g] \in {"create", "close_f"} /\ call'[g].fd = fd
      BY <1>b, <2>1 DEF HasCtx, config
    <3>1. PICK g \in Fibers : t_hook_enable[g] /\ pc[g] \in {"create", "close_f"} /\ call[g].fd = fd
      BY DEF CloseInv, HasCtx
    <3> QED BY <2>2, <2>3, <3>1
  <2>7. \A fd \in Fds : Watched(fd)'
    BY <1>e, <2>1 DEF CloseInv, Watched
  <2>8. ASSUME t_hook_enable[f], to = "close_f"
        PROVE  Waited(c.fd) = {} \/ c.fd \in outside
    <3>1. m_datas[c.fd] = NoCtx
      BY <2>1, <2>5, <2>8, FdsAreHandles DEF get, TableOK, TableTypeOK
    <3>2. CASE kern[c.fd].open /\ c.fd \notin outside
      <4>1. PICK g \in Fibers : t_hook_enable[g] /\ pc[g] \in {"create", "close_f"}
        BY <2>1, <3>1, <3>2 DEF CloseInv, HasCtx
      <4>2. g = f
        BY <2>2, <2>8, <4>1, Alone DEF Runs, ClosePlaces
      <4> QED BY <2>2, <4>1, <4>2
    <3>3. CASE ~kern[c.fd].open
      BY <1>c, <2>1, <3>3 DEF CloseInv, Watched
    <3> QED BY <3>2, <3>3
  <2>9. \A g \in Fibers : Emptied(g)'
    <3>1. Emptied(f)'
      <4> SUFFICES ASSUME t_hook_enable[f], to = "close_f" PROVE Waited(c.fd)' = {} \/ c.fd \in outside
        BY <1>b, <2>1, <2>2, <2>3, <2>4 DEF Emptied, config
      <4> QED BY <1>e, <2>1, <2>8
    <3>2. \A g \in Fibers \ {f} : pc[g] \in {"del", "close_f"} => Waited(call[g].fd)' = Waited(call[g].fd)
      BY <1>a, <1>e, <2>1 DEF ClosePlaces
    <3>3. \A g \in Fibers \ {f} : Emptied(g)'
      BY <1>a, <1>b, <1>e, <2>1, <2>2, <2>3, <3>2 DEF CloseInv, Emptied, ClosePlaces, config
    <3> QED BY <3>1, <3>3
  <2> QED BY <2>6, <2>7, <2>9 DEF CloseInv
<1>2. CASE addEvent(f)
  <2> DEFINE fd == call[f].fd
             ev == call[f].ev
  <2>1. At(f, "add") /\ UNCHANGED <<m_datas, outside>>
    BY <1>2 DEF addEvent, table
  <2>2. pc[f] = "add" /\ st[f] = "run" /\ t_hook_enable[f]
    BY <2>1 DEF At, Placed, OutsidePlaces
  <2>3. fd \in Fds /\ ev \in Events
    BY <2>2, CallFields
  <2>4. \A g \in Fibers : t_hook_enable[g] => pc[g] \notin ClosePlaces
    BY <2>2, Alone DEF Runs, ClosePlaces
  <2>5. /\ \A g \in Fibers \ {f} : pc'[g] = pc[g]
        /\ pc'[f] \in {"add", "app", "check", "yield"}
    <3>1. UNCHANGED pc \/ Goto(f, "check") \/ Goto(f, "app") \/ Goto(f, "yield")
      BY <1>2 DEF addEvent, Return
    <3> QED BY <2>2, <3>1 DEF Goto, ControlOK
  <2>6. \A g \in Fibers : t_hook_enable[g] => pc'[g] \notin ClosePlaces
    BY <2>4, <2>5 DEF ClosePlaces
  <2>7. \/ UNCHANGED <<waiter, kern>>
        \/ /\ waiter' = [waiter EXCEPT ![fd][ev] = f]
           /\ kern' = [kern EXCEPT ![fd].watched = TRUE]
    BY <1>2 DEF addEvent
  <2> HIDE DEF fd, ev
  <2>8. /\ \A g \in Fds : kern'[g].open = kern[g].open
        /\ \A g \in Fds : kern'[g].watched \/ (Waited(g)' = Waited(g) /\ kern'[g].watched = kern[g].watched)
    <3>1. CASE UNCHANGED <<waiter, kern>>
      BY <1>e, <3>1
    <3>2. CASE /\ waiter' = [waiter EXCEPT ![fd][ev] = f]
               /\ kern' = [kern EXCEPT ![fd].watched = TRUE]
      <4>1. kern'[fd].watched /\ kern'[fd].open = kern[fd].open
        BY <2>3, <3>2 DEF KernOK, KernRec
      <4>2. \A g \in Fds \ {fd} : kern'[g] = kern[g] /\ waiter'[g] = waiter[g]
        BY <3>2 DEF KernOK, ThreadsOK
      <4> QED BY <4>1, <4>2 DEF Waited
    <3> QED BY <2>7, <3>1, <3>2
  <2>9. \A g \in Fds : HasCtx(g)'
    <3>1. \A g \in Fds : ~(kern[g].open /\ m_datas[g] = NoCtx /\ g \notin outside)
      BY <2>4 DEF CloseInv, HasCtx, ClosePlaces
    <3> QED BY <2>1, <2>8, <3>1 DEF HasCtx
  <2>10. \A g \in Fds : Watched(g)'
    BY <2>1, <2>8 DEF CloseInv, Watched
  <2>11. \A g \in Fibers : Emptied(g)'
    BY <1>b, <2>6 DEF Emptied, ClosePlaces, config
  <2> QED BY <2>9, <2>10, <2>11 DEF CloseInv
<1>3. CASE SocketF(f)
  <2>1. At(f, "socket") /\ UNCHANGED <<m_datas, waiter>>
    BY <1>3 DEF SocketF, table
  <2>2. st[f] = "run" /\ pc[f] = "socket"
    BY <2>1 DEF At
  <2>3. /\ \A g \in Fibers \ {f} : pc'[g] = pc[g] /\ call'[g] = call[g]
        /\ pc'[f] \in {"app", "create"}
    BY <1>3 DEF SocketF, Return, Goto, ControlOK
  <2>4. PICK fd \in Fds :
            \/ UNCHANGED <<kern, outside>>
            \/ /\ ~kern[fd].open /\ kern' = [kern EXCEPT ![fd] = Fresh]
               /\ outside' = IF t_hook_enable[f] THEN outside ELSE outside \cup {fd}
               /\ \/ Found(fd) \/ ~t_hook_enable[f]
                  \/ Goto(f, "create") /\ call' = [call EXCEPT ![f].fd = fd]
    <3>1. CASE \E fd \in Fds : NewFd(fd)
      BY <1>3, <3>1 DEF SocketF, NewFd
    <3>2. CASE ~\E fd \in Fds : NewFd(fd)
      <4>1. call[f].fd \in Fds
        BY <2>2, CallFields
      <4> QED BY <1>3, <3>2, <4>1 DEF SocketF
    <3> QED BY <3>1, <3>2
  <2>5. outside \subseteq outside' /\ \A g \in Fds \ {fd} : kern'[g] = kern[g]
    BY <2>4 DEF KernOK
  <2>6. \A g \in Fds : HasCtx(g)'
    <3> SUFFICES ASSUME NEW g \in Fds, kern'[g].open, m_datas[g] = NoCtx, g \notin outside'
                 PROVE  \E h \in Fibers : t_hook_enable[h] /\ pc'[h] \in {"create", "close_f"} /\ call'[h].fd = g
      BY <1>b, <2>1 DEF HasCtx, config
    <3>1. CASE kern[g].open
      <4>1. PICK h \in Fibers : t_hook_enable[h] /\ pc[h] \in {"create", "close_f"} /\ call[h].fd = g
        BY <2>5, <3>1 DEF CloseInv, HasCtx
      <4> QED BY <2>2, <2>3, <4>1
    <3>2. CASE ~kern[g].open
      <4>1. g = fd /\ ~(UNCHANGED kern)
        BY <2>5, <3>2
      <4>2. ~Found(fd)
        BY <4>1 DEF Found, get
      <4>3. t_hook_enable[f] /\ Goto(f, "create") /\ call' = [call EXCEPT ![f].fd = fd]
        BY <2>4, <4>1, <4>2
      <4>4. call[f] \in CallRec
        BY <2>2, CallFields
      <4>5. pc'[f] = "create" /\ call'[f].fd = fd
        BY <4>3, <4>4 DEF Goto, ControlOK, CallRec
      <4> QED BY <4>1, <4>3, <4>5
    <3> QED BY <3>1, <3>2
  <2>7. \A g \in Fds : Watched(g)'
    <3>1. \A g \in Fds \ {fd} : Watched(g)'
      BY <1>e, <2>1, <2>5 DEF CloseInv, Watched
    <3>2. Watched(fd)'
      <4>1. CASE UNCHANGED <<kern, outside>>
        BY <1>e, <2>1, <4>1 DEF CloseInv, Watched
      <4>2. CASE ~kern[fd].open
        BY <1>c, <1>e, <2>1, <2>5, <4>2 DEF CloseInv, Watched
      <4> QED BY <2>4, <4>1, <4>2
    <3> QED BY <3>1, <3>2
  <2>8. \A g \in Fibers : Emptied(g)'
    <3>1. Emptied(f)'
      BY <2>3 DEF Emptied
    <3>2. ASSUME NEW g \in Fibers \ {f}, t_hook_enable[g], pc[g] \in {"del", "close_f"}
          PROVE  Waited(call[g].fd)' = {} \/ call[g].fd \in outside'
      <4>1. call[g].fd \in Fds
        BY <1>a, <3>2 DEF ClosePlaces
      <4>2. Waited(call[g].fd) = {} \/ call[g].fd \in outside
        BY <3>2 DEF CloseInv, Emptied
      <4>3. Waited(call[g].fd)' = Waited(call'[g].fd)
        BY <2>1, <2>3 DEF Waited
      <4> QED BY <2>3, <2>5, <4>2, <4>3
    <3>3. \A g \in Fibers \ {f} : Emptied(g)'
      BY <1>b, <2>3, <3>2 DEF Emptied, config
    <3> QED BY <3>1, <3>3
  <2> QED BY <2>6, <2>7, <2>8 DEF CloseInv
<1>4. CASE CreateCtx(f)
  <2> DEFINE fd == call[f].fd
  <2>1. /\ At(f, "create") /\ Create(fd, kern[fd].open) /\ UNCHANGED <<waiter, outside>>
        /\ kern' = [kern EXCEPT ![fd].nonblock = kern[fd].open] /\ Return(f, "ok")
    BY <1>4 DEF CreateCtx
  <2>2. pc[f] = "create"
    BY <2>1 DEF At
  <2>3. fd \in Fds
    BY <2>2, CallFields
  <2>4. pc'[f] = "app" /\ \A g \in Fibers \ {f} : pc'[g] = pc[g] /\ call'[g] = call[g]
    BY <2>1, ReturnControl
  <2>5. \A g \in Fds : kern'[g].open = kern[g].open /\ kern'[g].watched = kern[g].watched
    <3> HIDE DEF fd
    <3> QED BY <2>1, <2>3 DEF KernOK, KernRec
  <2>6. m_datas'[fd] # NoCtx /\ \A g \in Fds \ {fd} : m_datas'[g] = m_datas[g]
    <3>1. kern[fd].open \in BOOLEAN
      BY <2>3 DEF KernOK, KernRec
    <3>2. FdCtx(kern[fd].open) \in FdCtxs
      BY <3>1 DEF FdCtx, FdCtxs
    <3> QED BY <2>1, <2>3, <3>2, NullsAreNot DEF Create, TableOK, TableTypeOK
  <2>7. \A g \in Fds : HasCtx(g)'
    <3> SUFFICES ASSUME NEW g \in Fds, kern[g].open, m_datas'[g] = NoCtx, g \notin outside
                 PROVE  \E h \in Fibers : t_hook_enable[h] /\ pc'[h] \in {"create", "close_f"} /\ call'[h].fd = g
      BY <1>b, <2>1, <2>5 DEF HasCtx, config
    <3>1. g # fd
      BY <2>6
    <3>2. PICK h \in Fibers : t_hook_enable[h] /\ pc[h] \in {"create", "close_f"} /\ call[h].fd = g
      BY <2>6, <3>1 DEF CloseInv, HasCtx
    <3>3. h # f
      BY <3>1, <3>2
    <3> QED BY <2>4, <3>2, <3>3
  <2>8. \A g \in Fds : Watched(g)'
    BY <1>e, <2>1, <2>5 DEF CloseInv, Watched
  <2>9. \A g \in Fibers : Emptied(g)'
    BY <1>a, <1>b, <1>e, <2>1, <2>4 DEF CloseInv, Emptied, ClosePlaces, config
  <2> QED BY <2>7, <2>8, <2>9 DEF CloseInv
<1>5. CASE CancelAll(f)
  <2>0. PICK fd \in Fds : fd = call[f].fd
    <3>1. pc[f] # "app"
      BY <1>5 DEF CancelAll, At
    <3> QED BY <3>1, CallFields
  <2>1. /\ At(f, "cancelAll") /\ Goto(f, "del") /\ cancelEvent(fd, Events)
        /\ UNCHANGED <<m_datas, outside, call>>
    BY <1>5, <2>0 DEF CancelAll, table
  <2>2. st[f] = "run" /\ pc[f] = "cancelAll" /\ pc'[f] = "del" /\ \A g \in Fibers \ {f} : pc'[g] = pc[g]
    BY <1>d, <2>1
  <2>4. Waited(fd) \cap Events = Waited(fd)
    BY DEF Waited
  <2>5. /\ \A g \in Fds : kern'[g].open = kern[g].open
        /\ \A g \in Fds : /\ Waited(g)' \subseteq Waited(g)
                          /\ \/ kern'[g].watched = kern[g].watched
                             \/ Waited(g)' # {} => kern'[g].watched
        /\ Waited(fd)' = {} \/ fd \in outside
    <3>1. CASE Waited(fd) # {} /\ kern[fd].watched
      <4>1. trigger(fd, Waited(fd)) /\ Waited(fd) \in SUBSET Events
        BY <2>1, <2>4, <3>1 DEF cancelEvent, Waited
      <4>2. /\ Waited(fd)' = Waited(fd) \ Waited(fd)
            /\ \A g \in Fds : kern'[g].open = kern[g].open
            /\ \A g \in Fds \ {fd} : Waited(g)' = Waited(g) /\ kern'[g].watched = kern[g].watched
        BY <4>1, TriggerWatched
      <4>3. Waited(fd)' = {}
        BY <4>2
      <4> QED BY <4>2, <4>3
    <3>2. CASE ~(Waited(fd) # {} /\ kern[fd].watched)
      <4>1. UNCHANGED <<waiter, kern>>
        BY <2>1, <2>4, <3>2 DEF cancelEvent
      <4>2. \A g \in Fds : Waited(g)' = Waited(g)
        BY <1>e, <4>1
      <4>3. Waited(fd) = {} \/ fd \in outside
        BY <3>2 DEF CloseInv, Watched
      <4> QED BY <4>1, <4>2, <4>3
    <3> QED BY <3>1, <3>2
  <2>6. \A g \in Fds : HasCtx(g)'
    <3> SUFFICES ASSUME NEW g \in Fds, kern[g].open, m_datas[g] = NoCtx, g \notin outside
                 PROVE  \E h \in Fibers : t_hook_enable[h] /\ pc'[h] \in {"create", "close_f"} /\ call'[h].fd = g
      BY <1>b, <2>1, <2>5 DEF HasCtx, config
    <3>1. PICK h \in Fibers : t_hook_enable[h] /\ pc[h] \in {"create", "close_f"} /\ call[h].fd = g
      BY DEF CloseInv, HasCtx
    <3> QED BY <2>1, <2>2, <3>1
  <2>7. \A g \in Fds : Watched(g)'
    BY <2>1, <2>5 DEF CloseInv, Watched
  <2>8. \A g \in Fibers : Emptied(g)'
    <3>1. Emptied(f)'
      BY <2>0, <2>1, <2>5 DEF Emptied
    <3>2. \A g \in Fibers \ {f} : Emptied(g)'
      BY <1>a, <1>b, <2>1, <2>2, <2>5 DEF CloseInv, Emptied, ClosePlaces, config
    <3> QED BY <3>1, <3>2
  <2> QED BY <2>6, <2>7, <2>8 DEF CloseInv
<1>6. CASE DelCtx(f)
  <2> DEFINE fd == call[f].fd
  <2>1. /\ At(f, "del") /\ Goto(f, "close_f") /\ del(fd)
        /\ UNCHANGED <<kern, waiter, outside, call>>
    BY <1>6 DEF DelCtx
  <2>2. st[f] = "run" /\ pc[f] = "del" /\ pc'[f] = "close_f" /\ \A g \in Fibers \ {f} : pc'[g] = pc[g]
    BY <1>d, <2>1
  <2>3. fd \in Fds /\ t_hook_enable[f]
    BY <2>2, CallFields DEF Placed, OutsidePlaces
  <2>4. \A g \in Fds \ {fd} : m_datas'[g] = m_datas[g]
    BY <2>1 DEF del, TableOK, TableTypeOK
  <2>5. \A g \in Fds : HasCtx(g)'
    <3> SUFFICES ASSUME NEW g \in Fds, kern[g].open, m_datas'[g] = NoCtx, g \notin outside
                 PROVE  \E h \in Fibers : t_hook_enable[h] /\ pc'[h] \in {"create", "close_f"} /\ call[h].fd = g
      BY <1>b, <2>1 DEF HasCtx, config
    <3>1. CASE g = fd
      BY <2>2, <2>3, <3>1
    <3>2. CASE g # fd
      <4>1. PICK h \in Fibers : t_hook_enable[h] /\ pc[h] \in {"create", "close_f"} /\ call[h].fd = g
        BY <2>4, <3>2 DEF CloseInv, HasCtx
      <4> QED BY <2>2, <4>1
    <3> QED BY <3>1, <3>2
  <2>6. \A g \in Fds : Watched(g)'
    BY <1>e, <2>1 DEF CloseInv, Watched
  <2>7. \A g \in Fibers : Emptied(g)'
    <3>1. \A g \in Fibers : pc'[g] \in {"del", "close_f"} => pc[g] \in {"del", "close_f"} /\ call[g].fd \in Fds
      BY <1>a, <2>2 DEF ClosePlaces
    <3> QED BY <1>b, <1>e, <2>1, <3>1 DEF CloseInv, Emptied, config
  <2> QED BY <2>5, <2>6, <2>7 DEF CloseInv
<1>7. CASE CloseF(f)
  <2> DEFINE fd == call[f].fd
  <2>1. /\ At(f, "close_f") /\ Goto(f, "app") /\ UNCHANGED <<m_datas, waiter>>
        /\ kern' = [kern EXCEPT ![fd] = Closed]
        /\ outside' = IF ~t_hook_enable[f] /\ kern[fd].open THEN outside \cup {fd} ELSE outside
        /\ call' = [g \in Fibers |-> IF g = f THEN NoCall
                                     ELSE IF InCall(g) /\ call[g].fd = fd
                                     THEN [call[g] EXCEPT !.lost = TRUE] ELSE call[g]]
    BY <1>7 DEF CloseF, table
  <2>2. st[f] = "run" /\ pc[f] = "close_f" /\ pc'[f] = "app" /\ \A g \in Fibers \ {f} : pc'[g] = pc[g]
    BY <1>d, <2>1
  <2>3. fd \in Fds
    BY <2>2, CallFields
  <2>4. ASSUME NEW g \in Fibers \ {f}, pc[g] \in ClosePlaces PROVE call'[g].fd = call[g].fd
    <3>1. call[g] \in CallRec
      BY <2>4, CallFields DEF ClosePlaces
    <3>2. [call[g] EXCEPT !.lost = TRUE].fd = call[g].fd
      BY <3>1 DEF CallRec
    <3> QED BY <2>1, <3>2
  <2> HIDE DEF fd
  <2>5. /\ kern'[fd] = Closed /\ outside \subseteq outside'
        /\ \A g \in Fds \ {fd} : kern'[g] = kern[g]
    BY <2>1, <2>3 DEF KernOK
  <2>6. \A g \in Fds : HasCtx(g)'
    <3> SUFFICES ASSUME NEW g \in Fds, kern'[g].open, m_datas[g] = NoCtx, g \notin outside'
                 PROVE  \E h \in Fibers : t_hook_enable[h] /\ pc'[h] \in {"create", "close_f"} /\ call'[h].fd = g
      BY <1>b, <2>1 DEF HasCtx, config
    <3>1. g # fd /\ kern[g].open /\ g \notin outside
      BY <2>5 DEF Closed
    <3>2. PICK h \in Fibers : t_hook_enable[h] /\ pc[h] \in {"create", "close_f"} /\ call[h].fd = g
      BY <3>1 DEF CloseInv, HasCtx
    <3>3. h # f
      BY <3>1, <3>2 DEF fd
    <3> QED BY <2>2, <2>4, <3>2, <3>3 DEF ClosePlaces
  <2>7. Waited(fd) = {} \/ fd \in outside'
    <3>1. CASE t_hook_enable[f]
      BY <2>2, <2>5, <3>1 DEF CloseInv, Emptied, fd
    <3>2. CASE ~t_hook_enable[f] /\ kern[fd].open
      BY <2>1, <3>2
    <3>3. CASE ~kern[fd].open
      BY <1>c, <2>3, <2>5, <3>3 DEF CloseInv, Watched
    <3> QED BY <3>1, <3>2, <3>3
  <2>8. \A g \in Fds : Watched(g)'
    BY <1>e, <2>1, <2>5, <2>7 DEF CloseInv, Watched
  <2>9. \A g \in Fibers : Emptied(g)'
    <3>1. Emptied(f)'
      BY <2>2 DEF Emptied
    <3>2. ASSUME NEW g \in Fibers \ {f}, t_hook_enable[g], pc[g] \in {"del", "close_f"}
          PROVE  Waited(call[g].fd)' = {} \/ call'[g].fd \in outside'
      <4>1. call'[g].fd = call[g].fd
        BY <2>4, <3>2 DEF ClosePlaces
      <4>2. Waited(call[g].fd)' = Waited(call'[g].fd)
        BY <2>1 DEF Waited
      <4> QED BY <2>5, <3>2, <4>1, <4>2 DEF CloseInv, Emptied
    <3>3. \A g \in Fibers \ {f} : Emptied(g)'
      BY <1>b, <2>2, <3>2 DEF Emptied, config
    <3> QED BY <3>1, <3>3
  <2> QED BY <2>6, <2>8, <2>9 DEF CloseInv
<1> QED BY <1>1, <1>2, <1>3, <1>4, <1>5, <1>6, <1>7

\* How many threads there are, and which fibers are hooked, never changes.
LEMMA ConfigStays == ASSUME [Next]_vars PROVE UNCHANGED config
<1>1. ASSUME NEW f \in Fibers, NEW c \in Calls, Begin(f, c) \/ Set(f, c) PROVE UNCHANGED config
  BY <1>1 DEF Begin, Set
<1>2. ASSUME NEW f \in Fibers, Resume(f) \/ FiberStep(f) PROVE UNCHANGED config
  BY <1>2 DEF Resume, FiberStep, Immediate, Try, ArmTimer, addEvent, Yield, Woke,
              CheckConnect, SocketF, CreateCtx, CancelAll, DelCtx, CloseF, Exit
<1>3. CASE ManagerStep
  BY <1>3 DEF ManagerStep, Poll, Expire, RunCallback, CallbackCancel
<1>4. CASE Environment \/ UNCHANGED vars
  BY <1>4 DEF Environment, Arrive, ConnectEnds, ConnectTimeoutChanged, vars
<1> QED BY <1>1, <1>2, <1>3, <1>4 DEF Next

\* At the start nobody waits, and every open handle has its context.
LEMMA OrphanStart ==
    ASSUME RoomAtStart, Init
    PROVE  OrphanInv
<1>1. HookInv /\ IsFiniteSet(cbs)
  BY HookStart, FS_EmptySet DEF Init
<1>2. \A f \in Fibers : Placed(f)
  BY DEF Init, Placed, OutsidePlaces
<1>3. OneThread
  BY DEF Init, OneThread, Runs
<1>4. \A fd \in Fds : Waited(fd) = {}
  <2>1. ASSUME NEW fd \in Fds PROVE Waited(fd) = {}
    <3>1. \A e \in Events : waiter[fd][e] = NoFiber
      BY DEF Init
    <3> QED BY <3>1, Zenon DEF Waited
  <2> QED BY <2>1, Zenon
<1>5. \A fd \in Fds : HasCtx(fd)
  <2> SUFFICES ASSUME NEW fd \in Fds, kern[fd].open PROVE m_datas[fd] # NoCtx
    BY DEF HasCtx
  <2>1. fd \in InitialOpen
    BY DEF Init, Closed
  <2>2. FdCtx(TRUE) \in FdCtxs
    BY DEF FdCtx, FdCtxs
  <2> QED BY <2>1, <2>2, NullsAreNot DEF Init
<1>6. CloseInv
  BY <1>4, <1>5 DEF Init, CloseInv, Watched, Emptied
<1> QED BY <1>1, <1>2, <1>3, <1>6 DEF OrphanInv

\* Every step keeps the order of the closes.
LEMMA OrphanStep ==
    ASSUME OrphanInv, [Next]_vars
    PROVE  OrphanInv'
<1>1. HookInv' /\ IsFiniteSet(cbs)' /\ \A f \in Fibers : Placed(f)'
  BY HookStep, FiniteCallbacks, PlacedStep DEF OrphanInv
<1>2. ASSUME m_threadCount' = 1 PROVE OneThread' /\ CloseInv'
  <2>1. m_threadCount = 1
    BY <1>2, ConfigStays DEF config
  <2>2. OneThread /\ CloseInv
    BY <2>1 DEF OrphanInv
  <2>3. OneThread'
    BY <2>1, OneThreadStep
  <2>4. CloseInv'
    BY <2>2, CloseQuietStep, CloseTriggerStep, CloseStepInv DEF Next, FiberStep, ManagerStep
  <2> QED BY <2>3, <2>4
<1> QED BY <1>1, <1>2 DEF OrphanInv

\* On one thread close() leaves no event behind, however events, timeouts, retries, closes
\* and reopenings of the handle cross: the closer keeps the thread from cancelAll to close_f,
\* and an open handle always has the context that sends close() through cancelAll.
THEOREM HookNoOrphanEvent ==
    ASSUME RoomAtStart
    PROVE  Spec => []NoOrphanEvent
<1>1. Init => OrphanInv
  BY OrphanStart
<1>2. OrphanInv /\ [Next]_vars => OrphanInv'
  BY OrphanStep
<1>3. OrphanInv => NoOrphanEvent
  BY DEF OrphanInv, CloseInv, Watched, NoOrphanEvent
<1> QED BY <1>1, <1>2, <1>3, PTL DEF Spec

(***************************************************************************)
(* One thread: what wakes a connect                                        *)
(***************************************************************************)

\* Some call gives the handle fd a timeout for the event e.
Asked(fd, e) == \E c \in Calls : c.op = "setsockopt" /\ c.fd = fd /\ c.ev = e

TimeoutsAsked ==
    \A fd \in Fds, e \in Events : m_datas[fd] # NoCtx /\ m_datas[fd].timed[e] => Asked(fd, e)

\* Some call of f is a connect of fd that waits for e.
Connects(f, fd, e) ==
    \E c \in Calls : c.by = f /\ c.op = "connect" /\ c.fd = fd /\ c.ev = e

\* The course of every call through the places.
TimerPlaces == {"add", "yield", "woke"}
ConnectPlaces == {"arm", "check"} \cup TimerPlaces
OnCourse(f) ==
    InCall(f) =>
        /\ call[f].op = "connect" => pc[f] \in {"ebadf", "try", "direct"} \cup ConnectPlaces
        /\ call[f].op \in IoOps =>
               pc[f] \in {"try", "direct", "arm", "socket", "create"} \cup TimerPlaces
        /\ call[f].op = "sleep" => pc[f] \in WaitPlaces
        /\ call[f].op = "socket" => pc[f] \in {"socket", "create"}
        /\ call[f].op = "close" => pc[f] \in {"cancelAll", "del", "close_f"}

\* A call is one of Calls, until accept() has a new handle; it times out when the
\* handle was given a timeout for its event.
Given(f) ==
    /\ call[f].op = "connect" => Connects(f, call[f].fd, call[f].ev)
    /\ call[f].op \in IoOps /\ call[f].timed /\ pc[f] # "create" =>
           Asked(call[f].fd, call[f].ev)
    /\ timer[f] => call[f].timed

\* The callback of a timeout was armed by a call on a hooked thread.
CbGiven(c) ==
    /\ t_hook_enable[c.of] /\ c.op \in WaitOps \cup {"sleep"}
    /\ c.op = "connect" => Connects(c.of, c.fd, c.ev)
    /\ c.op \in IoOps => Asked(c.fd, c.ev)
    /\ c.op = "sleep" => c.stage = "due"

\* A connection under way reports no event.
Silent(fd) == kern[fd].conn = "going" => kern[fd].ready = {}

GivenInv ==
    /\ cancelled \in [Fibers -> BOOLEAN]
    /\ TimeoutsAsked
    /\ \A f \in Fibers : OnCourse(f) /\ Given(f)
    /\ \A c \in cbs : CbGiven(c)
    /\ \A fd \in Fds : Silent(fd)

\* A callback about to cancel has marked a call that is not over: it has the thread.
Cancelling(c) == c.stage = "cancel" => InCall(c.of) /\ cancelled[c.of]

\* Nobody else interferes with the connect of f.
Undisturbed(f) ==
    ~call[f].lost /\ call[f].fd \notin outside /\ ~OtherTimeout(f, call[f].fd)

\* A hooked fiber is between cancelAll and the end of close.
Closing(fd) ==
    \E g \in Fibers : t_hook_enable[g] /\ pc[g] \in {"del", "close_f"} /\ call[g].fd = fd

\* The socket of a connect has begun to connect; its fiber waits for the event, or the
\* connection has been decided, or its timeout or a close has taken the event away.
Begun(fd) == kern[fd].open /\ kern[fd].conn # "no"
Decided(fd) == kern[fd].conn # "going"
Roused(f) ==
    \/ waiter[call[f].fd][call[f].ev] = f
    \/ Decided(call[f].fd) \/ cancelled[f] \/ Closing(call[f].fd)
Connecting(f) ==
    call[f].op = "connect" /\ pc[f] \in ConnectPlaces /\ Undisturbed(f) =>
        /\ Begun(call[f].fd)
        /\ pc[f] \in {"yield", "woke"} => Roused(f)
        /\ pc[f] = "check" => Decided(call[f].fd)

\* Without threads no hooked fiber runs.
NoThread == m_threadCount = 0 => \A f \in Fibers : ~Runs(f)

ConnectInv ==
    /\ OrphanInv /\ GivenInv /\ NoThread
    /\ m_threadCount = 1 => (\A c \in cbs : Cancelling(c)) /\ (\A f \in Fibers : Connecting(f))

\* What a step does to a fiber that does not take it.
Stays(g) ==
    /\ pc'[g] = pc[g] /\ (InCall(g)' <=> InCall(g)) /\ call'[g].op = call[g].op
    /\ call'[g].fd = call[g].fd /\ call'[g].ev = call[g].ev
    /\ InCall(g) => /\ call'[g].timed = call[g].timed
                    /\ call[g].lost => call'[g].lost
    /\ connected'[g] = connected[g] /\ (cancelled[g] => cancelled'[g])

\* A step of a fiber leaves the others where they are.
LEMMA OthersStay ==
    ASSUME HookInv, cancelled \in [Fibers -> BOOLEAN], NEW f \in Fibers,
           (\E c \in Calls : Begin(f, c)) \/ FiberStep(f)
    PROVE  /\ \A g \in Fibers \ {f} : Stays(g)
           /\ cancelled' \in [Fibers -> BOOLEAN]
           /\ st[f] = "run"
<1> USE DEF HookInv, Typed
<1> DEFINE Rest == \A g \in Fibers \ {f} :
                       /\ pc'[g] = pc[g] /\ call'[g] = call[g] /\ connected'[g] = connected[g]
                       /\ cancelled'[g] = cancelled[g]
           Typ == cancelled' \in [Fibers -> BOOLEAN]
<1>1. ASSUME Rest PROVE \A g \in Fibers \ {f} : Stays(g)
  BY <1>1 DEF Stays, InCall
<1>2. ASSUME NEW r, Return(f, r) PROVE Rest /\ Typ
  BY <1>2 DEF Return, Goto, ControlOK
<1>3. ASSUME NEW to, Goto(f, to), Stay(f) PROVE Rest /\ Typ
  BY <1>3 DEF Stay, Goto, ControlOK
<1>4. ASSUME NEW c \in Calls, Begin(f, c) PROVE Rest /\ Typ
  BY <1>4 DEF Begin, Goto, ControlOK
<1>5. ASSUME Immediate(f) \/ CheckConnect(f) PROVE Rest /\ Typ
  <2>1. \E r : Return(f, r)
    BY <1>5 DEF Immediate, CheckConnect
  <2> QED BY <1>2, <2>1
<1>6. ASSUME Try(f) \/ Woke(f) PROVE Rest /\ Typ
  <2>1. (\E r : Return(f, r)) \/ \E to : Goto(f, to) /\ Stay(f)
    BY <1>6 DEF Try, Woke
  <2> QED BY <1>2, <1>3, <2>1
<1>7. ASSUME ArmTimer(f) \/ Yield(f) \/ CancelAll(f) \/ DelCtx(f) PROVE Rest /\ Typ
  <2>1. \E to : Goto(f, to) /\ Stay(f)
    BY <1>7 DEF ArmTimer, Yield, CancelAll, DelCtx, Stay
  <2> QED BY <1>3, <2>1
<1>8. ASSUME addEvent(f) PROVE Rest /\ Typ
  <2>1. \/ \E r : Return(f, r)
        \/ \E to : Goto(f, to) /\ Stay(f)
        \/ UNCHANGED <<pc, call, connected, cancelled>>
    BY <1>8 DEF addEvent, Stay
  <2> QED BY <1>2, <1>3, <2>1
<1>9. ASSUME SocketF(f) PROVE Rest /\ Typ
  <2>1. \/ \E r : Return(f, r)
        \/ \E fd \in Fds : /\ Goto(f, "create") /\ call' = [call EXCEPT ![f].fd = fd]
                           /\ UNCHANGED <<connected, cancelled>>
    BY <1>9 DEF SocketF
  <2>2. ASSUME NEW fd \in Fds, Goto(f, "create"), call' = [call EXCEPT ![f].fd = fd],
               UNCHANGED <<connected, cancelled>>
        PROVE  Rest /\ Typ
    BY <2>2 DEF Goto, ControlOK
  <2> QED BY <1>2, <2>1, <2>2
<1>10. ASSUME CreateCtx(f) PROVE Rest /\ Typ
  <2>1. Return(f, "ok")
    BY <1>10 DEF CreateCtx
  <2> QED BY <1>2, <2>1
<1>11. ASSUME CloseF(f) PROVE (\A g \in Fibers \ {f} : Stays(g)) /\ Typ
  <2>1. /\ Goto(f, "app") /\ UNCHANGED <<connected, cancelled>>
        /\ \A g \in Fibers \ {f} :
               call'[g] = IF InCall(g) /\ call[g].fd = call[f].fd
                          THEN [call[g] EXCEPT !.lost = TRUE] ELSE call[g]
    BY <1>11 DEF CloseF
  <2>2. ASSUME NEW g \in Fibers \ {f} PROVE Stays(g)
    <3>1. pc'[g] = pc[g]
      BY <2>1, <2>2 DEF Goto, ControlOK
    <3>2. CASE InCall(g) /\ call[g].fd = call[f].fd
      <4>1. call[g] \in CallRec /\ call'[g] = [call[g] EXCEPT !.lost = TRUE]
        BY <2>1, <2>2, <3>2 DEF ControlOK, InCall
      <4>2. /\ call'[g].op = call[g].op /\ call'[g].fd = call[g].fd /\ call'[g].ev = call[g].ev
            /\ call'[g].timed = call[g].timed /\ call'[g].lost
        BY <4>1 DEF CallRec
      <4>3. InCall(g)'
        BY <4>1, <4>2 DEF CallRec, InCall, NoCall, WaitOps, IoOps
      <4> QED BY <2>1, <3>1, <3>2, <4>2, <4>3 DEF Stays
    <3>3. CASE ~(InCall(g) /\ call[g].fd = call[f].fd)
      BY <2>1, <2>2, <3>1, <3>3 DEF Stays, InCall
    <3> QED BY <3>2, <3>3
  <2> QED BY <2>1, <2>2
<1>12. ASSUME Exit(f) PROVE Rest /\ Typ
  BY <1>12 DEF Exit
<1>13. st[f] = "run"
  BY DEF Begin, FiberStep, Immediate, Try, ArmTimer, addEvent, Yield, Woke, CheckConnect, SocketF,
         CreateCtx, CancelAll, DelCtx, CloseF, Exit, At
<1> HIDE DEF Rest, Typ
<1>14. (\A g \in Fibers \ {f} : Stays(g)) /\ Typ
  BY <1>1, <1>4, <1>5, <1>6, <1>7, <1>8, <1>9, <1>10, <1>11, <1>12 DEF FiberStep
<1> QED BY <1>13, <1>14 DEF Typ

\* The scheduler, the manager and the environment move no fiber within its call.
LEMMA AllStay ==
    ASSUME HookInv, cancelled \in [Fibers -> BOOLEAN],
           \/ \E f \in Fibers : Resume(f) \/ \E c \in Calls : Set(f, c)
           \/ ManagerStep \/ Environment \/ UNCHANGED vars
    PROVE  (\A g \in Fibers : Stays(g)) /\ cancelled' \in [Fibers -> BOOLEAN]
<1> USE DEF HookInv, Typed
<1>1. UNCHANGED <<pc, call, connected>>
  BY DEF Resume, Set, ManagerStep, Poll, Expire, RunCallback, CallbackCancel, Environment, Arrive,
         ConnectEnds, ConnectTimeoutChanged, vars, fiber
<1>2. UNCHANGED cancelled \/ \E h \in Fibers : cancelled' = [cancelled EXCEPT ![h] = TRUE]
  <2>1. ASSUME NEW c \in cbs, RunCallback(c)
        PROVE  UNCHANGED cancelled \/ cancelled' = [cancelled EXCEPT ![c.of] = TRUE]
    BY <2>1 DEF RunCallback, Mark
  <2>2. \A c \in cbs : c.of \in Fibers
    BY DEF RestOK, CbRec
  <2>3. UNCHANGED cancelled \/ \E c \in cbs : RunCallback(c)
    BY DEF Resume, Set, ManagerStep, Poll, Expire, CallbackCancel, Environment, Arrive,
           ConnectEnds, ConnectTimeoutChanged, vars, fiber
  <2> QED BY <2>1, <2>2, <2>3
<1>3. /\ cancelled' \in [Fibers -> BOOLEAN]
      /\ \A g \in Fibers : cancelled[g] => cancelled'[g]
  BY <1>2
<1>4. \A g \in Fibers : InCall(g)' <=> InCall(g)
  BY <1>1 DEF InCall
<1> QED BY <1>1, <1>3, <1>4 DEF Stays

\* What a step can do to the socket of a handle, besides its mode and its watch.
KernKeeps(fd) ==
    /\ kern'[fd].open = kern[fd].open /\ kern'[fd].conn = kern[fd].conn
    /\ kern'[fd].ready \subseteq kern[fd].ready
Opens(fd) == kern'[fd].conn = "no" /\ ~kern[fd].open
Closes(fd) == kern'[fd].conn = "no" /\ \E f \in Fibers : CloseF(f) /\ call[f].fd = fd
Decides(fd) ==
    /\ kern'[fd].open = kern[fd].open /\ kern'[fd].conn \notin {"no", "going"}
    /\ kern[fd].conn = "going"
Arrives(fd) ==
    kern'[fd].open = kern[fd].open /\ kern'[fd].conn = kern[fd].conn /\ kern[fd].conn # "going"
Dials(f, fd) ==
    /\ Try(f) /\ call[f].op = "connect" /\ call[f].fd = fd /\ kern'[fd].open
    /\ \/ kern'[fd].conn = "yes"
       \/ kern'[fd].conn = "going" /\ kern'[fd].ready = {}
Touched(fd) ==
    \/ KernKeeps(fd) \/ Opens(fd) \/ Closes(fd) \/ Decides(fd) \/ Arrives(fd)
    \/ \E f \in Fibers : Dials(f, fd)

\* Every step does one of these.
LEMMA KernMoves ==
    ASSUME HookInv, [Next]_vars, NEW fd \in Fds
    PROVE  Touched(fd)
<1> USE DEF HookInv, Typed
<1>1. ASSUME UNCHANGED kern PROVE Touched(fd)
  BY <1>1 DEF Touched, KernKeeps
<1>2. ASSUME NEW g \in Fds, NEW x,
             kern' = [kern EXCEPT ![g].watched = x] \/ kern' = [kern EXCEPT ![g].nonblock = x]
      PROVE  Touched(fd)
  <2>1. KernKeeps(fd)
    BY <1>2 DEF KernOK, KernRec, KernKeeps
  <2> QED BY <2>1 DEF Touched
<1>3. ASSUME NEW g \in Fds, NEW x, kern' = [kern EXCEPT ![g] = x], fd # g PROVE Touched(fd)
  <2>1. KernKeeps(fd)
    BY <1>3 DEF KernOK, KernRec, KernKeeps
  <2> QED BY <2>1 DEF Touched
<1>4. ASSUME NEW f \in Fibers, NEW c \in Calls, Begin(f, c) \/ Set(f, c) PROVE Touched(fd)
  <2>1. c.fd \in Fds
    BY CallsAreCalls DEF CallType
  <2>2. UNCHANGED kern \/ \E v : kern' = [kern EXCEPT ![c.fd].nonblock = v]
    BY <1>4 DEF Begin, Set
  <2> QED BY <1>1, <1>2, <2>1, <2>2
<1>5. ASSUME NEW f \in Fibers,
             \/ Resume(f) \/ Immediate(f) \/ ArmTimer(f) \/ Yield(f) \/ Woke(f) \/ CheckConnect(f)
             \/ DelCtx(f) \/ Exit(f) \/ Expire(f)
      PROVE  Touched(fd)
  BY <1>1, <1>5 DEF Resume, Immediate, ArmTimer, Yield, Woke, CheckConnect, DelCtx, Exit, Expire
<1>6. ASSUME NEW f \in Fibers, pc[f] # "app" PROVE call[f].fd \in Fds
  BY <1>6, CallFields
<1>7. ASSUME NEW f \in Fibers, addEvent(f) \/ CreateCtx(f) \/ CancelAll(f) PROVE Touched(fd)
  <2>1. call[f].fd \in Fds
    BY <1>6, <1>7 DEF addEvent, CreateCtx, CancelAll, At
  <2>2. \/ UNCHANGED kern
        \/ \E x : \/ kern' = [kern EXCEPT ![call[f].fd].watched = x]
                  \/ kern' = [kern EXCEPT ![call[f].fd].nonblock = x]
    BY <1>7 DEF addEvent, CreateCtx, CancelAll, cancelEvent, trigger
  <2> QED BY <1>1, <1>2, <2>1, <2>2
<1>8. ASSUME NEW f \in Fibers, SocketF(f) PROVE Touched(fd)
  <2>1. ASSUME NEW g \in Fds, NewFd(g), kern' = [kern EXCEPT ![g] = Fresh] PROVE Touched(fd)
    <3>1. CASE g = fd
      <4>1. Opens(fd)
        BY <2>1, <3>1 DEF NewFd, Opens, Fresh, Closed, KernOK
      <4> QED BY <4>1 DEF Touched
    <3> QED BY <1>3, <2>1, <3>1
  <2>2. UNCHANGED kern \/ \E g \in Fds : NewFd(g) /\ kern' = [kern EXCEPT ![g] = Fresh]
    BY <1>8 DEF SocketF
  <2> QED BY <1>1, <2>1, <2>2
<1>9. ASSUME NEW f \in Fibers, CloseF(f) PROVE Touched(fd)
  <2>1. call[f].fd \in Fds /\ kern' = [kern EXCEPT ![call[f].fd] = Closed]
    BY <1>6, <1>9 DEF CloseF, At
  <2>2. CASE call[f].fd = fd
    <3>1. Closes(fd)
      BY <1>9, <2>1, <2>2 DEF Closes, Closed, KernOK
    <3> QED BY <3>1 DEF Touched
  <2> QED BY <1>3, <2>1, <2>2
<1>10. ASSUME NEW f \in Fibers, Try(f) PROVE Touched(fd)
  <2> DEFINE g == call[f].fd
  <2>1. g \in Fds /\ kern[g] \in KernRec
    BY <1>6, <1>10 DEF Try, At, KernOK
  <2>2. \/ UNCHANGED kern
        \/ kern' = [kern EXCEPT ![g].ready = kern[g].ready \ {call[f].ev}]
        \/ /\ kern[g].open /\ call[f].op = "connect"
           /\ \/ kern' = [kern EXCEPT ![g].conn = "yes"]
              \/ kern' = [kern EXCEPT ![g].conn = "going", ![g].ready = {}]
    BY <1>10 DEF Try
  <2> HIDE DEF g
  <2>3. CASE kern' = [kern EXCEPT ![g].ready = kern[g].ready \ {call[f].ev}]
    <3>1. KernKeeps(fd)
      BY <2>1, <2>3 DEF KernOK, KernRec, KernKeeps
    <3> QED BY <3>1 DEF Touched
  <2>4. CASE /\ kern[g].open /\ call[f].op = "connect"
             /\ \/ kern' = [kern EXCEPT ![g].conn = "yes"]
                \/ kern' = [kern EXCEPT ![g].conn = "going", ![g].ready = {}]
    <3>1. CASE fd # g
      <4>1. KernKeeps(fd)
        BY <2>1, <2>4, <3>1 DEF KernOK, KernRec, KernKeeps
      <4> QED BY <4>1 DEF Touched
    <3>2. CASE fd = g
      <4>1. /\ kern'[g].open
            /\ kern'[g].conn = "yes" \/ (kern'[g].conn = "going" /\ kern'[g].ready = {})
        BY <2>1, <2>4 DEF KernOK, KernRec
      <4>2. Dials(f, fd)
        BY <1>10, <2>4, <3>2, <4>1 DEF Dials, g
      <4> QED BY <4>2 DEF Touched
    <3> QED BY <3>1, <3>2
  <2> QED BY <1>1, <2>2, <2>3, <2>4
<1>11. ASSUME NEW g \in Fds, Poll(g) PROVE Touched(fd)
  <2>1. \E x : kern' = [kern EXCEPT ![g].watched = x]
    BY <1>11 DEF Poll, trigger
  <2> QED BY <1>2, <2>1
<1>12. ASSUME NEW c \in cbs, RunCallback(c) \/ CallbackCancel(c) PROVE Touched(fd)
  <2>1. c.fd \in Fds
    BY DEF RestOK, CbRec
  <2>2. UNCHANGED kern \/ \E x : kern' = [kern EXCEPT ![c.fd].watched = x]
    BY <1>12 DEF RunCallback, CallbackCancel, cancelEvent, trigger
  <2> QED BY <1>1, <1>2, <2>1, <2>2
<1>13. ASSUME NEW g \in Fds, NEW e \in Events, Arrive(g, e) PROVE Touched(fd)
  <2>1. CASE fd = g
    <3>1. Arrives(fd)
      BY <1>13, <2>1 DEF Arrive, Arrives, KernOK, KernRec
    <3> QED BY <3>1 DEF Touched
  <2>2. CASE fd # g
    <3>1. KernKeeps(fd)
      BY <1>13, <2>2 DEF Arrive, KernOK, KernRec, KernKeeps
    <3> QED BY <3>1 DEF Touched
  <2> QED BY <2>1, <2>2
<1>14. ASSUME NEW g \in Fds, NEW how \in {"yes", "failed"}, ConnectEnds(g, how) PROVE Touched(fd)
  <2>1. CASE fd = g
    <3>1. Decides(fd)
      BY <1>14, <2>1 DEF ConnectEnds, Decides, KernOK, KernRec
    <3> QED BY <3>1 DEF Touched
  <2>2. CASE fd # g
    <3>1. KernKeeps(fd)
      BY <1>14, <2>2 DEF ConnectEnds, KernOK, KernRec, KernKeeps
    <3> QED BY <3>1 DEF Touched
  <2> QED BY <2>1, <2>2
<1>15. CASE ConnectTimeoutChanged \/ UNCHANGED vars
  BY <1>1, <1>15 DEF ConnectTimeoutChanged, vars
<1> QED
  BY <1>4, <1>5, <1>7, <1>8, <1>9, <1>10, <1>11, <1>12, <1>13, <1>14, <1>15
     DEF Next, FiberStep, ManagerStep, Environment

\* Every step: a context has a timeout only when some call set it.
LEMMA AskedStep ==
    ASSUME HookInv, TimeoutsAsked, [Next]_vars
    PROVE  TimeoutsAsked'
<1> USE DEF HookInv, Typed
<1>1. ASSUME UNCHANGED table PROVE TimeoutsAsked'
  BY <1>1 DEF TimeoutsAsked, table, Asked
<1>2. ASSUME NEW f \in Fibers, CreateCtx(f) PROVE TimeoutsAsked'
  <2>1. call[f].fd \in Fds /\ kern[call[f].fd].open \in BOOLEAN
    BY <1>2, CallFields DEF CreateCtx, At, KernOK, KernRec
  <2>2. m_datas' = [m_datas EXCEPT ![call[f].fd] = FdCtx(kern[call[f].fd].open)]
    BY <1>2, <2>1, CreateTyped DEF CreateCtx
  <2>3. \A e \in Events : ~FdCtx(kern[call[f].fd].open).timed[e]
    BY DEF FdCtx
  <2> QED BY <2>1, <2>2, <2>3 DEF TimeoutsAsked, Asked, TableOK, TableTypeOK
<1>3. ASSUME NEW f \in Fibers, DelCtx(f) PROVE TimeoutsAsked'
  <2>1. \A fd \in Fds : m_datas'[fd] \in {m_datas[fd], NoCtx}
    BY <1>3 DEF DelCtx, del, TableOK, TableTypeOK
  <2> QED BY <2>1 DEF TimeoutsAsked, Asked
<1>4. ASSUME NEW f \in Fibers, NEW c \in Calls, Set(f, c) PROVE TimeoutsAsked'
  <2>1. c.fd \in Fds /\ c.ev \in Events /\ c.on \in BOOLEAN
    BY CallsAreCalls DEF CallType
  <2>2. \/ UNCHANGED table
        \/ m_datas[c.fd] # NoCtx /\ m_datas' = [m_datas EXCEPT ![c.fd].userNonblock = c.on]
        \/ /\ m_datas[c.fd] # NoCtx /\ c.op = "setsockopt"
           /\ m_datas' = [m_datas EXCEPT ![c.fd].timed[c.ev] = TRUE]
    BY <1>4 DEF Set, setUserNonblock, setTimeout, get
  <2>3. m_datas[c.fd] # NoCtx => m_datas[c.fd] \in FdCtxs
    BY <2>1 DEF TableOK, TableTypeOK
  <2>4. CASE m_datas[c.fd] # NoCtx /\ m_datas' = [m_datas EXCEPT ![c.fd].userNonblock = c.on]
    <3>1. m_datas'[c.fd].timed = m_datas[c.fd].timed /\ \A g \in Fds \ {c.fd} : m_datas'[g] = m_datas[g]
      BY <2>1, <2>3, <2>4 DEF FdCtxs, TableOK, TableTypeOK
    <3> QED BY <2>4, <3>1 DEF TimeoutsAsked, Asked
  <2>5. CASE /\ m_datas[c.fd] # NoCtx /\ c.op = "setsockopt"
             /\ m_datas' = [m_datas EXCEPT ![c.fd].timed[c.ev] = TRUE]
    <3>1. /\ \A e \in Events \ {c.ev} : m_datas'[c.fd].timed[e] = m_datas[c.fd].timed[e]
          /\ \A g \in Fds \ {c.fd} : m_datas'[g] = m_datas[g]
      BY <2>1, <2>3, <2>5 DEF FdCtxs, TableOK, TableTypeOK
    <3>2. Asked(c.fd, c.ev)
      BY <2>5 DEF Asked
    <3> QED BY <2>5, <3>1, <3>2 DEF TimeoutsAsked, Asked
  <2> QED BY <1>1, <2>2, <2>4, <2>5
<1>5. ASSUME NEW f \in Fibers, NEW c \in Calls, Begin(f, c) PROVE UNCHANGED table
  BY <1>5 DEF Begin
<1>6. ASSUME NEW f \in Fibers,
             \/ Resume(f) \/ Immediate(f) \/ Try(f) \/ ArmTimer(f) \/ addEvent(f) \/ Yield(f)
             \/ Woke(f) \/ CheckConnect(f) \/ SocketF(f) \/ CancelAll(f) \/ CloseF(f) \/ Exit(f)
      PROVE  UNCHANGED table
  BY <1>6 DEF Resume, Immediate, Try, ArmTimer, addEvent, Yield, Woke, CheckConnect, SocketF,
              CancelAll, CloseF, Exit
<1>7. ASSUME ManagerStep PROVE UNCHANGED table
  BY <1>7 DEF ManagerStep, Poll, Expire, RunCallback, CallbackCancel
<1>8. ASSUME Environment \/ UNCHANGED vars PROVE UNCHANGED table
  BY <1>8 DEF Environment, Arrive, ConnectEnds, ConnectTimeoutChanged, vars
<1> QED BY <1>1, <1>2, <1>3, <1>4, <1>5, <1>6, <1>7, <1>8 DEF Next, FiberStep

\* The step of a fiber keeps it on the course of its call.
LEMMA CourseStep ==
    ASSUME HookInv, TimeoutsAsked, NEW f \in Fibers, OnCourse(f), Given(f),
           (\E c \in Calls : Begin(f, c)) \/ FiberStep(f)
    PROVE  OnCourse(f)' /\ Given(f)'
<1> USE DEF HookInv, Typed
<1> DEFINE Fine == OnCourse(f)' /\ Given(f)'
<1>t. ~timer[f] \/ pc[f] \in TimerPlaces
  BY DEF WaitInv, TimerHeld, TimerPlaces
<1>c. NoCall.op \notin WaitOps \cup IoOps
  BY DEF NoCall, WaitOps, IoOps
<1>1. ASSUME call'[f] = NoCall, ~timer'[f] PROVE Fine
  BY <1>c, <1>1 DEF OnCourse, InCall, Given, WaitOps
<1>2. ASSUME NEW r, Return(f, r), ~timer'[f] PROVE Fine
  <2>1. call'[f] = NoCall
    BY <1>2 DEF Return, ControlOK
  <2> QED BY <1>1, <1>2, <2>1
<1>3. ASSUME NEW to, Goto(f, to), UNCHANGED call, InCall(f), pc[f] # "create",
             timer'[f] => call[f].timed,
             /\ call[f].op = "connect" => to \in {"ebadf", "try", "direct"} \cup ConnectPlaces
             /\ call[f].op \in IoOps =>
                   to \in {"try", "direct", "arm", "socket", "create"} \cup TimerPlaces
             /\ call[f].op = "sleep" => to \in WaitPlaces
             /\ call[f].op = "socket" => to \in {"socket", "create"}
             /\ call[f].op = "close" => to \in {"cancelAll", "del", "close_f"}
      PROVE  Fine
  <2>1. pc'[f] = to
    BY <1>3 DEF Goto, ControlOK
  <2>2. OnCourse(f)'
    BY <1>3, <2>1 DEF OnCourse, InCall
  <2>3. Given(f)'
    BY <1>3, <2>1 DEF Given, Connects, Asked
  <2> QED BY <2>2, <2>3
<1>4. ASSUME NEW loc, At(f, loc), loc # "app"
      PROVE  pc[f] = loc /\ InCall(f) /\ call[f].op \in WaitOps \cup {"sleep", "socket", "close"}
  BY <1>4, CallFields DEF At, ControlOK
<1>5. ASSUME NEW c \in Calls, Begin(f, c) PROVE Fine
  <2> DEFINE to == Entry(f, c)
  <2>1. /\ c.by = f /\ c.op \notin SetOps /\ c.fd \in Fds /\ c.ev \in Events
        /\ c.op \in WaitOps \cup {"sleep", "socket", "close"}
    BY <1>5, CallsAreCalls DEF Begin, CallType, Ops
  <2>2. pc'[f] = to
    BY <1>5 DEF Begin, Goto, ControlOK
  <2>3. /\ call'[f].op = c.op /\ call'[f].fd = c.fd /\ call'[f].ev = c.ev
        /\ call'[f].timed = Timed(c)
    BY <1>5 DEF Begin, ControlOK
  <2>4. /\ c.op = "sleep" => to \in {"done", "arm"}
        /\ c.op = "socket" => to = "socket"
        /\ c.op = "close" => to \in {"close_f", "cancelAll"}
        /\ c.op = "connect" => to \in {"ebadf", "try", "direct"}
        /\ c.op \in IoOps => to \in {"try", "direct"}
    BY DEF Entry, IoOps
  <2> HIDE DEF to
  <2>5. OnCourse(f)'
    BY <2>2, <2>3, <2>4 DEF OnCourse, WaitPlaces
  <2>6. c.op \in IoOps /\ Timed(c) => Asked(c.fd, c.ev)
    <3>1. c.op \in IoOps => Timed(c) = (get(c.fd) # NoCtx /\ get(c.fd).timed[c.ev])
      BY DEF Timed, IoOps
    <3>2. get(c.fd) # NoCtx => get(c.fd) = m_datas[c.fd]
      BY DEF get
    <3> QED BY <2>1, <3>1, <3>2 DEF TimeoutsAsked
  <2>7. ~timer'[f]
    BY <1>t, <1>5 DEF Begin, At, TimerPlaces
  <2>8. c.op = "connect" => Connects(f, c.fd, c.ev)
    BY <2>1 DEF Connects
  <2>9. Given(f)'
    BY <2>3, <2>6, <2>7, <2>8 DEF Given, Connects, Asked
  <2> QED BY <2>5, <2>9
<1>6. ASSUME Immediate(f) \/ CheckConnect(f) \/ CreateCtx(f) PROVE Fine
  <2>1. pc[f] \notin TimerPlaces /\ UNCHANGED timer /\ \E r : Return(f, r)
    BY <1>6 DEF Immediate, CheckConnect, CreateCtx, At, TimerPlaces
  <2> QED BY <1>t, <1>2, <2>1
<1>7. ASSUME Try(f) PROVE Fine
  <2>1. pc[f] \in {"try", "direct"} /\ InCall(f) /\ call[f].op \in WaitOps
    BY <1>4, <1>7 DEF Try, At, OnCourse, WaitPlaces
  <2>2. UNCHANGED timer /\ ~timer[f]
    BY <1>t, <1>7, <2>1 DEF Try, TimerPlaces
  <2>3. \/ \E r : Return(f, r)
        \/ Goto(f, "arm") /\ Stay(f)
        \/ call[f].op = "accept" /\ Goto(f, "socket") /\ Stay(f)
    BY <1>7 DEF Try
  <2>4. CASE \E r : Return(f, r)
    BY <1>2, <2>2, <2>4
  <2>5. CASE Goto(f, "arm") /\ Stay(f)
    BY <1>3, <2>1, <2>2, <2>5 DEF Stay, ConnectPlaces, WaitPlaces, WaitOps, IoOps
  <2>6. CASE call[f].op = "accept" /\ Goto(f, "socket") /\ Stay(f)
    BY <1>3, <2>1, <2>2, <2>6 DEF Stay
  <2> QED BY <2>3, <2>4, <2>5, <2>6
<1>8. ASSUME ArmTimer(f) PROVE Fine
  <2>1. pc[f] = "arm" /\ InCall(f) /\ call[f].op \in WaitOps \cup {"sleep"}
    BY <1>4, <1>8 DEF ArmTimer, OnCourse
  <2>2. timer'[f] => call[f].timed
    BY <1>8 DEF ArmTimer, RestOK
  <2>3. UNCHANGED call /\ Goto(f, IF call[f].op = "sleep" THEN "yield" ELSE "add")
    BY <1>8 DEF ArmTimer
  <2> QED BY <1>3, <2>1, <2>2, <2>3 DEF ConnectPlaces, TimerPlaces, WaitPlaces, WaitOps, IoOps
<1>9. ASSUME addEvent(f) PROVE Fine
  <2>1. pc[f] = "add" /\ InCall(f) /\ call[f].op \in WaitOps
    BY <1>4, <1>9 DEF addEvent, OnCourse, WaitPlaces
  <2>2. \/ UNCHANGED <<pc, call, timer>>
        \/ timer' = [timer EXCEPT ![f] = FALSE] /\ \E r : Return(f, r)
        \/ /\ timer' = [timer EXCEPT ![f] = FALSE] /\ call[f].op = "connect"
           /\ Goto(f, "check") /\ UNCHANGED call
        \/ UNCHANGED <<call, timer>> /\ Goto(f, "yield")
    BY <1>9 DEF addEvent, Stay
  <2>3. CASE UNCHANGED <<pc, call, timer>>
    BY <2>3 DEF OnCourse, Given, InCall, Connects, Asked
  <2>4. CASE timer' = [timer EXCEPT ![f] = FALSE] /\ \E r : Return(f, r)
    BY <1>2, <2>4 DEF RestOK
  <2>5. CASE /\ timer' = [timer EXCEPT ![f] = FALSE] /\ call[f].op = "connect"
             /\ Goto(f, "check") /\ UNCHANGED call
    <3>1. ~timer'[f]
      BY <2>5 DEF RestOK
    <3> QED BY <1>3, <2>1, <2>5, <3>1 DEF ConnectPlaces, IoOps
  <2>6. CASE UNCHANGED <<call, timer>> /\ Goto(f, "yield")
    <3>1. timer'[f] => call[f].timed
      BY <2>6 DEF Given
    <3> QED BY <1>3, <2>1, <2>6, <3>1 DEF ConnectPlaces, TimerPlaces, WaitOps, IoOps
  <2> QED BY <2>2, <2>3, <2>4, <2>5, <2>6
<1>10. ASSUME Yield(f) PROVE Fine
  <2>1. pc[f] = "yield" /\ InCall(f) /\ call[f].op \in WaitOps \cup {"sleep"}
    BY <1>4, <1>10 DEF Yield, OnCourse
  <2>2. Goto(f, "woke") /\ UNCHANGED <<call, timer>>
    BY <1>10 DEF Yield
  <2>3. timer'[f] => call[f].timed
    BY <2>2 DEF Given
  <2> QED BY <1>3, <2>1, <2>2, <2>3 DEF ConnectPlaces, TimerPlaces, WaitPlaces, WaitOps, IoOps
<1>11. ASSUME Woke(f) PROVE Fine
  <2>1. pc[f] = "woke" /\ InCall(f) /\ call[f].op \in WaitOps \cup {"sleep"}
    BY <1>4, <1>11 DEF Woke, OnCourse
  <2>2. ~timer'[f]
    BY <1>11 DEF Woke, RestOK
  <2>3. \/ \E r : Return(f, r)
        \/ /\ call[f].op # "sleep" /\ UNCHANGED call
           /\ Goto(f, IF call[f].op = "connect" THEN "check" ELSE "try")
    BY <1>11 DEF Woke, Stay
  <2>4. CASE \E r : Return(f, r)
    BY <1>2, <2>2, <2>4
  <2>5. CASE /\ call[f].op # "sleep" /\ UNCHANGED call
             /\ Goto(f, IF call[f].op = "connect" THEN "check" ELSE "try")
    BY <1>3, <2>1, <2>2, <2>5 DEF ConnectPlaces, WaitOps, IoOps
  <2> QED BY <2>3, <2>4, <2>5
<1>12. ASSUME SocketF(f) PROVE Fine
  <2>1. pc[f] = "socket" /\ InCall(f) /\ call[f].op \in IoOps \cup {"socket"} /\ call[f] \in CallRec
    BY <1>4, <1>12, CallFields DEF SocketF, OnCourse, WaitOps, WaitPlaces, ConnectPlaces, TimerPlaces
  <2>2. UNCHANGED timer /\ ~timer[f]
    BY <1>t, <1>12, <2>1 DEF SocketF, TimerPlaces
  <2>3. \/ \E r : Return(f, r)
        \/ \E fd \in Fds : Goto(f, "create") /\ call' = [call EXCEPT ![f].fd = fd]
    BY <1>12 DEF SocketF
  <2>4. ASSUME NEW fd \in Fds, Goto(f, "create"), call' = [call EXCEPT ![f].fd = fd] PROVE Fine
    <3>1. pc'[f] = "create" /\ call'[f] = [call[f] EXCEPT !.fd = fd]
      BY <2>4 DEF Goto, ControlOK
    <3>2. call'[f].op = call[f].op /\ call'[f].op # "connect"
      BY <2>1, <3>1 DEF CallRec, IoOps
    <3>3. OnCourse(f)'
      BY <2>1, <3>1, <3>2 DEF OnCourse, IoOps
    <3>4. Given(f)'
      BY <2>2, <3>1, <3>2 DEF Given
    <3> QED BY <3>3, <3>4
  <2> QED BY <1>2, <2>2, <2>3, <2>4
<1>13. ASSUME CancelAll(f) \/ DelCtx(f) PROVE Fine
  <2>1. /\ pc[f] \in {"cancelAll", "del"} /\ InCall(f)
        /\ call[f].op \in WaitOps \cup {"sleep", "socket", "close"}
    BY <1>4, <1>13 DEF CancelAll, DelCtx
  <2>2. call[f].op = "close"
    BY <2>1 DEF OnCourse, WaitOps, WaitPlaces, ConnectPlaces, TimerPlaces
  <2>3. UNCHANGED <<call, timer>> /\ ~timer[f]
    BY <1>t, <1>13, <2>1 DEF CancelAll, DelCtx, TimerPlaces
  <2>4. \E to \in {"del", "close_f"} : Goto(f, to)
    BY <1>13 DEF CancelAll, DelCtx
  <2> QED BY <1>3, <2>1, <2>2, <2>3, <2>4 DEF IoOps
<1>14. ASSUME CloseF(f) PROVE Fine
  <2>1. call'[f] = NoCall /\ UNCHANGED timer /\ ~timer[f]
    BY <1>t, <1>14 DEF CloseF, At, TimerPlaces
  <2> QED BY <1>1, <2>1
<1>15. ASSUME Exit(f) PROVE Fine
  BY <1>15 DEF Exit, OnCourse, Given, InCall, Connects, Asked
<1> HIDE DEF Fine
<1>16. Fine
  BY <1>5, <1>6, <1>7, <1>8, <1>9, <1>10, <1>11, <1>12, <1>13, <1>14, <1>15 DEF FiberStep
<1> QED BY <1>16 DEF Fine

\* A fiber that does not take the step keeps its course.
LEMMA CourseStays ==
    ASSUME HookInv, NEW g \in Fibers, OnCourse(g), Given(g), Stays(g), timer'[g] => timer[g]
    PROVE  OnCourse(g)' /\ Given(g)'
<1>1. OnCourse(g)'
  BY DEF OnCourse, Stays
<1>2. call[g].op \in WaitOps \cup IoOps => InCall(g)
  BY DEF InCall, NoCall, WaitOps, IoOps
<1>3. call[g].op = "connect" => Connects(g, call[g].fd, call[g].ev)'
  BY DEF Given, Stays, Connects
<1>4. timer[g] => InCall(g)
  BY DEF HookInv, WaitInv, TimerHeld
<1> QED BY <1>1, <1>2, <1>3, <1>4 DEF Given, Stays, Asked

\* The callbacks that a step leaves: the old ones, one of a timer that is due, and one
\* that has marked its call and is about to cancel.
Due(f) == [of |-> f, id |-> left[f], op |-> call[f].op, fd |-> call[f].fd,
           ev |-> call[f].ev, stage |-> "due"]
Marked(c) == [c EXCEPT !.stage = "cancel"]

LEMMA Callbacks ==
    ASSUME HookInv, [Next]_vars, NEW c \in cbs'
    PROVE  \/ c \in cbs
           \/ \E f \in Fibers : timer[f] /\ c = Due(f)
           \/ \E d \in cbs : /\ d.op # "sleep" /\ c = Marked(d) /\ RunCallback(d)
                             /\ InCall(d.of) /\ cancelled' = [cancelled EXCEPT ![d.of] = TRUE]
<1>1. ASSUME NEW f \in Fibers, NEW k \in Calls, Begin(f, k) \/ Set(f, k) PROVE UNCHANGED cbs
  BY <1>1 DEF Begin, Set
<1>2. ASSUME NEW f \in Fibers, Resume(f) \/ FiberStep(f) PROVE UNCHANGED cbs
  BY <1>2 DEF Resume, FiberStep, Immediate, Try, ArmTimer, addEvent, Yield, Woke, CheckConnect,
              SocketF, CreateCtx, CancelAll, DelCtx, CloseF, Exit
<1>3. ASSUME NEW fd \in Fds, Poll(fd) PROVE UNCHANGED cbs
  BY <1>3 DEF Poll
<1>4. ASSUME NEW f \in Fibers, Expire(f) PROVE c \in cbs \/ (timer[f] /\ c = Due(f))
  BY <1>4 DEF Expire, Due
<1>5. ASSUME NEW d \in cbs, RunCallback(d), c \notin cbs
      PROVE  /\ d.op # "sleep" /\ c = Marked(d) /\ InCall(d.of)
             /\ cancelled' = [cancelled EXCEPT ![d.of] = TRUE]
  BY <1>5 DEF RunCallback, Mark, Marked
<1>6. ASSUME NEW d \in cbs, CallbackCancel(d) PROVE c \in cbs
  BY <1>6 DEF CallbackCancel
<1>7. ASSUME Environment \/ UNCHANGED vars PROVE UNCHANGED cbs
  BY <1>7 DEF Environment, Arrive, ConnectEnds, ConnectTimeoutChanged, vars
<1> QED BY <1>1, <1>2, <1>3, <1>4, <1>5, <1>6, <1>7 DEF Next, ManagerStep

\* Only its own step arms the timer of a fiber.
LEMMA TimerArmed ==
    ASSUME HookInv, [Next]_vars, NEW g \in Fibers, timer'[g], ~timer[g]
    PROVE  FiberStep(g)
<1>1. ASSUME NEW f \in Fibers, NEW k \in Calls, Begin(f, k) \/ Set(f, k) PROVE UNCHANGED timer
  BY <1>1 DEF Begin, Set
<1>2. ASSUME NEW f \in Fibers, FiberStep(f) PROVE UNCHANGED timer \/ \E x : timer' = [timer EXCEPT ![f] = x]
  BY <1>2 DEF FiberStep, Immediate, Try, ArmTimer, addEvent, Yield, Woke, CheckConnect,
              SocketF, CreateCtx, CancelAll, DelCtx, CloseF, Exit
<1>3. ASSUME NEW f \in Fibers, Resume(f) PROVE UNCHANGED timer
  BY <1>3 DEF Resume
<1>4. ASSUME ManagerStep PROVE UNCHANGED timer \/ \E f \in Fibers : timer' = [timer EXCEPT ![f] = FALSE]
  BY <1>4 DEF ManagerStep, Poll, Expire, RunCallback, CallbackCancel
<1>5. ASSUME Environment \/ UNCHANGED vars PROVE UNCHANGED timer
  BY <1>5 DEF Environment, Arrive, ConnectEnds, ConnectTimeoutChanged, vars, fiber
<1>6. timer \in [Fibers -> BOOLEAN]
  BY DEF HookInv, Typed, RestOK
<1> QED BY <1>1, <1>2, <1>3, <1>4, <1>5, <1>6 DEF Next

\* Every step keeps all of it.
LEMMA GivenStep ==
    ASSUME OrphanInv, GivenInv, [Next]_vars
    PROVE  GivenInv'
<1> USE DEF OrphanInv, HookInv, GivenInv
<1>1. TimeoutsAsked'
  BY AskedStep
<1>2. \A fd \in Fds : Silent(fd)'
  <2> SUFFICES ASSUME NEW fd \in Fds PROVE Silent(fd)'
    OBVIOUS
  <2>1. Touched(fd) /\ Silent(fd)
    BY KernMoves
  <2> QED BY <2>1 DEF Touched, KernKeeps, Opens, Closes, Decides, Arrives, Dials, Silent
<1> DEFINE Course == /\ cancelled' \in [Fibers -> BOOLEAN]
                     /\ \A g \in Fibers : OnCourse(g)' /\ Given(g)'
<1>3. Course
  <2>1. ASSUME NEW f \in Fibers, (\E c \in Calls : Begin(f, c)) \/ FiberStep(f) PROVE Course
    <3>1. cancelled' \in [Fibers -> BOOLEAN] /\ \A g \in Fibers \ {f} : Stays(g)
      BY <2>1, OthersStay
    <3>2. OnCourse(f)' /\ Given(f)'
      BY <2>1, CourseStep
    <3>3. ASSUME NEW g \in Fibers \ {f} PROVE timer'[g] => timer[g]
      <4>1. CASE FiberStep(f)
        <5>1. UNCHANGED timer \/ \E x : timer' = [timer EXCEPT ![f] = x]
          BY <4>1 DEF FiberStep, Immediate, Try, ArmTimer, addEvent, Yield, Woke, CheckConnect,
                      SocketF, CreateCtx, CancelAll, DelCtx, CloseF, Exit
        <5> QED BY <3>3, <5>1 DEF Typed, RestOK
      <4>2. CASE \E c \in Calls : Begin(f, c)
        BY <4>2 DEF Begin
      <4> QED BY <2>1, <4>1, <4>2
    <3>4. \A g \in Fibers \ {f} : OnCourse(g)' /\ Given(g)'
      BY <3>1, <3>3, CourseStays
    <3> QED BY <3>1, <3>2, <3>4
  <2>2. CASE \/ \E f \in Fibers : Resume(f) \/ \E c \in Calls : Set(f, c)
             \/ ManagerStep \/ Environment \/ UNCHANGED vars
    <3>1. cancelled' \in [Fibers -> BOOLEAN] /\ \A g \in Fibers : Stays(g)
      BY <2>2, AllStay
    <3>2. UNCHANGED timer \/ \E f \in Fibers : timer' = [timer EXCEPT ![f] = FALSE]
      BY <2>2 DEF Resume, Set, ManagerStep, Poll, Expire, RunCallback, CallbackCancel, Environment,
                  Arrive, ConnectEnds, ConnectTimeoutChanged, vars, fiber
    <3>3. \A g \in Fibers : timer'[g] => timer[g]
      BY <3>2 DEF Typed, RestOK
    <3> QED BY <3>1, <3>3, CourseStays
  <2> QED BY <2>1, <2>2 DEF Next
<1>4. \A c \in cbs' : CbGiven(c)'
  <2> SUFFICES ASSUME NEW c \in cbs' PROVE CbGiven(c)'
    OBVIOUS
  <2>1. CbGiven(c)' <=> CbGiven(c)
    BY ConfigStays DEF CbGiven, Connects, Asked, config
  <2>2. CASE c \in cbs
    BY <2>1, <2>2
  <2>3. ASSUME NEW f \in Fibers, timer[f], c = Due(f) PROVE CbGiven(c)
    <3>1. InCall(f) /\ pc[f] \in TimerPlaces /\ call[f].timed
      BY <2>3 DEF WaitInv, TimerHeld, Given, TimerPlaces
    <3>2. t_hook_enable[f]
      BY <3>1 DEF Placed, OutsidePlaces, TimerPlaces
    <3>3. call[f].op \in WaitOps \cup {"sleep", "socket", "close"}
      BY <3>1 DEF Typed, ControlOK, InCall, CallRec
    <3>4. call[f].op \in WaitOps \cup {"sleep"} /\ pc[f] # "create"
      BY <3>1, <3>3 DEF OnCourse, TimerPlaces
    <3> QED BY <2>3, <3>1, <3>2, <3>4 DEF CbGiven, Due, Given
  <2>4. ASSUME NEW d \in cbs, d.op # "sleep", c = Marked(d) PROVE CbGiven(c)
    <3>1. d \in CbRec /\ CbGiven(d)
      BY DEF Typed, RestOK
    <3>2. c.of = d.of /\ c.op = d.op /\ c.fd = d.fd /\ c.ev = d.ev
      BY <2>4, <3>1 DEF CbRec, Marked
    <3> QED BY <2>4, <3>1, <3>2 DEF CbGiven
  <2> QED BY <2>1, <2>2, <2>3, <2>4, Callbacks
<1> QED BY <1>1, <1>2, <1>3, <1>4

\* Only the scheduler gives a fiber its thread.
LEMMA NoThreadStep ==
    ASSUME HookInv, IsFiniteSet(cbs), NoThread, [Next]_vars
    PROVE  NoThread'
<1> USE DEF HookInv, Typed
<1> SUFFICES ASSUME m_threadCount = 0, NEW g \in Fibers, t_hook_enable[g], st'[g] = "run"
             PROVE  FALSE
  BY ConfigStays DEF NoThread, Runs, config
<1>1. st[g] # "run"
  BY DEF NoThread, Runs
<1>2. ASSUME NEW S, Wake(S) PROVE FALSE
  BY <1>1, <1>2 DEF Wake
<1>3. ASSUME NEW fd, NEW es, cancelEvent(fd, es) \/ trigger(fd, es) PROVE UNCHANGED st
  BY <1>2, <1>3 DEF cancelEvent, trigger
<1>4. ASSUME NEW f \in Fibers, NEW c \in Calls, Begin(f, c) \/ Set(f, c) PROVE UNCHANGED st
  BY <1>4 DEF Begin, Set
<1>5. ASSUME NEW f \in Fibers, FiberStep(f) PROVE UNCHANGED st \/ st'[g] \in {"ready", "hold", "end"}
  <2>1. CASE Yield(f) \/ Exit(f)
    BY <1>1, <2>1 DEF Yield, Exit, ThreadsOK
  <2>2. CASE CancelAll(f)
    BY <1>3, <2>2 DEF CancelAll
  <2>3. CASE \/ Immediate(f) \/ Try(f) \/ ArmTimer(f) \/ addEvent(f) \/ Woke(f) \/ CheckConnect(f)
             \/ SocketF(f) \/ CreateCtx(f) \/ DelCtx(f) \/ CloseF(f)
    BY <2>3 DEF Immediate, Try, ArmTimer, addEvent, Woke, CheckConnect, SocketF, CreateCtx,
                DelCtx, CloseF
  <2> QED BY <1>5, <2>1, <2>2, <2>3 DEF FiberStep
<1>6. ASSUME NEW f \in Fibers, Resume(f) PROVE FALSE
  <2>1. FreeThread
    BY <1>1, <1>6 DEF Resume, ThreadsOK
  <2> DEFINE A == {h \in Fibers : t_hook_enable[h] /\ st[h] = "run"}
             B == {c \in cbs : c.stage = "cancel"}
  <2>2. IsFiniteSet(A) /\ IsFiniteSet(B)
    BY FiniteFibers, FS_Subset
  <2>3. Cardinality(A) + Cardinality(B) < 0
    BY <2>1 DEF FreeThread
  <2> HIDE DEF A, B
  <2>4. Cardinality(A) \in Nat /\ Cardinality(B) \in Nat
    BY <2>2, FS_CardinalityType
  <2> QED BY <2>3, <2>4
<1>7. ASSUME ManagerStep PROVE UNCHANGED st
  BY <1>2, <1>3, <1>7 DEF ManagerStep, Poll, Expire, RunCallback, CallbackCancel
<1>8. ASSUME Environment \/ UNCHANGED vars PROVE UNCHANGED st
  BY <1>8 DEF Environment, Arrive, ConnectEnds, ConnectTimeoutChanged, vars, fiber
<1> QED BY <1>1, <1>4, <1>5, <1>6, <1>7, <1>8 DEF Next

\* A fiber that has no thread stays where it is.
LEMMA IdleStays ==
    ASSUME HookInv, cancelled \in [Fibers -> BOOLEAN], [Next]_vars,
           NEW g \in Fibers, st[g] # "run"
    PROVE  Stays(g)
<1>1. ASSUME NEW f \in Fibers, (\E c \in Calls : Begin(f, c)) \/ FiberStep(f) PROVE Stays(g)
  <2>1. st[f] = "run" /\ \A h \in Fibers \ {f} : Stays(h)
    BY <1>1, OthersStay
  <2> QED BY <2>1
<1>2. CASE \/ \E f \in Fibers : Resume(f) \/ \E c \in Calls : Set(f, c)
           \/ ManagerStep \/ Environment \/ UNCHANGED vars
  BY <1>2, AllStay
<1> QED BY <1>1, <1>2 DEF Next

\* A callback that cancels has the only thread, so that the call it has marked cannot end.
LEMMA CancellingStep ==
    ASSUME ConnectInv, m_threadCount = 1, [Next]_vars
    PROVE  \A c \in cbs' : Cancelling(c)'
<1> USE DEF ConnectInv, OrphanInv, HookInv, GivenInv
<1> SUFFICES ASSUME NEW c \in cbs', c.stage = "cancel" PROVE InCall(c.of)' /\ cancelled'[c.of]
  BY DEF Cancelling
<1>1. CASE c \in cbs
  <2>1. InCall(c.of) /\ cancelled[c.of] /\ c.of \in Fibers
    BY <1>1 DEF Cancelling, Typed, RestOK, CbRec
  <2>2. st[c.of] # "run"
    BY <1>1, <2>1 DEF CbGiven, OneThread, Runs
  <2> QED BY <2>1, <2>2, IdleStays DEF Stays
<1>2. ASSUME NEW f \in Fibers, c = Due(f) PROVE FALSE
  BY <1>2 DEF Due
<1>3. ASSUME NEW d \in cbs, c = Marked(d), RunCallback(d), InCall(d.of),
             cancelled' = [cancelled EXCEPT ![d.of] = TRUE]
      PROVE  InCall(c.of)' /\ cancelled'[c.of]
  <2>1. c.of = d.of /\ d.of \in Fibers
    BY <1>3 DEF Marked, Typed, RestOK, CbRec
  <2>2. Stays(d.of)
    BY <1>3, <2>1, AllStay DEF ManagerStep
  <2> QED BY <1>3, <2>1, <2>2 DEF Stays
<1> QED BY <1>1, <1>2, <1>3, Callbacks

\* What takes the waiter of an event away.
LEMMA WaiterLeaves ==
    ASSUME HookInv, [Next]_vars, NEW fd \in Fds, NEW e \in Events,
           waiter[fd][e] # NoFiber, waiter'[fd][e] # waiter[fd][e]
    PROVE  \/ Poll(fd) /\ e \in kern[fd].ready
           \/ \E c \in cbs : CallbackCancel(c) /\ c.fd = fd /\ c.ev = e
           \/ \E g \in Fibers : CancelAll(g) /\ call[g].fd = fd
<1> USE DEF HookInv, Typed
<1>1. ASSUME NEW g \in Fds, NEW es, trigger(g, es) PROVE g = fd /\ e \in es
  <2>1. waiter' = [waiter EXCEPT ![g] = [x \in Events |-> IF x \in es THEN NoFiber ELSE @[x]]]
    BY <1>1 DEF trigger
  <2> QED BY <2>1 DEF ThreadsOK
<1>2. ASSUME NEW f \in Fibers, NEW c \in Calls, Begin(f, c) \/ Set(f, c) PROVE FALSE
  BY <1>2 DEF Begin, Set
<1>3. ASSUME NEW f \in Fibers,
             \/ Resume(f) \/ Immediate(f) \/ Try(f) \/ ArmTimer(f) \/ Yield(f) \/ Woke(f)
             \/ CheckConnect(f) \/ SocketF(f) \/ CreateCtx(f) \/ DelCtx(f) \/ CloseF(f) \/ Exit(f)
             \/ Expire(f)
      PROVE  FALSE
  BY <1>3 DEF Resume, Immediate, Try, ArmTimer, Yield, Woke, CheckConnect, SocketF, CreateCtx,
              DelCtx, CloseF, Exit, Expire
<1>4. ASSUME NEW f \in Fibers, addEvent(f) PROVE FALSE
  <2>1. \/ UNCHANGED waiter
        \/ /\ waiter[call[f].fd][call[f].ev] = NoFiber
           /\ waiter' = [waiter EXCEPT ![call[f].fd][call[f].ev] = f]
    BY <1>4 DEF addEvent
  <2>2. call[f].fd \in Fds /\ call[f].ev \in Events
    BY <1>4, CallFields DEF addEvent, At
  <2> QED BY <2>1, <2>2 DEF ThreadsOK
<1>5. ASSUME NEW f \in Fibers, CancelAll(f) PROVE call[f].fd = fd
  <2>1. call[f].fd \in Fds
    BY <1>5, CallFields DEF CancelAll, At
  <2>2. \E es : trigger(call[f].fd, es)
    BY <1>5 DEF CancelAll, cancelEvent
  <2> QED BY <1>1, <2>1, <2>2
<1>6. ASSUME NEW g \in Fds, Poll(g) PROVE g = fd /\ e \in kern[fd].ready
  BY <1>1, <1>6 DEF Poll
<1>7. ASSUME NEW c \in cbs, RunCallback(c) PROVE FALSE
  BY <1>7 DEF RunCallback
<1>8. ASSUME NEW c \in cbs, CallbackCancel(c) PROVE c.fd = fd /\ c.ev = e
  <2>1. c.fd \in Fds
    BY DEF RestOK, CbRec
  <2>2. trigger(c.fd, Waited(c.fd) \cap {c.ev})
    BY <1>8 DEF CallbackCancel, cancelEvent
  <2> QED BY <1>1, <2>1, <2>2
<1>9. CASE Environment \/ UNCHANGED vars
  BY <1>9 DEF Environment, Arrive, ConnectEnds, ConnectTimeoutChanged, vars
<1> QED BY <1>2, <1>3, <1>4, <1>5, <1>6, <1>7, <1>8, <1>9 DEF Next, FiberStep, ManagerStep

\* No step takes a handle out of outside.
LEMMA OutsideGrows ==
    ASSUME HookInv, [Next]_vars
    PROVE  outside \subseteq outside'
<1>1. ASSUME NEW f \in Fibers, Configures(f) PROVE outside \subseteq outside'
  BY <1>1 DEF Configures, SocketF, CreateCtx, CloseF, Set
<1>2. CASE \A f \in Fibers : ~Configures(f)
  BY <1>2, ModeQuiet
<1> QED BY <1>1, <1>2

\* Another call about the event of f's connect is a timeout somebody else can let expire.
LEMMA OnlyConnect ==
    ASSUME NEW f \in Fibers, NEW fd, ~OtherTimeout(f, fd)
    PROVE  /\ ~Asked(fd, "WRITE")
           /\ \A g, e : Connects(g, fd, e) => g = f /\ e = "WRITE"
BY ConnectsWrite DEF OtherTimeout, Asked, Connects

\* The steps of the others leave an undisturbed connect as it is, or decide it.
LEMMA ConnectingStays ==
    ASSUME ConnectInv, m_threadCount = 1, [Next]_vars, NEW f \in Fibers, Stays(f)
    PROVE  Connecting(f)'
<1> USE DEF ConnectInv, OrphanInv, HookInv, GivenInv
<1> SUFFICES ASSUME call'[f].op = "connect", pc'[f] \in ConnectPlaces, Undisturbed(f)'
             PROVE  Connecting(f)'
  BY DEF Connecting
<1>0. PICK fd, ev : fd = call[f].fd /\ ev = call[f].ev
  OBVIOUS
<1>1. /\ pc'[f] = pc[f] /\ call[f].op = "connect" /\ pc[f] \in ConnectPlaces
      /\ call'[f].fd = fd /\ call'[f].ev = ev /\ InCall(f) /\ fd \in Fds /\ ev \in Events
  <2>1. call[f].op = "connect" /\ pc[f] \in ConnectPlaces
    BY DEF Stays
  <2>2. pc[f] # "app"
    BY <2>1 DEF ConnectPlaces, TimerPlaces
  <2> QED BY <1>0, <2>1, <2>2, CallFields DEF Stays, Typed, ControlOK
<1>2. ~call'[f].lost /\ ~call[f].lost /\ fd \notin outside /\ ~OtherTimeout(f, fd)
  <2>1. ~call'[f].lost /\ fd \notin outside' /\ ~OtherTimeout(f, fd)
    BY <1>1 DEF Undisturbed, OtherTimeout
  <2> QED BY <1>1, <2>1, OutsideGrows DEF Stays
<1>3. /\ Begun(fd) /\ (pc[f] \in {"yield", "woke"} => Roused(f))
      /\ pc[f] = "check" => Decided(fd)
  BY <1>0, <1>1, <1>2 DEF Connecting, Undisturbed
<1>4. ev = "WRITE" /\ ~Asked(fd, "WRITE") /\ \A g, e : Connects(g, fd, e) => g = f /\ e = "WRITE"
  <2>1. Connects(f, fd, ev)
    BY <1>0, <1>1 DEF Given
  <2> QED BY <1>2, <2>1, OnlyConnect
<1>5. ASSUME NEW g \in Fibers, CloseF(g), call[g].fd = fd PROVE FALSE
  <2>1. g # f
    BY <1>1, <1>5 DEF CloseF, At, ConnectPlaces, TimerPlaces
  <2>2. call'[f] = [call[f] EXCEPT !.lost = TRUE] /\ call[f] \in CallRec
    BY <1>0, <1>1, <1>5, <2>1 DEF CloseF, Typed, ControlOK, InCall
  <2> QED BY <1>2, <2>2 DEF CallRec
<1>6. Begun(fd)' /\ (Decided(fd) => Decided(fd)')
  <2>1. ~\E g \in Fibers : Dials(g, fd)
    <3> SUFFICES ASSUME NEW g \in Fibers, Dials(g, fd) PROVE FALSE
      OBVIOUS
    <3>1. g = f
      BY <1>4 DEF Dials, Given
    <3> QED BY <1>1, <3>1 DEF Dials, Try, At, ConnectPlaces, TimerPlaces
  <2>2. ~Closes(fd)
    BY <1>5 DEF Closes
  <2>3. KernKeeps(fd) \/ Opens(fd) \/ Decides(fd) \/ Arrives(fd)
    BY <1>1, <2>1, <2>2, KernMoves DEF Touched
  <2> QED BY <1>3, <2>3 DEF Begun, Decided, KernKeeps, Opens, Decides, Arrives
<1>7. ASSUME pc[f] \in {"yield", "woke"} PROVE Roused(f)'
  <2>1. CASE Decided(fd) \/ cancelled[f]
    BY <1>1, <1>6, <2>1 DEF Roused, Stays
  <2>2. CASE Closing(fd)
    <3>1. PICK g \in Fibers : t_hook_enable[g] /\ pc[g] \in {"del", "close_f"} /\ call[g].fd = fd
      BY <2>2 DEF Closing
    <3>2. Closing(fd)'
      <4>1. t_hook_enable'[g]
        BY <3>1, ConfigStays DEF config
      <4>2. CASE Stays(g)
        BY <3>1, <4>1, <4>2 DEF Stays, Closing
      <4>3. CASE DelCtx(g)
        <5>1. pc'[g] = "close_f" /\ call'[g].fd = fd
          BY <3>1, <4>3 DEF DelCtx, Goto, Typed, ControlOK
        <5> QED BY <4>1, <5>1 DEF Closing
      <4>4. Stays(g) \/ DelCtx(g)
        <5>1. CASE \E h \in Fibers : (\E c \in Calls : Begin(h, c)) \/ FiberStep(h)
          <6>1. PICK h \in Fibers : (\E c \in Calls : Begin(h, c)) \/ FiberStep(h)
            BY <5>1
          <6>2. CASE h # g
            BY <6>1, <6>2, OthersStay
          <6>3. CASE h = g
            BY <1>5, <3>1, <6>1, <6>3 DEF Begin, FiberStep, Immediate, Try, ArmTimer, addEvent,
               Yield, Woke, CheckConnect, SocketF, CreateCtx, CancelAll, Exit, At
          <6> QED BY <6>2, <6>3
        <5>2. CASE \/ \E h \in Fibers : Resume(h) \/ \E c \in Calls : Set(h, c)
                   \/ ManagerStep \/ Environment \/ UNCHANGED vars
          BY <5>2, AllStay
        <5> QED BY <5>1, <5>2 DEF Next
      <4> QED BY <4>2, <4>3, <4>4
    <3> QED BY <1>1, <3>2 DEF Roused
  <2>3. CASE waiter[fd][ev] = f /\ waiter'[fd][ev] # f
    <3>1. waiter[fd][ev] # NoFiber
      BY <2>3, NullsAreNot
    <3>2. CASE Poll(fd) /\ ev \in kern[fd].ready
      <4>1. Decided(fd)
        BY <1>1, <3>2 DEF Silent, Decided
      <4> QED BY <1>1, <1>6, <4>1 DEF Roused
    <3>3. ASSUME NEW c \in cbs, CallbackCancel(c), c.fd = fd, c.ev = ev PROVE Roused(f)'
      <4>1. c.op = "connect" /\ c.stage = "cancel"
        BY <1>4, <3>3 DEF CbGiven, CallbackCancel, WaitOps
      <4>2. c.of = f
        BY <1>4, <3>3, <4>1 DEF CbGiven
      <4>3. cancelled[f]
        BY <3>3, <4>1, <4>2 DEF Cancelling
      <4> QED BY <1>1, <4>3 DEF Roused, Stays
    <3>4. ASSUME NEW g \in Fibers, CancelAll(g), call[g].fd = fd PROVE Roused(f)'
      <4>1. pc[g] = "cancelAll" /\ pc'[g] = "del" /\ UNCHANGED <<call, config>>
        BY <3>4 DEF CancelAll, At, Goto, Typed, ControlOK
      <4>2. t_hook_enable'[g]
        BY <4>1 DEF Placed, OutsidePlaces, config
      <4>3. Closing(fd)'
        BY <3>4, <4>1, <4>2 DEF Closing
      <4> QED BY <1>1, <4>3 DEF Roused
    <3> QED BY <1>1, <2>3, <3>1, <3>2, <3>3, <3>4, WaiterLeaves
  <2>4. CASE waiter[fd][ev] = f /\ waiter'[fd][ev] = f
    BY <1>1, <2>4 DEF Roused
  <2>5. waiter[fd][ev] = f \/ Decided(fd) \/ cancelled[f] \/ Closing(fd)
    BY <1>0, <1>3, <1>7 DEF Roused
  <2> QED BY <2>1, <2>2, <2>3, <2>4, <2>5
<1> QED BY <1>1, <1>3, <1>6, <1>7 DEF Connecting

\* The fiber's own steps: it is registered before it yields, since its handle is open and
\* watched, and it asks for SO_ERROR only once the connection has been decided.
LEMMA ConnectingMoves ==
    ASSUME ConnectInv, m_threadCount = 1, [Next]_vars, NEW f \in Fibers,
           (\E c \in Calls : Begin(f, c)) \/ FiberStep(f)
    PROVE  Connecting(f)'
<1> USE DEF ConnectInv, OrphanInv, HookInv, GivenInv, Typed
<1> SUFFICES ASSUME call'[f].op = "connect", pc'[f] \in ConnectPlaces, Undisturbed(f)'
             PROVE  Connecting(f)'
  BY DEF Connecting
<1>a. NoCall.op # "connect"
  BY DEF NoCall
<1>b. ASSUME NEW r, Return(f, r) PROVE FALSE
  <2>1. call'[f] = NoCall
    BY <1>b DEF Return, ControlOK
  <2> QED BY <1>a, <2>1
<1>c. ASSUME NEW to, Goto(f, to) PROVE pc'[f] = to
  BY <1>c DEF Goto, ControlOK
<1>d. ASSUME UNCHANGED call, pc[f] \in ConnectPlaces
      PROVE  /\ call[f].op = "connect" /\ Undisturbed(f) /\ InCall(f)
             /\ call[f].fd \in Fds /\ call[f].ev \in Events
             /\ Begun(call[f].fd) /\ (pc[f] \in {"yield", "woke"} => Roused(f))
             /\ st[f] = "run" => Runs(f)
  <2>1. outside \subseteq outside' /\ pc[f] # "app"
    BY <1>d, OutsideGrows DEF ConnectPlaces, TimerPlaces
  <2>2. call[f].op = "connect" /\ Undisturbed(f)
    BY <1>d, <2>1 DEF Undisturbed, OtherTimeout
  <2>3. t_hook_enable[f]
    BY <1>d DEF Placed, OutsidePlaces, ConnectPlaces, TimerPlaces
  <2> QED BY <1>d, <2>1, <2>2, <2>3, CallFields DEF Connecting, Runs, ControlOK
<1>1. ASSUME NEW c \in Calls, Begin(f, c) PROVE FALSE
  <2>1. call'[f].op = c.op /\ pc'[f] = Entry(f, c)
    BY <1>1, <1>c DEF Begin, ControlOK
  <2>2. c.op = "connect" => Entry(f, c) \in {"ebadf", "try", "direct"}
    BY DEF Entry
  <2> QED BY <2>1, <2>2 DEF ConnectPlaces, TimerPlaces
<1>2. ASSUME Immediate(f) \/ CheckConnect(f) \/ CreateCtx(f) PROVE FALSE
  <2>1. \E r : Return(f, r)
    BY <1>2 DEF Immediate, CheckConnect, CreateCtx
  <2> QED BY <1>b, <2>1
<1>3. ASSUME SocketF(f) PROVE FALSE
  <2>1. (\E r : Return(f, r)) \/ Goto(f, "create")
    BY <1>3 DEF SocketF
  <2> QED BY <1>b, <1>c, <2>1 DEF ConnectPlaces, TimerPlaces
<1>4. ASSUME CancelAll(f) \/ DelCtx(f) \/ CloseF(f) PROVE FALSE
  <2>1. \E to \in {"del", "close_f", "app"} : Goto(f, to)
    BY <1>4 DEF CancelAll, DelCtx, CloseF
  <2> QED BY <1>c, <2>1 DEF ConnectPlaces, TimerPlaces
<1>5. ASSUME Exit(f) PROVE FALSE
  BY <1>5 DEF Exit, At, ConnectPlaces, TimerPlaces
<1>6. ASSUME Try(f) PROVE Connecting(f)'
  <2>1. (\E r : Return(f, r)) \/ Goto(f, "socket") \/ (Goto(f, "arm") /\ Stay(f))
    BY <1>6 DEF Try
  <2>2. pc'[f] = "arm" /\ UNCHANGED call
    BY <1>b, <1>c, <2>1 DEF ConnectPlaces, TimerPlaces, Stay
  <2>3. /\ kern[call[f].fd].open
        /\ kern' = [kern EXCEPT ![call[f].fd].conn = "going", ![call[f].fd].ready = {}]
    BY <1>6, <1>b, <1>c, <2>2 DEF Try, IoOps
  <2>4. call[f].fd \in Fds
    BY <1>6, CallFields DEF Try, At
  <2>5. kern'[call[f].fd].open /\ kern'[call[f].fd].conn = "going"
    BY <2>3, <2>4 DEF KernOK, KernRec
  <2> QED BY <2>2, <2>5 DEF Connecting, Begun
<1>7. ASSUME ArmTimer(f) PROVE Connecting(f)'
  <2>1. pc[f] = "arm" /\ UNCHANGED <<call, kern>>
    BY <1>7 DEF ArmTimer, At
  <2>2. call[f].op = "connect" /\ Begun(call[f].fd)
    BY <1>d, <2>1 DEF ConnectPlaces
  <2>3. pc'[f] = "add"
    BY <1>7, <1>c, <2>2 DEF ArmTimer
  <2> QED BY <2>1, <2>2, <2>3 DEF Connecting, Begun
<1>8. ASSUME addEvent(f) PROVE Connecting(f)'
  <2> DEFINE fd == call[f].fd
             ev == call[f].ev
  <2>1. pc[f] = "add"
    BY <1>8 DEF addEvent, At
  <2>2. \/ UNCHANGED <<waiter, kern, pc, call>>
        \/ ~kern[fd].open \/ (Waited(fd) # {} /\ ~kern[fd].watched)
        \/ /\ waiter' = [waiter EXCEPT ![fd][ev] = f]
           /\ kern' = [kern EXCEPT ![fd].watched = TRUE]
           /\ Goto(f, "yield") /\ UNCHANGED call
    BY <1>8 DEF addEvent
  <2>3. UNCHANGED call
    BY <1>8, <1>b DEF addEvent, Stay
  <2>4. /\ call[f].op = "connect" /\ Undisturbed(f) /\ fd \in Fds /\ ev \in Events /\ Begun(fd)
    BY <1>d, <2>1, <2>3 DEF ConnectPlaces, TimerPlaces
  <2>5. CASE UNCHANGED <<waiter, kern, pc, call>>
    BY <2>1, <2>4, <2>5 DEF Connecting, Begun
  <2>6. CASE ~kern[fd].open \/ (Waited(fd) # {} /\ ~kern[fd].watched)
    BY <2>4, <2>6 DEF Begun, CloseInv, Watched, Undisturbed
  <2>7. CASE /\ waiter' = [waiter EXCEPT ![fd][ev] = f]
             /\ kern' = [kern EXCEPT ![fd].watched = TRUE]
             /\ Goto(f, "yield") /\ UNCHANGED call
    <3>1. pc'[f] = "yield"
      BY <1>c, <2>7
    <3>2. waiter'[fd][ev] = f
      BY <2>4, <2>7 DEF ThreadsOK
    <3>3. kern'[fd].open = kern[fd].open /\ kern'[fd].conn = kern[fd].conn
      BY <2>4, <2>7 DEF KernOK, KernRec
    <3> QED BY <2>3, <2>4, <3>1, <3>2, <3>3 DEF Connecting, Begun, Roused
  <2> QED BY <2>2, <2>5, <2>6, <2>7
<1>9. ASSUME Yield(f) PROVE Connecting(f)'
  <2>1. /\ pc[f] = "yield" /\ UNCHANGED <<call, kern, waiter, cancelled, config>>
        /\ pc'[f] = "woke" /\ \A g \in Fibers \ {f} : pc'[g] = pc[g]
    BY <1>9 DEF Yield, At, Goto, ControlOK
  <2>2. call[f].op = "connect" /\ Begun(call[f].fd) /\ Roused(f)
    BY <1>d, <2>1 DEF ConnectPlaces, TimerPlaces
  <2>3. Closing(call[f].fd) => Closing(call[f].fd)'
    BY <2>1 DEF Closing, config
  <2>4. Roused(f)'
    BY <2>1, <2>2, <2>3 DEF Roused, Decided
  <2> QED BY <2>1, <2>2, <2>4 DEF Connecting, Begun
<1>10. ASSUME Woke(f) PROVE Connecting(f)'
  <2>1. pc[f] = "woke" /\ st[f] = "run" /\ UNCHANGED kern
    BY <1>10 DEF Woke, At
  <2>2. /\ call[f].op # "sleep" /\ ~cancelled[f] /\ UNCHANGED call
        /\ Goto(f, IF call[f].op = "connect" THEN "check" ELSE "try")
    BY <1>10, <1>b DEF Woke, Stay
  <2>3. call[f].op = "connect" /\ Begun(call[f].fd) /\ Roused(f) /\ Runs(f)
        /\ call[f].fd \in Fds /\ call[f].ev \in Events
    BY <1>d, <2>1, <2>2 DEF ConnectPlaces, TimerPlaces
  <2>4. pc'[f] = "check"
    BY <1>c, <2>2, <2>3
  <2>5. waiter[call[f].fd][call[f].ev] # f
    <3>1. ~Waiting(f)
      BY <2>1 DEF Waiting
    <3> QED BY <2>3, <3>1, NullsAreNot DEF WaitInv, Registered
  <2>6. ~Closing(call[f].fd)
    BY <2>1, <2>3 DEF Closing, Placed, OneThread, Runs
  <2>7. Decided(call[f].fd)
    BY <2>2, <2>3, <2>5, <2>6 DEF Roused
  <2> QED BY <2>1, <2>2, <2>3, <2>4, <2>7 DEF Connecting, Begun, Decided
<1> QED
  BY <1>1, <1>2, <1>3, <1>4, <1>5, <1>6, <1>7, <1>8, <1>9, <1>10 DEF FiberStep

\* Every step keeps the invariant.
LEMMA ConnectInvStep ==
    ASSUME ConnectInv, [Next]_vars
    PROVE  ConnectInv'
<1>1. OrphanInv' /\ GivenInv' /\ NoThread'
  BY OrphanStep, GivenStep, NoThreadStep DEF ConnectInv, OrphanInv
<1>2. ASSUME m_threadCount' = 1
      PROVE  (\A c \in cbs' : Cancelling(c)') /\ \A f \in Fibers : Connecting(f)'
  <2>1. m_threadCount = 1
    BY <1>2, ConfigStays DEF config
  <2>2. ASSUME NEW f \in Fibers PROVE Connecting(f)'
    <3>1. CASE (\E c \in Calls : Begin(f, c)) \/ FiberStep(f)
      BY <2>1, <3>1, ConnectingMoves
    <3>2. ASSUME NEW h \in Fibers \ {f}, (\E c \in Calls : Begin(h, c)) \/ FiberStep(h)
          PROVE  Stays(f)
      BY <3>2, OthersStay DEF ConnectInv, OrphanInv, GivenInv
    <3>3. CASE \/ \E h \in Fibers : Resume(h) \/ \E c \in Calls : Set(h, c)
               \/ ManagerStep \/ Environment \/ UNCHANGED vars
      BY <2>1, <3>3, AllStay, ConnectingStays DEF ConnectInv, OrphanInv, GivenInv
    <3> QED BY <2>1, <3>1, <3>2, <3>3, ConnectingStays DEF Next
  <2> QED BY <2>1, <2>2, CancellingStep
<1> QED BY <1>1, <1>2 DEF ConnectInv

\* On one thread a hooked connect() that returns 0 is connected: no event, timeout, close or
\* other call on the handle makes it ask for SO_ERROR while the connection is under way,
\* unless the handle was closed under it, a thread without hook opened or closed the
\* handle, or another timeout can cancel the same event.
THEOREM HookConnectTrue ==
    ASSUME RoomAtStart
    PROVE  Spec => ConnectTrue
<1> DEFINE Answer(f) ==
        (call[f].op = "connect" /\ call'[f] = NoCall /\ connected'[f])
            => \/ kern'[call[f].fd].conn = "yes"
               \/ call[f].lost \/ call[f].fd \in outside \/ OtherTimeout(f, call[f].fd)
               \/ m_threadCount > 1
<1>1. Init => ConnectInv
  <2> SUFFICES ASSUME Init PROVE ConnectInv
    OBVIOUS
  <2>1. OrphanInv
    BY OrphanStart
  <2>2. TimeoutsAsked
    <3>1. ASSUME NEW fd \in Fds, NEW e \in Events, m_datas[fd] # NoCtx PROVE ~m_datas[fd].timed[e]
      <4>1. m_datas[fd] = FdCtx(TRUE)
        BY <3>1 DEF Init
      <4> QED BY <4>1 DEF FdCtx
    <3> QED BY <3>1 DEF TimeoutsAsked
  <2>3. \A f \in Fibers : call[f] = NoCall /\ ~timer[f]
    BY DEF Init
  <2>4. \A f \in Fibers : OnCourse(f) /\ Given(f) /\ Connecting(f)
    BY <2>3 DEF OnCourse, Given, Connecting, InCall, NoCall, IoOps
  <2>5. \A fd \in Fds : Silent(fd)
    BY DEF Init, Silent, Managed, Fresh, Closed
  <2>6. cbs = {} /\ cancelled \in [Fibers -> BOOLEAN]
    BY DEF Init
  <2>7. NoThread
    BY DEF Init, NoThread, Runs
  <2> QED BY <2>1, <2>2, <2>4, <2>5, <2>6, <2>7 DEF ConnectInv, GivenInv
<1>2. ConnectInv /\ [Next]_vars => ConnectInv'
  BY ConnectInvStep
<1>3. ConnectInv /\ [Next]_vars => [\A f \in Fibers : Answer(f)]_vars
  <2> SUFFICES ASSUME ConnectInv, [Next]_vars, NEW f \in Fibers, call[f].op = "connect",
                      call'[f] = NoCall, connected'[f], ~call[f].lost,
                      call[f].fd \notin outside, ~OtherTimeout(f, call[f].fd), m_threadCount <= 1
               PROVE  kern'[call[f].fd].conn = "yes"
    BY DEF ConnectInv, OrphanInv, HookInv, Typed, RestOK
  <2> USE DEF ConnectInv, OrphanInv, HookInv, GivenInv, Typed
  <2>1. InCall(f) /\ pc[f] \in {"ebadf", "try", "direct"} \cup ConnectPlaces
    <3>1. InCall(f)
      BY DEF InCall, NoCall
    <3> QED BY <3>1 DEF OnCourse
  <2>2. ~Stays(f)
    BY <2>1 DEF Stays, InCall
  <2>3. FiberStep(f)
    <3>1. ASSUME NEW c \in Calls, Begin(f, c) PROVE FALSE
      BY <2>1, <3>1 DEF Begin, At, ConnectPlaces, TimerPlaces
    <3>2. ASSUME NEW h \in Fibers \ {f}, (\E c \in Calls : Begin(h, c)) \/ FiberStep(h) PROVE FALSE
      BY <2>2, <3>2, OthersStay
    <3>3. CASE \/ \E h \in Fibers : Resume(h) \/ \E c \in Calls : Set(h, c)
               \/ ManagerStep \/ Environment \/ UNCHANGED vars
      BY <2>2, <3>3, AllStay
    <3> QED BY <3>1, <3>2, <3>3 DEF Next
  <2>4. call[f].fd \in Fds /\ kern[call[f].fd] \in KernRec
    BY <2>1, CallFields DEF KernOK, ControlOK
  <2>5. ASSUME NEW r, Return(f, r) PROVE r = "ok"
    <3>1. connected' = [connected EXCEPT ![f] = call[f].op = "connect" /\ r = "ok"]
      BY <2>5 DEF Return
    <3> QED BY <3>1 DEF ControlOK
  <2>6. ASSUME UNCHANGED call PROVE FALSE
    BY <2>1, <2>6 DEF InCall
  <2>7. CASE Try(f)
    <3>1. kern' = [kern EXCEPT ![call[f].fd].conn = "yes"]
      BY <2>5, <2>6, <2>7 DEF Try, Stay, IoOps
    <3> QED BY <2>4, <3>1 DEF KernOK, KernRec
  <2>8. CASE CheckConnect(f)
    <3>1. /\ pc[f] = "check" /\ UNCHANGED kern
          /\ kern[call[f].fd].open /\ kern[call[f].fd].conn # "failed"
      BY <2>5, <2>8 DEF CheckConnect, At
    <3>2. m_threadCount = 1
      <4>1. Runs(f)
        BY <2>8 DEF CheckConnect, At, Runs, Placed, OutsidePlaces
      <4>2. m_threadCount \in Nat
        BY DEF RestOK
      <4> QED BY <4>1, <4>2 DEF NoThread
    <3>3. Begun(call[f].fd) /\ Decided(call[f].fd)
      BY <3>1, <3>2 DEF Connecting, Undisturbed, ConnectPlaces
    <3> QED BY <2>4, <3>1, <3>3 DEF Begun, Decided, KernRec
  <2>9. CASE Immediate(f)
    BY <2>1, <2>5, <2>9 DEF Immediate, At, ConnectPlaces, TimerPlaces
  <2>10. CASE Woke(f)
    BY <2>5, <2>6, <2>10 DEF Woke, Stay
  <2>11. CASE addEvent(f)
    BY <2>5, <2>6, <2>11 DEF addEvent, Stay
  <2>12. CASE ArmTimer(f) \/ Yield(f) \/ CancelAll(f) \/ DelCtx(f) \/ Exit(f)
    BY <2>6, <2>12 DEF ArmTimer, Yield, CancelAll, DelCtx, Exit
  <2>13. CASE SocketF(f) \/ CreateCtx(f) \/ CloseF(f)
    BY <2>1, <2>13 DEF SocketF, CreateCtx, CloseF, At, ConnectPlaces, TimerPlaces
  <2> QED BY <2>3, <2>7, <2>8, <2>9, <2>10, <2>11, <2>12, <2>13 DEF FiberStep
<1> QED BY <1>1, <1>2, <1>3, PTL DEF Spec, ConnectTrue
=============================================================================
