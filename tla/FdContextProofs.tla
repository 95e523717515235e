-------------------------- MODULE FdContextProofs --------------------------
(***************************************************************************)
(* Theorems about FdContext, for every number of threads and handles.      *)
(***************************************************************************)
EXTENDS FdContext, FiniteSetTheorems, TLAPS

(***************************************************************************)
(* The count of pending events                                             *)
(***************************************************************************)

\* The threads about to lower the count, after thread t moved.
LEMMA DecrementingMoves ==
    ASSUME TypeOK, NEW t \in Threads, NEW loc \in ThreadPc, pc' = [pc EXCEPT ![t] = loc]
    PROVE  /\ Cardinality(Decrementing) \in Nat
           /\ t \in Decrementing => Cardinality(Decrementing) > 0
           /\ Cardinality(Decrementing') =
                IF loc \in {"dec", "decclose"}
                THEN IF t \in Decrementing THEN Cardinality(Decrementing)
                     ELSE Cardinality(Decrementing) + 1
                ELSE IF t \in Decrementing THEN Cardinality(Decrementing) - 1
                     ELSE Cardinality(Decrementing)
<1>1. IsFiniteSet(Decrementing)
  BY FS_Subset, FdsAssumption DEF Decrementing
<1>2. /\ Cardinality(Decrementing) \in Nat
      /\ Decrementing # {} => Cardinality(Decrementing) # 0
  BY <1>1, FS_CardinalityType, FS_EmptySet
<1>3. CASE loc \in {"dec", "decclose"}
  <2>1. Decrementing' = Decrementing \cup {t}
    BY <1>3 DEF Decrementing, TypeOK
  <2>2. Cardinality(Decrementing') =
           IF t \in Decrementing THEN Cardinality(Decrementing)
           ELSE Cardinality(Decrementing) + 1
    BY <1>1, <2>1, FS_AddElement
  <2> QED BY <1>2, <1>3, <2>2
<1>4. CASE loc \notin {"dec", "decclose"}
  <2>1. Decrementing' = Decrementing \ {t}
    BY <1>4 DEF Decrementing, TypeOK
  <2>2. Cardinality(Decrementing') =
           IF t \in Decrementing THEN Cardinality(Decrementing) - 1
           ELSE Cardinality(Decrementing)
    BY <1>1, <2>1, FS_RemoveElement
  <2> QED BY <1>2, <1>4, <2>2
<1> QED BY <1>3, <1>4

\* epoll_ctl keeps the kernel's masks well formed.
LEMMA CtlTyped ==
    ASSUME TypeOK, NEW fd, NEW g \in Nat, NEW mask \in SUBSET Event,
           CtlModDel(fd, g, mask) \/ UNCHANGED kernel
    PROVE  interest' \in [Fds -> SUBSET Event] /\ data' \in [Fds -> Nat]
BY DEF CtlModDel, TypeOK, kernel

\* A thread that moves without touching events, waiters or the count, and does
\* not come from or go to a decrement, keeps the count exact.
LEMMA QuietMove ==
    ASSUME PendingInv, NEW t \in Threads, NEW loc \in ThreadPc, NEW a \in Arg,
           Goto(t, loc, a),
           UNCHANGED <<events, waiter, m_pendingEventCount>>,
           pc[t] \notin {"dec", "decclose"}, loc \notin {"dec", "decclose"},
           loc \notin {"busy", "poll"} => a.fd \in Fds,
           loc \in {"grow", "add", "del", "cancel"} => \E e \in Event : a.ev = {e},
           loc \in Locking => a.ev # {}
    PROVE  /\ m_pendingEventCount' \in Nat
           /\ events' \subseteq Fds \X Nat \X Event
           /\ waiter' \subseteq Fds \X Nat \X Event
           /\ pc' \in [Threads -> ThreadPc]
           /\ arg' \in [Threads -> Arg]
           /\ IsFiniteSet(events')
           /\ ArgShape' /\ PendingExact' /\ ContextMatches'
<1>1. TypeOK /\ pc' = [pc EXCEPT ![t] = loc] /\ arg' = [arg EXCEPT ![t] = a]
  BY DEF PendingInv, Goto
<1>2. Cardinality(Decrementing') = Cardinality(Decrementing)
  BY <1>1, DecrementingMoves DEF Decrementing
<1>3. PendingExact' /\ ContextMatches'
  BY <1>2 DEF PendingInv, PendingExact, ContextMatches
<1>4. ArgShape'
  BY <1>1 DEF PendingInv, ArgShape, TypeOK
<1> QED BY <1>1, <1>3, <1>4 DEF PendingInv, TypeOK

\* The initial count is zero.
LEMMA PendingInit ==
    ASSUME Init PROVE PendingInv
<1>1. Decrementing = {}
  BY DEF Init, Decrementing
<1>2. PendingExact
  BY <1>1, FS_EmptySet DEF Init, PendingExact
<1>3. TypeOK
  BY FdsAssumption DEF Init, TypeOK, ThreadPc, Arg, NoArg
<1> QED BY <1>2, <1>3, FS_EmptySet DEF Init, PendingInv, ArgShape, ContextMatches, Locking

\* Every step keeps the count exact.
LEMMA PendingStep ==
    ASSUME PendingInv, [Next]_vars
    PROVE  PendingInv'
<1> USE DEF PendingInv
<1>1. CASE UNCHANGED vars
  BY <1>1 DEF vars, TypeOK, ArgShape, PendingExact, ContextMatches, Decrementing
<1>2. ASSUME NEW t \in Threads, Step(t)
      PROVE  PendingInv'
  <2>1. arg[t] \in Arg /\ pc[t] \in ThreadPc
    BY DEF TypeOK
  <2>2. NoArg \in Arg
    BY DEF NoArg, Arg
  <2>3. ASSUME NEW fd \in Fds, NEW e \in Event, BeginAdd(t, fd, e)
        PROVE  PendingInv'
    <3> DEFINE a == [NoArg EXCEPT !.fd = fd, !.ev = {e}, !.gen = slot[fd]]
               loc == IF size > fd THEN "add" ELSE "grow"
    <3>1. a \in Arg /\ a.fd = fd /\ a.ev = {e} /\ loc \in ThreadPc
      BY DEF NoArg, Arg, TypeOK, ThreadPc
    <3>2. /\ Goto(t, loc, a)
          /\ loc \in {"add", "grow"}
          /\ pc[t] = "busy"
          /\ adds' = adds + 1 /\ adds < MaxAdds
          /\ UNCHANGED <<table, events, waiter, kernel, m_pendingEventCount, alive>>
      BY <2>3 DEF BeginAdd
    <3> HIDE DEF a, loc
    <3>3. adds' \in 0..MaxAdds
      BY <3>2, FdsAssumption DEF TypeOK
    <3> QED BY <3>1, <3>2, <3>3, QuietMove DEF TypeOK, table, kernel, Locking
  <2>4. ASSUME NEW op \in {"del", "cancel", "all", "close"}, NEW fd \in Fds,
               NEW E \in SUBSET Event, Begin(t, op, fd, E),
               op \in {"del", "cancel"} => \E e \in Event : E = {e}
        PROVE  PendingInv'
    <3> DEFINE a == [NoArg EXCEPT !.fd = fd, !.ev = E, !.gen = slot[fd]]
               loc == IF size > fd THEN op ELSE "shut"
    <3>1. a \in Arg /\ a.fd = fd /\ a.ev = E /\ loc \in ThreadPc
      BY DEF NoArg, Arg, TypeOK, ThreadPc
    <3>2. /\ Goto(t, loc, a)
          /\ loc \in {op, "shut"}
          /\ pc[t] = "busy"
          /\ UNCHANGED <<table, events, waiter, kernel, m_pendingEventCount, adds, alive>>
      BY <2>4 DEF Begin
    <3> HIDE DEF a, loc
    <3> QED BY <2>4, <3>1, <3>2, QuietMove DEF TypeOK, table, kernel, Locking
  <2>5. CASE Grow(t)
    <3>1. arg[t].fd \in Fds /\ arg[t].fd \in Nat
      BY <2>5, FdsAssumption DEF Grow, ArgShape
    <3>2. size' \in Nat /\ created' \in [Fds -> Nat] /\ slot' \in [Fds -> Nat]
      BY <2>5, <3>1 DEF Grow, TypeOK
    <3> DEFINE a == [arg[t] EXCEPT !.gen = slot'[arg[t].fd]]
    <3>3. a \in Arg /\ a.fd = arg[t].fd /\ a.ev = arg[t].ev
      BY <2>1, <3>1, <3>2 DEF Arg
    <3>4. /\ Goto(t, "add", a)
          /\ pc[t] = "grow"
          /\ UNCHANGED <<events, waiter, kernel, m_pendingEventCount, adds, alive>>
      BY <2>5 DEF Grow
    <3>5. \E e \in Event : a.ev = {e}
      BY <3>3, <3>4 DEF ArgShape
    <3> HIDE DEF a
    <3> QED BY <3>1, <3>2, <3>3, <3>4, <3>5, QuietMove
      DEF TypeOK, kernel, Locking, ThreadPc
  <2>6. CASE Add(t)
    <3>1. PICK e \in Event : arg[t].ev = {e}
      BY <2>6 DEF Add, ArgShape
    <3> DEFINE x == <<arg[t].fd, arg[t].gen, e>>
    <3>2. x \in Fds \X Nat \X Event
      BY <2>1, <2>6 DEF Add, ArgShape, Arg
    <3>3. pc[t] = "add" /\ Goto(t, "busy", NoArg) /\ UNCHANGED <<table, adds>>
      BY <2>6 DEF Add, Return, Goto
    <3>4. CASE UNCHANGED <<events, waiter, kernel, m_pendingEventCount>>
      BY <2>2, <2>6, <3>3, <3>4, QuietMove
      DEF Add, TypeOK, table, kernel, Locking, ThreadPc
    <3>5. CASE ~UNCHANGED <<events, waiter, kernel, m_pendingEventCount>>
      <4>1. /\ x \notin events
            /\ events' = events \cup {x}
            /\ waiter' = waiter \cup {x}
            /\ m_pendingEventCount' = m_pendingEventCount + 1
            /\ alive' = alive
            /\ CtlModDel(arg[t].fd, arg[t].gen, EventsOf(arg[t].fd, arg[t].gen) \cup {e})
        BY <2>6, <3>1, <3>5 DEF Add, EventsOf
      <4>2. IsFiniteSet(events') /\ Cardinality(events') = Cardinality(events) + 1
        BY <4>1, FS_AddElement
      <4>3. Cardinality(Decrementing') = Cardinality(Decrementing)
        <5>1. t \notin Decrementing
          BY <3>3 DEF Decrementing
        <5>2. TypeOK /\ "busy" \in ThreadPc /\ pc' = [pc EXCEPT ![t] = "busy"]
          BY <3>3 DEF Goto, ThreadPc
        <5> QED BY <5>1, <5>2, DecrementingMoves
      <4>4. PendingExact'
        <5>1. Cardinality(events) \in Nat /\ Cardinality(Decrementing) \in Nat
          BY <3>3, DecrementingMoves, FS_CardinalityType DEF Goto, ThreadPc
        <5> QED BY <4>1, <4>2, <4>3, <5>1 DEF PendingExact
      <4>5. ContextMatches'
        BY <4>1 DEF ContextMatches
      <4>6. ArgShape'
        BY <3>3 DEF ArgShape, Goto, TypeOK, NoArg, Locking
      <4>7. interest' \in [Fds -> SUBSET Event] /\ data' \in [Fds -> Nat]
        <5>1. /\ EventsOf(arg[t].fd, arg[t].gen) \cup {e} \in SUBSET Event
              /\ EventsOf(arg[t].fd, arg[t].gen) \ {e} \in SUBSET Event
              /\ arg[t].gen \in Nat
          BY <2>1 DEF EventsOf, Arg
        <5> QED BY <4>1, <5>1, CtlTyped
      <4>8. TypeOK'
        BY <2>2, <3>2, <3>3, <4>1, <4>7 DEF TypeOK, Goto, table, ThreadPc
      <4> QED BY <4>2, <4>4, <4>5, <4>6, <4>8
    <3> QED BY <3>4, <3>5
  <2>7. CASE Del(t)
    <3>1. PICK e \in Event : arg[t].ev = {e}
      BY <2>7 DEF Del, ArgShape
    <3> DEFINE x == <<arg[t].fd, arg[t].gen, e>>
    <3>3. /\ pc[t] = "del" /\ Goto(t, "busy", NoArg) /\ UNCHANGED <<table, adds, alive>>
      BY <2>7 DEF Del, Return, Goto
    <3>4. CASE UNCHANGED <<events, waiter, kernel, m_pendingEventCount>>
      BY <2>2, <3>3, <3>4, QuietMove DEF TypeOK, table, kernel, Locking, ThreadPc
    <3>5. CASE ~UNCHANGED <<events, waiter, kernel, m_pendingEventCount>>
      <4>1. /\ x \in events
            /\ events' = events \ {x}
            /\ waiter' = waiter \ {x}
            /\ m_pendingEventCount' = m_pendingEventCount - 1
            /\ CtlModDel(arg[t].fd, arg[t].gen, EventsOf(arg[t].fd, arg[t].gen) \ {e})
        BY <2>7, <3>1, <3>5 DEF Del, EventsOf
      <4>2. IsFiniteSet(events') /\ Cardinality(events') = Cardinality(events) - 1
        BY <4>1, FS_RemoveElement
      <4>3. Cardinality(Decrementing') = Cardinality(Decrementing)
        <5>1. t \notin Decrementing
          BY <3>3 DEF Decrementing
        <5>2. TypeOK /\ "busy" \in ThreadPc /\ pc' = [pc EXCEPT ![t] = "busy"]
          BY <3>3 DEF Goto, ThreadPc
        <5> QED BY <5>1, <5>2, DecrementingMoves
      <4>4. PendingExact' /\ m_pendingEventCount' \in Nat
        <5>1. Cardinality(events) \in Nat /\ Cardinality(Decrementing) \in Nat
          BY <3>3, DecrementingMoves, FS_CardinalityType DEF Goto, ThreadPc
        <5>2. Cardinality(events') \in Nat
          BY <4>2, FS_CardinalityType
        <5> QED BY <4>1, <4>2, <4>3, <5>1, <5>2 DEF PendingExact
      <4>5. ContextMatches'
        BY <4>1 DEF ContextMatches
      <4>6. ArgShape'
        BY <3>3 DEF ArgShape, Goto, TypeOK, NoArg, Locking
      <4>7. interest' \in [Fds -> SUBSET Event] /\ data' \in [Fds -> Nat]
        <5>1. /\ EventsOf(arg[t].fd, arg[t].gen) \cup {e} \in SUBSET Event
              /\ EventsOf(arg[t].fd, arg[t].gen) \ {e} \in SUBSET Event
              /\ arg[t].gen \in Nat
          BY <2>1 DEF EventsOf, Arg
        <5> QED BY <4>1, <5>1, CtlTyped
      <4>8. TypeOK'
        BY <2>2, <3>3, <4>1, <4>4, <4>7 DEF TypeOK, Goto, table, ThreadPc
      <4> QED BY <4>2, <4>4, <4>5, <4>6, <4>8
    <3> QED BY <3>4, <3>5
  <2>8. CASE Cancel(t)
    <3>1. /\ pc[t] = "cancel"
          /\ \/ Goto(t, "trig", arg[t])
             \/ Goto(t, "busy", NoArg)
          /\ UNCHANGED <<table, events, waiter, m_pendingEventCount, adds, alive>>
      BY <2>8 DEF Cancel, Return, Goto
    <3>2. interest' \in [Fds -> SUBSET Event] /\ data' \in [Fds -> Nat]
      <4>1. EventsOf(arg[t].fd, arg[t].gen) \ arg[t].ev \in SUBSET Event /\ arg[t].gen \in Nat
        BY <2>1 DEF EventsOf, Arg
      <4>2. \/ UNCHANGED kernel
            \/ CtlModDel(arg[t].fd, arg[t].gen, EventsOf(arg[t].fd, arg[t].gen) \ arg[t].ev)
        BY <2>8 DEF Cancel
      <4> QED BY <4>1, <4>2, CtlTyped
    <3>3. arg[t].fd \in Fds /\ arg[t].ev # {}
      BY <3>1 DEF ArgShape
    <3> QED BY <2>1, <2>2, <3>1, <3>2, <3>3, QuietMove
      DEF TypeOK, table, Locking, ThreadPc
  <2>9. CASE CancelAll(t)
    <3> DEFINE own == EventsOf(arg[t].fd, arg[t].gen)
               a == [arg[t] EXCEPT !.ev = own]
    <3>1. /\ pc[t] \in {"all", "close"}
          /\ \/ own # {} /\ \E loc \in {"trig", "trigclose"} : Goto(t, loc, a)
             \/ Goto(t, "busy", NoArg)
             \/ Goto(t, "shut", arg[t])
          /\ UNCHANGED <<table, events, waiter, m_pendingEventCount, adds, alive>>
      BY <2>9 DEF CancelAll, Return, Goto
    <3>2. interest' \in [Fds -> SUBSET Event] /\ data' \in [Fds -> Nat]
      BY <2>1, <2>9 DEF CancelAll, CtlModDel, TypeOK, Arg, kernel
    <3>3. arg[t].fd \in Fds /\ own \in SUBSET Event
      BY <3>1 DEF ArgShape, EventsOf
    <3>4. a \in Arg /\ a.fd = arg[t].fd /\ a.ev = own
      BY <2>1, <3>3 DEF Arg
    <3> HIDE DEF own, a
    <3> QED BY <2>1, <2>2, <3>1, <3>2, <3>3, <3>4, QuietMove
      DEF TypeOK, table, Locking, ThreadPc
  <2>10. CASE Shut(t)
    <3>1. /\ pc[t] = "shut" /\ Goto(t, "busy", NoArg)
          /\ UNCHANGED <<table, events, waiter, m_pendingEventCount, adds, alive>>
      BY <2>10 DEF Shut, Return, Goto
    <3>2. interest' \in [Fds -> SUBSET Event] /\ data' \in [Fds -> Nat]
      BY <2>10 DEF Shut, CtlModDel, TypeOK
    <3> QED BY <2>2, <3>1, <3>2, QuietMove DEF TypeOK, table, Locking, ThreadPc
  <2>11. CASE EnterPoll(t)
    BY <2>2, <2>11, QuietMove DEF EnterPoll, TypeOK, table, kernel, Locking, ThreadPc
  <2>12. CASE PollReturn(t)
    <3>1. CASE Return(t)
      <4>1. Goto(t, "busy", NoArg)
        BY <3>1 DEF Return, Goto
      <4> QED BY <2>2, <2>12, <4>1, QuietMove
        DEF PollReturn, TypeOK, table, kernel, Locking, ThreadPc
    <3>2. ASSUME NEW fd \in Fds, NEW E \in SUBSET interest[fd], NEW err \in BOOLEAN,
                 Goto(t, "event", [fd |-> fd, gen |-> data[fd], ev |-> E, err |-> err])
          PROVE  PendingInv'
      <4> DEFINE a == [fd |-> fd, gen |-> data[fd], ev |-> E, err |-> err]
      <4>1. a \in Arg /\ a.fd = fd
        BY DEF Arg, TypeOK
      <4> HIDE DEF a
      <4>2. Goto(t, "event", a)
        BY <3>2 DEF a
      <4> QED BY <2>12, <4>1, <4>2, QuietMove
        DEF PollReturn, TypeOK, table, kernel, Locking, ThreadPc
    <3> QED BY <2>12, <3>1, <3>2 DEF PollReturn
  <2>13. CASE HandleEvent(t)
    <3> DEFINE own == EventsOf(arg[t].fd, arg[t].gen)
               real_events == arg[t].ev \cup (IF arg[t].err THEN own ELSE {})
               a == [arg[t] EXCEPT !.ev = real_events, !.err = FALSE]
    <3>1. /\ pc[t] = "event"
          /\ \/ own \cap real_events # {} /\ Goto(t, "trig", a)
             \/ Goto(t, "busy", NoArg)
          /\ UNCHANGED <<table, events, waiter, m_pendingEventCount, adds, alive>>
      BY <2>13 DEF HandleEvent, Return, Goto
    <3>2. interest' \in [Fds -> SUBSET Event] /\ data' \in [Fds -> Nat]
      <4>1. own \ real_events \in SUBSET Event /\ arg[t].gen \in Nat
        BY <2>1 DEF EventsOf, Arg
      <4>2. UNCHANGED kernel \/ CtlModDel(arg[t].fd, arg[t].gen, own \ real_events)
        BY <2>13 DEF HandleEvent
      <4> HIDE DEF own, real_events
      <4> QED BY <4>1, <4>2, CtlTyped
    <3>3. arg[t].fd \in Fds /\ real_events \in SUBSET Event
      BY <2>1, <3>1 DEF ArgShape, EventsOf, Arg
    <3>4. a \in Arg /\ a.fd = arg[t].fd /\ a.ev = real_events
      BY <2>1, <3>3 DEF Arg
    <3> HIDE DEF own, real_events, a
    <3> QED BY <2>1, <2>2, <3>1, <3>2, <3>3, <3>4, QuietMove
      DEF TypeOK, table, Locking, ThreadPc
  <2>14. CASE Trigger(t)
    <3> DEFINE x == <<arg[t].fd, arg[t].gen, NextOf(arg[t].ev)>>
    <3>1. CASE x \in events
      <4>1. PICK loc \in {"dec", "decclose"} : pc' = [pc EXCEPT ![t] = loc]
        BY <2>14, <3>1 DEF Trigger
      <4>2. /\ pc[t] \in {"trig", "trigclose"}
            /\ events' = events \ {x}
            /\ waiter' = waiter \ {x}
            /\ UNCHANGED <<alive, table, kernel, m_pendingEventCount, arg, adds>>
        BY <2>14, <3>1 DEF Trigger
      <4> HIDE DEF x
      <4>3. IsFiniteSet(events') /\ Cardinality(events') = Cardinality(events) - 1
        BY <3>1, <4>2, FS_RemoveElement
      <4>4. /\ Cardinality(Decrementing') = Cardinality(Decrementing) + 1
            /\ Cardinality(Decrementing) \in Nat
        BY <4>1, <4>2, DecrementingMoves DEF Decrementing, ThreadPc, Locking
      <4>5. Cardinality(events) \in Nat
        BY FS_CardinalityType
      <4>6. PendingExact'
        BY <4>2, <4>3, <4>4, <4>5 DEF PendingExact
      <4>7. ContextMatches'
        BY <4>2 DEF ContextMatches
      <4>8. ArgShape'
        BY <4>1, <4>2 DEF ArgShape, TypeOK, Locking
      <4>9. TypeOK'
        BY <4>1, <4>2 DEF TypeOK, table, kernel, ThreadPc, Locking
      <4> QED BY <4>3, <4>6, <4>7, <4>8, <4>9
    <3>2. CASE x \notin events
      BY <2>14, <3>2 DEF Trigger, TypeOK, ArgShape, PendingExact, ContextMatches,
         Decrementing, table, kernel
    <3> QED BY <3>1, <3>2
  <2>15. CASE Decrement(t)
    <3> DEFINE rest == arg[t].ev \ {NextOf(arg[t].ev)}
               a == [arg[t] EXCEPT !.ev = rest]
    <3>1. /\ pc[t] \in {"dec", "decclose"}
          /\ m_pendingEventCount' = m_pendingEventCount - 1
          /\ UNCHANGED <<table, events, waiter, kernel, adds, alive>>
          /\ \/ rest # {} /\ \E loc \in {"trig", "trigclose"} : Goto(t, loc, a)
             \/ Goto(t, "busy", NoArg)
             \/ Goto(t, "shut", a)
      BY <2>15 DEF Decrement, Return, Goto
    <3>2. arg[t].fd \in Fds /\ rest \in SUBSET Event
      BY <2>1, <3>1 DEF ArgShape, Arg
    <3>3. a \in Arg /\ a.fd = arg[t].fd /\ a.ev = rest
      BY <2>1, <3>2 DEF Arg
    <3> HIDE DEF rest, a
    <3>4. PICK loc \in {"trig", "trigclose", "busy", "shut"} :
             /\ pc' = [pc EXCEPT ![t] = loc]
             /\ \/ loc \in {"trig", "trigclose"} /\ rest # {} /\ arg' = [arg EXCEPT ![t] = a]
                \/ loc = "busy" /\ arg' = [arg EXCEPT ![t] = NoArg]
                \/ loc = "shut" /\ arg' = [arg EXCEPT ![t] = a]
      BY <3>1 DEF Goto
    <3>5. /\ Cardinality(Decrementing') = Cardinality(Decrementing) - 1
          /\ Cardinality(Decrementing) \in Nat /\ Cardinality(Decrementing) > 0
      BY <3>1, <3>4, DecrementingMoves DEF Decrementing, ThreadPc, Locking
    <3>6. Cardinality(events) \in Nat
      BY FS_CardinalityType
    <3>7. PendingExact' /\ m_pendingEventCount' \in Nat
      BY <3>1, <3>5, <3>6 DEF PendingExact
    <3>8. ContextMatches' /\ IsFiniteSet(events')
      BY <3>1 DEF ContextMatches
    <3>9. ArgShape'
      BY <3>2, <3>3, <3>4 DEF ArgShape, TypeOK, Locking
    <3>10. TypeOK'
      BY <2>2, <3>1, <3>3, <3>4, <3>7 DEF TypeOK, table, kernel, ThreadPc, Locking
    <3> QED BY <3>7, <3>8, <3>9, <3>10
  <2> QED
    <3>1. ASSUME NEW fd \in Fds, NEW e \in Event,
                 Begin(t, "del", fd, {e}) \/ Begin(t, "cancel", fd, {e})
          PROVE  PendingInv'
      BY <2>4, <3>1
    <3>2. ASSUME NEW fd \in Fds, Begin(t, "all", fd, {}) \/ Begin(t, "close", fd, {})
          PROVE  PendingInv'
      BY <2>4, <3>2
    <3>3. Closable \subseteq Fds
      BY FdsAssumption
    <3> QED BY <1>2, <2>3, <2>5, <2>6, <2>7, <2>8, <2>9, <2>10, <2>11, <2>12,
               <2>13, <2>14, <2>15, <3>1, <3>2, <3>3 DEF Step
<1> QED BY <1>1, <1>2 DEF Next

\* The table, the epoll registrations and what a thread remembers between two locks keep
\* their types; m_pendingEventCount never goes below 0.
THEOREM FdTypeCorrect == Spec => []TypeOK
<1> QED BY PendingInit, PendingStep, PTL DEF Spec, PendingInv

\* m_pendingEventCount, which stopping() reads, is at every moment the number of
\* events with a waiter, plus those just triggered: on every schedule of addEvent,
\* delEvent, cancelEvent, cancelAll and the pollers, stale results included.
THEOREM PendingCorrect == Spec => []PendingExact
<1> QED BY PendingInit, PendingStep, PTL DEF Spec, PendingInv

\* An EventContext is filled exactly while its event is set, so the assertion of
\* addEvent that the context is empty cannot fail.
THEOREM ContextCorrect == Spec => []ContextMatches
<1> QED BY PendingInit, PendingStep, PTL DEF Spec, PendingInv

(***************************************************************************)
(* The kernel's view                                                       *)
(***************************************************************************)

\* Nothing is registered at first.
LEMMA KernelInit ==
    ASSUME FixedTable, Init PROVE KernelInv
<1>1. PendingInv
  BY PendingInit
<1> QED BY <1>1 DEF FixedTable, Init, KernelInv, OneObject, Cleared, KernelMatches,
      Decrementing, EventsOf, Triggering, Locking

\* With one object for each handle, every thread that changes a handle's events
\* or its mask does so with the object's mutex, and changes both alike.
LEMMA KernelStep ==
    ASSUME FixedTable, KernelInv, [Next]_vars
    PROVE  KernelInv'
<1>0. PendingInv'
  BY PendingStep DEF KernelInv
<1> USE DEF KernelInv
<1>t. TypeOK /\ ArgShape
  BY DEF PendingInv
<1>1. CASE UNCHANGED vars
  BY <1>0, <1>1 DEF vars, OneObject, Cleared, KernelMatches, Decrementing, EventsOf, Triggering
<1>2. ASSUME NEW t \in Threads, Step(t)
      PROVE  KernelInv'
  <2>t. t \in Threads /\ arg[t] \in Arg
    BY <1>t DEF TypeOK
  \* A step outside the critical sections
  <2>1. ASSUME NEW loc \in ThreadPc, NEW a \in Arg, Goto(t, loc, a),
               loc \notin Locking, pc[t] \notin Locking,
               loc \notin {"grow", "close", "shut"},
               loc \notin {"busy", "poll"} => a.gen = 1,
               UNCHANGED <<size, slot, events, interest, data>>
        PROVE  KernelInv'
    <3>1. pc' = [pc EXCEPT ![t] = loc] /\ arg' = [arg EXCEPT ![t] = a]
      BY <2>1 DEF Goto
    <3>2. OneObject'
      BY <1>t, <2>1, <3>1 DEF OneObject, TypeOK, Locking
    <3>3. Cleared'
      BY <1>t, <2>1, <3>1 DEF Cleared, Decrementing, TypeOK, Locking
    <3>4. \A fd \in Fds : Triggering(fd, slot[fd])' = Triggering(fd, slot[fd])
      BY <1>t, <2>1, <3>1 DEF Triggering, TypeOK
    <3>5. KernelMatches'
      BY <2>1, <3>4 DEF KernelMatches, EventsOf
    <3> QED BY <1>0, <3>2, <3>3, <3>5
  \* A step that takes the mutex of the handle's object: it leaves the events E,
  \* and keeps the mutex to trigger T, or releases it
  <2>2. ASSUME NEW fd0 \in Fds, NEW E \in SUBSET Event, NEW T \in SUBSET Event,
               NEW loc \in {"busy", "trig"}, NEW a \in Arg, Goto(t, loc, a),
               ~Locked(fd0, 1), pc[t] \notin Locking, arg[t].fd = fd0, arg[t].gen = 1,
               loc = "trig" => a.fd = fd0 /\ a.gen = 1 /\ a.ev = T,
               loc = "busy" => T = {},
               \A e \in Event : <<fd0, 1, e>> \in events' <=> e \in E,
               \A fd \in Fds \ {fd0} : \A e \in Event :
                    <<fd, 1, e>> \in events' <=> <<fd, 1, e>> \in events,
               \/ CtlModDel(fd0, 1, E \ T)
               \/ UNCHANGED kernel /\ T = {} /\ E = EventsOf(fd0, 1),
               UNCHANGED <<size, slot>>
        PROVE  KernelInv'
    <3>1. pc' = [pc EXCEPT ![t] = loc] /\ arg' = [arg EXCEPT ![t] = a]
      BY <2>2 DEF Goto
    <3>2. \A u \in Threads : pc[u] \in Locking => arg[u].gen = 1 /\ arg[u].fd # fd0
      BY <2>2 DEF OneObject, Locked, Locking
    <3>3. OneObject'
      BY <1>t, <2>2, <3>1, <3>2 DEF OneObject, TypeOK, Locking
    <3>4. Cleared'
      <4> SUFFICES ASSUME NEW u \in Threads, u \in Decrementing'
                   PROVE  <<arg'[u].fd, arg'[u].gen, NextOf(arg'[u].ev)>> \notin events'
        BY DEF Cleared, Decrementing
      <4>1. u # t /\ u \in Decrementing /\ arg'[u] = arg[u] /\ pc[u] \in Locking
        BY <1>t, <2>2, <3>1 DEF Decrementing, TypeOK, Locking
      <4>2. arg[u].fd \in Fds \ {fd0} /\ arg[u].gen = 1 /\ NextOf(arg[u].ev) \in Event
        BY <1>t, <3>2, <4>1 DEF ArgShape, Locking, NextOf, Event
      <4>3. <<arg[u].fd, 1, NextOf(arg[u].ev)>> \notin events
        BY <4>1, <4>2 DEF Cleared
      <4> QED BY <2>2, <4>1, <4>2, <4>3
    <3>5. \A fd \in Fds \ {fd0} : Triggering(fd, 1)' = Triggering(fd, 1)
      BY <1>t, <2>2, <3>1, <3>2 DEF Triggering, TypeOK, Locking
    <3>6. Triggering(fd0, 1)' = T /\ Triggering(fd0, 1) = {}
      <4>1. Triggering(fd0, 1) = {}
        BY <3>2 DEF Triggering
      <4>2. \A u \in Threads \ {t} : pc'[u] = pc[u] /\ arg'[u] = arg[u]
        BY <1>t, <3>1 DEF TypeOK
      <4>3. pc'[t] = loc /\ arg'[t] = a
        BY <1>t, <3>1 DEF TypeOK
      <4> QED BY <2>2, <3>2, <4>1, <4>2, <4>3 DEF Triggering, Locking
    <3>7. /\ EventsOf(fd0, 1)' = E
          /\ \A fd \in Fds \ {fd0} : EventsOf(fd, 1)' = EventsOf(fd, 1)
      BY <2>2 DEF EventsOf
    <3>8. \A fd \in Fds : slot[fd] = 1 /\ slot'[fd] = 1
      BY <2>2 DEF OneObject
    <3>9. /\ interest'[fd0] = E \ T
          /\ interest'[fd0] # {} => data'[fd0] = 1
          /\ \A fd \in Fds \ {fd0} : interest'[fd] = interest[fd] /\ data'[fd] = data[fd]
      <4>1. CASE CtlModDel(fd0, 1, E \ T)
        BY <1>t, <4>1 DEF CtlModDel, TypeOK
      <4>2. CASE UNCHANGED kernel /\ T = {} /\ E = EventsOf(fd0, 1)
        BY <3>6, <3>8, <4>2 DEF kernel, KernelMatches
      <4> QED BY <2>2, <4>1, <4>2
    <3>10. KernelMatches'
      BY <3>5, <3>6, <3>7, <3>8, <3>9 DEF KernelMatches
    <3> QED BY <1>0, <3>3, <3>4, <3>10
  <2>3. ASSUME NEW fd \in Fds, NEW e \in Event, BeginAdd(t, fd, e)
        PROVE  KernelInv'
    <3> DEFINE a == [NoArg EXCEPT !.fd = fd, !.ev = {e}, !.gen = slot[fd]]
    <3>1. a \in Arg /\ a.gen = 1
      BY <1>t DEF NoArg, Arg, TypeOK, OneObject
    <3>2. Goto(t, "add", a) /\ pc[t] = "busy" /\ UNCHANGED <<size, slot, events, interest, data>>
      BY <2>3 DEF BeginAdd, FixedTable, OneObject, table, kernel
    <3> HIDE DEF a
    <3> QED BY <2>1, <3>1, <3>2 DEF Locking, ThreadPc
  <2>4. ASSUME NEW op \in {"del", "cancel", "all"}, NEW fd \in Fds,
               NEW E \in SUBSET Event, Begin(t, op, fd, E)
        PROVE  KernelInv'
    <3> DEFINE a == [NoArg EXCEPT !.fd = fd, !.ev = E, !.gen = slot[fd]]
    <3>1. a \in Arg /\ a.gen = 1
      BY <1>t DEF NoArg, Arg, TypeOK, OneObject
    <3>2. Goto(t, op, a) /\ pc[t] = "busy" /\ UNCHANGED <<size, slot, events, interest, data>>
      BY <2>4 DEF Begin, FixedTable, OneObject, table, kernel
    <3> HIDE DEF a
    <3> QED BY <2>1, <3>1, <3>2 DEF Locking, ThreadPc
  <2>5. CASE Grow(t) \/ Shut(t)
    BY <2>5 DEF Grow, Shut, OneObject
  <2>a. NoArg \in Arg
    BY DEF NoArg, Arg
  <2>6. CASE Add(t)
    <3>1. /\ pc[t] = "add" /\ arg[t].fd \in Fds /\ arg[t].gen = 1
          /\ Goto(t, "busy", NoArg) /\ UNCHANGED <<size, slot>>
      BY <1>t, <2>6 DEF Add, Return, Goto, table, ArgShape, OneObject
    <3>2. PICK e \in Event : arg[t].ev = {e}
      BY <1>t, <2>6 DEF Add, ArgShape
    <3> DEFINE own == EventsOf(arg[t].fd, 1)
    <3>3. /\ ~Locked(arg[t].fd, 1)
          /\ \/ /\ CtlModDel(arg[t].fd, 1, own \cup {e})
                /\ events' = events \cup {<<arg[t].fd, 1, e>>}
             \/ UNCHANGED kernel /\ UNCHANGED events
      BY <2>6, <3>1, <3>2 DEF Add
    <3>4. CASE /\ CtlModDel(arg[t].fd, 1, own \cup {e})
               /\ events' = events \cup {<<arg[t].fd, 1, e>>}
      <4> DEFINE E == own \cup {e}
      <4>1. E \in SUBSET Event /\ E \ {} = E
        BY DEF EventsOf
      <4>2. /\ \A d \in Event : <<arg[t].fd, 1, d>> \in events' <=> d \in E
            /\ \A fd \in Fds \ {arg[t].fd} : \A d \in Event :
                  <<fd, 1, d>> \in events' <=> <<fd, 1, d>> \in events
        BY <3>4 DEF EventsOf
      <4>3. CtlModDel(arg[t].fd, 1, E \ {})
        BY <3>4, <4>1
      <4> HIDE DEF E
      <4> QED BY <2>2, <2>a, <3>1, <3>3, <4>1, <4>2, <4>3 DEF Locking
    <3>5. CASE UNCHANGED kernel /\ UNCHANGED events
      BY <2>1, <2>a, <3>1, <3>5 DEF Locking, ThreadPc, kernel
    <3> QED BY <3>3, <3>4, <3>5
  <2>7. CASE Del(t)
    <3>1. /\ pc[t] = "del" /\ arg[t].fd \in Fds /\ arg[t].gen = 1
          /\ Goto(t, "busy", NoArg) /\ UNCHANGED <<size, slot>>
      BY <1>t, <2>7 DEF Del, Return, Goto, table, ArgShape, OneObject
    <3>2. PICK e \in Event : arg[t].ev = {e}
      BY <1>t, <2>7 DEF Del, ArgShape
    <3> DEFINE own == EventsOf(arg[t].fd, 1)
    <3>3. /\ ~Locked(arg[t].fd, 1)
          /\ \/ /\ CtlModDel(arg[t].fd, 1, own \ {e})
                /\ events' = events \ {<<arg[t].fd, 1, e>>}
             \/ UNCHANGED kernel /\ UNCHANGED events
      BY <2>7, <3>1, <3>2 DEF Del
    <3>4. CASE /\ CtlModDel(arg[t].fd, 1, own \ {e})
               /\ events' = events \ {<<arg[t].fd, 1, e>>}
      <4> DEFINE E == own \ {e}
      <4>1. E \in SUBSET Event /\ E \ {} = E
        BY DEF EventsOf
      <4>2. /\ \A d \in Event : <<arg[t].fd, 1, d>> \in events' <=> d \in E
            /\ \A fd \in Fds \ {arg[t].fd} : \A d \in Event :
                  <<fd, 1, d>> \in events' <=> <<fd, 1, d>> \in events
        BY <3>4 DEF EventsOf
      <4>3. CtlModDel(arg[t].fd, 1, E \ {})
        BY <3>4, <4>1
      <4> HIDE DEF E
      <4> QED BY <2>2, <2>a, <3>1, <3>3, <4>1, <4>2, <4>3 DEF Locking
    <3>5. CASE UNCHANGED kernel /\ UNCHANGED events
      BY <2>1, <2>a, <3>1, <3>5 DEF Locking, ThreadPc, kernel
    <3> QED BY <3>3, <3>4, <3>5
  \* The operations that go on to trigger what they take out of the mask
  <2>8. ASSUME NEW T \in SUBSET Event, NEW a \in Arg,
               pc[t] \in {"cancel", "all", "event"},
               arg[t].fd \in Fds, arg[t].gen = 1, ~Locked(arg[t].fd, 1),
               a.fd = arg[t].fd, a.gen = 1, a.ev = T,
               \/ /\ CtlModDel(arg[t].fd, 1, EventsOf(arg[t].fd, 1) \ T)
                  /\ Goto(t, "trig", a)
               \/ UNCHANGED kernel /\ Goto(t, "busy", NoArg),
               UNCHANGED <<size, slot, events>>
        PROVE  KernelInv'
    <3>1. CASE UNCHANGED kernel /\ Goto(t, "busy", NoArg)
      BY <2>1, <2>a, <2>8, <3>1 DEF Locking, ThreadPc, kernel
    <3>2. CASE /\ CtlModDel(arg[t].fd, 1, EventsOf(arg[t].fd, 1) \ T)
               /\ Goto(t, "trig", a)
      <4> DEFINE E == EventsOf(arg[t].fd, 1)
      <4>1. E \in SUBSET Event
        BY DEF EventsOf
      <4>2. /\ \A d \in Event : <<arg[t].fd, 1, d>> \in events' <=> d \in E
            /\ \A fd \in Fds \ {arg[t].fd} : \A d \in Event :
                  <<fd, 1, d>> \in events' <=> <<fd, 1, d>> \in events
        BY <2>8 DEF EventsOf
      <4>3. CtlModDel(arg[t].fd, 1, E \ T)
        BY <3>2
      <4> HIDE DEF E
      <4> QED BY <2>2, <2>8, <3>2, <4>1, <4>2, <4>3 DEF Locking
    <3> QED BY <2>8, <3>1, <3>2
  <2>9. CASE Cancel(t)
    <3>1. arg[t].fd \in Fds /\ arg[t].gen = 1 /\ arg[t].ev \in SUBSET Event
      BY <1>t, <2>t, <2>9 DEF Cancel, ArgShape, OneObject, Arg
    <3>2. Return(t) => Goto(t, "busy", NoArg)
      BY DEF Return, Goto
    <3> QED BY <2>8, <2>9, <2>t, <3>1, <3>2 DEF Cancel, table
  <2>10. CASE CancelAll(t)
    <3> DEFINE own == EventsOf(arg[t].fd, 1)
               a == [arg[t] EXCEPT !.ev = own]
    <3>1. pc[t] = "all" /\ arg[t].fd \in Fds /\ arg[t].gen = 1 /\ own \in SUBSET Event
      BY <1>t, <2>10 DEF CancelAll, ArgShape, OneObject, EventsOf
    <3>2. a \in Arg /\ a.fd = arg[t].fd /\ a.gen = 1 /\ a.ev = own
      BY <2>t, <3>1 DEF Arg
    <3>3. own \ own = {}
      OBVIOUS
    <3>4. /\ ~Locked(arg[t].fd, 1)
          /\ \/ CtlModDel(arg[t].fd, 1, {}) /\ Goto(t, "trig", a)
             \/ UNCHANGED kernel /\ Goto(t, "busy", NoArg)
          /\ UNCHANGED <<size, slot, events>>
      BY <2>10, <3>1 DEF CancelAll, Return, Goto, table
    <3>5. \/ CtlModDel(arg[t].fd, 1, EventsOf(arg[t].fd, 1) \ own) /\ Goto(t, "trig", a)
          \/ UNCHANGED kernel /\ Goto(t, "busy", NoArg)
      BY <3>3, <3>4
    <3> HIDE DEF own, a
    <3> QED BY <2>8, <3>1, <3>2, <3>4, <3>5
  <2>11. CASE HandleEvent(t)
    <3> DEFINE own == EventsOf(arg[t].fd, 1)
               T == arg[t].ev \cup (IF arg[t].err THEN own ELSE {})
               a == [arg[t] EXCEPT !.ev = T, !.err = FALSE]
    <3>1. pc[t] = "event" /\ arg[t].fd \in Fds /\ arg[t].gen = 1 /\ T \in SUBSET Event
      BY <1>t, <2>t, <2>11 DEF HandleEvent, ArgShape, OneObject, EventsOf, Arg
    <3>2. a \in Arg /\ a.fd = arg[t].fd /\ a.gen = 1 /\ a.ev = T
      BY <2>t, <3>1 DEF Arg
    <3>3. /\ ~Locked(arg[t].fd, 1)
          /\ \/ CtlModDel(arg[t].fd, 1, EventsOf(arg[t].fd, 1) \ T) /\ Goto(t, "trig", a)
             \/ UNCHANGED kernel /\ Goto(t, "busy", NoArg)
          /\ UNCHANGED <<size, slot, events>>
      BY <2>11, <3>1 DEF HandleEvent, Return, Goto, table
    <3> HIDE DEF T, a
    <3> QED BY <2>8, <3>1, <3>2, <3>3
  <2>12. CASE EnterPoll(t)
    BY <2>1, <2>a, <2>12 DEF EnterPoll, table, kernel, Locking, ThreadPc
  <2>13. CASE PollReturn(t)
    <3>1. CASE Return(t)
      <4>1. Goto(t, "busy", NoArg)
        BY <3>1 DEF Return, Goto
      <4> QED BY <2>1, <2>a, <2>13, <4>1 DEF PollReturn, table, kernel, Locking, ThreadPc
    <3>2. ASSUME NEW fd \in Fds, NEW E \in SUBSET interest[fd], NEW err \in BOOLEAN,
                 interest[fd] # {},
                 Goto(t, "event", [fd |-> fd, gen |-> data[fd], ev |-> E, err |-> err])
          PROVE  KernelInv'
      <4> DEFINE a == [fd |-> fd, gen |-> data[fd], ev |-> E, err |-> err]
      <4>1. a \in Arg /\ a.gen = 1
        BY <1>t, <3>2 DEF Arg, TypeOK, KernelMatches, OneObject
      <4>2. Goto(t, "event", a)
        BY <3>2
      <4> HIDE DEF a
      <4> QED BY <2>1, <2>13, <4>1, <4>2 DEF PollReturn, table, kernel, Locking, ThreadPc
    <3> QED BY <2>13, <3>1, <3>2 DEF PollReturn
  <2>14. CASE Trigger(t)
    <3> DEFINE e == NextOf(arg[t].ev)
    <3>1. /\ pc[t] = "trig" /\ arg[t].fd \in Fds /\ arg[t].gen = 1
          /\ e \in Event /\ e \in arg[t].ev
      BY <1>t, <2>t, <2>14 DEF Trigger, ArgShape, OneObject, Locking, NextOf, Event, Arg
    <3>2. CASE <<arg[t].fd, 1, e>> \in events
      <4>1. /\ pc' = [pc EXCEPT ![t] = "dec"]
            /\ events' = events \ {<<arg[t].fd, 1, e>>}
            /\ UNCHANGED <<size, slot, interest, data, arg>>
        BY <2>14, <3>1, <3>2 DEF Trigger, table, kernel
      <4>2. OneObject'
        BY <1>t, <3>1, <4>1 DEF OneObject, TypeOK, Locking
      <4>3. Cleared'
        BY <1>t, <3>1, <4>1 DEF Cleared, Decrementing, TypeOK
      <4>4. \A fd \in Fds : Triggering(fd, 1)' = Triggering(fd, 1)
        BY <1>t, <3>1, <4>1 DEF Triggering, TypeOK, Locking
      <4>a. PICK fd0 \in Fds : arg[t].fd = fd0
        BY <3>1
      <4>5. e \in Triggering(fd0, 1)
        BY <3>1, <4>a DEF Triggering, Locking
      <4>6. /\ EventsOf(fd0, 1)' = EventsOf(fd0, 1) \ {e}
            /\ \A fd \in Fds \ {fd0} : EventsOf(fd, 1)' = EventsOf(fd, 1)
        BY <4>1, <4>a DEF EventsOf
      <4>7. \A fd \in Fds : slot[fd] = 1 /\ slot'[fd] = 1
        BY <4>1 DEF OneObject
      <4>8. \A fd \in Fds :
               EventsOf(fd, 1)' \ Triggering(fd, 1)' = EventsOf(fd, 1) \ Triggering(fd, 1)
        <5>1. \A fd \in Fds \ {fd0} :
                 EventsOf(fd, 1)' \ Triggering(fd, 1)' = EventsOf(fd, 1) \ Triggering(fd, 1)
          BY <4>4, <4>6
        <5>2. EventsOf(fd0, 1)' \ Triggering(fd0, 1)' = EventsOf(fd0, 1) \ Triggering(fd0, 1)
          BY <4>4, <4>5, <4>6
        <5> QED BY <5>1, <5>2
      <4>9. KernelMatches'
        BY <4>1, <4>7, <4>8 DEF KernelMatches
      <4> QED BY <1>0, <4>2, <4>3, <4>9
    <3>3. CASE <<arg[t].fd, 1, e>> \notin events
      <4>1. UNCHANGED <<size, slot, events, interest, data, pc, arg>>
        BY <2>14, <3>1, <3>3 DEF Trigger, table, kernel
      <4> QED BY <1>0, <4>1 DEF OneObject, Cleared, KernelMatches, Decrementing, EventsOf,
            Triggering
    <3> QED BY <3>2, <3>3
  <2>15. CASE Decrement(t)
    <3> DEFINE e == NextOf(arg[t].ev)
               rest == arg[t].ev \ {e}
               a == [arg[t] EXCEPT !.ev = rest]
    <3>1. /\ pc[t] = "dec" /\ arg[t].fd \in Fds /\ arg[t].gen = 1
          /\ t \in Decrementing /\ rest \in SUBSET Event
      BY <1>t, <2>t, <2>15 DEF Decrement, ArgShape, OneObject, Decrementing, Arg
    <3>2. a \in Arg /\ a.fd = arg[t].fd /\ a.gen = 1 /\ a.ev = rest
      BY <2>t, <3>1 DEF Arg
    <3>3. e \notin EventsOf(arg[t].fd, 1)
      BY <3>1 DEF Cleared, EventsOf
    <3>4. /\ \/ Goto(t, "trig", a)
             \/ rest = {} /\ Goto(t, "busy", NoArg)
          /\ UNCHANGED <<size, slot, events, interest, data>>
      BY <2>15, <3>1 DEF Decrement, Return, Goto, table, kernel
    <3> HIDE DEF a
    <3>5. PICK loc \in {"trig", "busy"}, b \in Arg :
             /\ pc' = [pc EXCEPT ![t] = loc] /\ arg' = [arg EXCEPT ![t] = b]
             /\ loc = "trig" => b = a
             /\ loc = "busy" => rest = {}
      BY <2>a, <3>2, <3>4 DEF Goto
    <3>6. OneObject'
      BY <1>t, <3>1, <3>2, <3>4, <3>5 DEF OneObject, TypeOK, Locking
    <3>7. Cleared'
      BY <1>t, <3>4, <3>5 DEF Cleared, Decrementing, TypeOK
    <3>a. PICK fd0 \in Fds : arg[t].fd = fd0
      BY <3>1
    <3>8. \A fd \in Fds \ {fd0} : Triggering(fd, 1)' = Triggering(fd, 1)
      BY <1>t, <3>1, <3>2, <3>5, <3>a DEF Triggering, TypeOK, Locking
    <3>9. \A u \in Threads \ {t} :
             pc'[u] = pc[u] /\ arg'[u] = arg[u]
                /\ (pc[u] \in Locking => arg[u].fd # fd0)
      BY <1>t, <3>1, <3>5, <3>a DEF TypeOK, OneObject, Locking
    <3>10. pc'[t] = loc /\ arg'[t] = b
      BY <1>t, <3>5 DEF TypeOK
    <3>11. Triggering(fd0, 1) = arg[t].ev
      BY <2>t, <3>1, <3>9, <3>a DEF Triggering, Locking, Arg
    <3>12. Triggering(fd0, 1)' = rest
      BY <3>1, <3>2, <3>5, <3>9, <3>10, <3>a DEF Triggering, Locking
    <3>13. \A fd \in Fds : EventsOf(fd, 1)' = EventsOf(fd, 1)
      BY <3>4 DEF EventsOf
    <3>14. \A fd \in Fds :
              EventsOf(fd, 1)' \ Triggering(fd, 1)' = EventsOf(fd, 1) \ Triggering(fd, 1)
      <4>1. \A fd \in Fds \ {fd0} :
               EventsOf(fd, 1)' \ Triggering(fd, 1)' = EventsOf(fd, 1) \ Triggering(fd, 1)
        BY <3>8, <3>13
      <4>2. EventsOf(fd0, 1)' \ Triggering(fd0, 1)' = EventsOf(fd0, 1) \ Triggering(fd0, 1)
        BY <3>3, <3>11, <3>12, <3>13, <3>a
      <4> QED BY <4>1, <4>2
    <3>15. \A fd \in Fds : slot[fd] = 1 /\ slot'[fd] = 1
      BY <3>4 DEF OneObject
    <3>16. KernelMatches'
      BY <3>4, <3>14, <3>15 DEF KernelMatches
    <3> QED BY <1>0, <3>6, <3>7, <3>16
  <2> QED
    <3>1. ASSUME NEW fd \in Fds, NEW e \in Event,
                 Begin(t, "del", fd, {e}) \/ Begin(t, "cancel", fd, {e})
          PROVE  KernelInv'
      BY <2>4, <3>1
    <3>2. ASSUME NEW fd \in Fds, Begin(t, "all", fd, {})
          PROVE  KernelInv'
      BY <2>4, <3>2
    <3>3. Closable = {}
      BY DEF FixedTable
    <3> QED BY <1>2, <2>3, <2>5, <2>6, <2>7, <2>9, <2>10, <2>11, <2>12, <2>13, <2>14,
               <2>15, <3>1, <3>2, <3>3 DEF Step
<1> QED BY <1>1, <1>2 DEF Next

\* The epoll instance watches exactly the events that have a waiter and are not
\* being triggered, when no handle is closed and the table is never resized: no
\* interleaving of the operations and the pollers leaves a waiter unregistered.
THEOREM KernelCorrect ==
    ASSUME FixedTable
    PROVE  Spec => []KernelMatches
<1> QED BY KernelInit, KernelStep, PTL DEF Spec, KernelInv

(***************************************************************************)
(* One thread: the assertion of triggerEvent                               *)
(***************************************************************************)

\* An IOManager with one thread: nothing happens between epoll_wait and the handling of
\* its result.
SingleThread == \A t, u \in Threads : t = u

\* The kernel reports only events that are set in the object it points to, and what a thread
\* goes on to trigger is set and no longer of interest.
StillSet(t) ==
    /\ pc[t] \in {"event", "trig", "trigclose"} => arg[t].ev \subseteq EventsOf(arg[t].fd, arg[t].gen)
    /\ pc[t] \in {"dec", "decclose"} =>
            arg[t].ev \ {NextOf(arg[t].ev)} \subseteq EventsOf(arg[t].fd, arg[t].gen)
    /\ pc[t] \in Locking => interest[arg[t].fd] \cap arg[t].ev = {}

TriggerInv ==
    /\ PendingInv
    /\ \A fd \in Fds : interest[fd] \subseteq EventsOf(fd, data[fd])
    /\ \A t \in Threads : StillSet(t)

\* The only thread moves.
LEMMA MoveOnly ==
    ASSUME SingleThread, PendingInv, NEW t \in Threads, NEW loc, NEW a, Goto(t, loc, a)
    PROVE  pc'[t] = loc /\ arg'[t] = a /\ \A u \in Threads : u = t
BY DEF SingleThread, PendingInv, TypeOK, Goto

\* epoll_ctl, for the handle and for the others.
LEMMA CtlMasks ==
    ASSUME TypeOK, NEW fd \in Fds, NEW g, NEW mask, CtlModDel(fd, g, mask)
    PROVE  /\ interest'[fd] = mask /\ (mask # {} => data'[fd] = g)
           /\ \A h \in Fds \ {fd} : interest'[h] = interest[h] /\ data'[h] = data[h]
BY DEF CtlModDel, TypeOK

\* Every step keeps it.
LEMMA TriggerStep ==
    ASSUME SingleThread, TriggerInv, [Next]_vars
    PROVE  TriggerInv'
<1> USE DEF TriggerInv
<1>1. PendingInv'
  BY PendingStep
<1>2. CASE UNCHANGED vars
  BY <1>1, <1>2 DEF vars, StillSet, EventsOf
<1>3. ASSUME NEW t \in Threads, Step(t)
      PROVE  TriggerInv'
  <2> DEFINE Watches == \A fd \in Fds : interest[fd] \subseteq EventsOf(fd, data[fd])
  <2>1. TypeOK /\ TypeOK' /\ ArgShape
    BY <1>1 DEF PendingInv
  <2>2. arg[t] \in Arg /\ \A u \in Threads : u = t
    BY <2>1 DEF TypeOK, SingleThread
  <2>3. ASSUME NEW loc, loc \notin Locking \cup {"event"}, NEW a, Goto(t, loc, a) PROVE StillSet(t)'
    BY <2>3, MoveOnly DEF StillSet, Locking
  <2>4. ASSUME UNCHANGED <<events, kernel>> PROVE Watches'
    BY <2>4 DEF EventsOf, kernel
  <2>5. ASSUME Watches', StillSet(t)' PROVE TriggerInv'
    BY <1>1, <2>2, <2>5
  <2>6. ASSUME NEW loc, loc \notin Locking \cup {"event"}, NEW a, Goto(t, loc, a), UNCHANGED <<events, kernel>>
        PROVE  TriggerInv'
    BY <2>3, <2>4, <2>5, <2>6
  <2>7. {"busy", "grow", "add", "del", "cancel", "all", "close", "poll", "shut"} \cap (Locking \cup {"event"}) = {}
    BY DEF Locking
  <2>8. ASSUME NEW fd \in Fds, NEW e \in Event, BeginAdd(t, fd, e) PROVE TriggerInv'
    BY <2>6, <2>7, <2>8 DEF BeginAdd
  <2>9. ASSUME NEW op \in {"del", "cancel", "all", "close"}, NEW fd \in Fds, NEW E, Begin(t, op, fd, E)
        PROVE  TriggerInv'
    BY <2>6, <2>7, <2>9 DEF Begin
  <2>10. CASE Grow(t)
    BY <2>6, <2>7, <2>10 DEF Grow
  <2>11. CASE EnterPoll(t)
    BY <2>6, <2>7, <2>11 DEF EnterPoll
  <2>12. ASSUME Return(t) PROVE StillSet(t)' /\ (UNCHANGED <<events, kernel>> => TriggerInv')
    <3>1. Goto(t, "busy", NoArg)
      BY <2>12 DEF Return, Goto
    <3> QED BY <2>3, <2>6, <2>7, <3>1
  <2>13. ASSUME NEW fd \in Fds, NEW g, NEW mask, CtlModDel(fd, g, mask),
                mask \subseteq EventsOf(fd, g)',
                \A h \in Fds \ {fd} : \A n : EventsOf(h, n)' = EventsOf(h, n)
         PROVE  Watches'
    <3>1. /\ interest'[fd] = mask /\ (mask # {} => data'[fd] = g)
          /\ \A h \in Fds \ {fd} : interest'[h] = interest[h] /\ data'[h] = data[h]
      BY <2>1, <2>13, CtlMasks
    <3>2. \A h \in Fds : \A n, e : e \in EventsOf(h, n)' <=> e \in Event /\ <<h, n, e>> \in events'
      BY DEF EventsOf
    <3>3. \A e \in mask : <<fd, g, e>> \in events' /\ e \in Event
      BY <2>13 DEF EventsOf
    <3>4. \A h \in Fds \ {fd} : \A e \in interest[h] : <<h, data[h], e>> \in events' /\ e \in Event
      BY <2>13, <3>2 DEF EventsOf
    <3> SUFFICES ASSUME NEW h \in Fds, NEW e \in interest'[h] PROVE <<h, data'[h], e>> \in events' /\ e \in Event
      BY DEF EventsOf
    <3>5. CASE h = fd
      BY <3>1, <3>3, <3>5
    <3>6. CASE h # fd
      BY <3>1, <3>4, <3>6
    <3> QED BY <3>5, <3>6
  <2>14. CASE Add(t)
    <3>1. Return(t) /\ pc[t] = "add"
      BY <2>14 DEF Add
    <3>2. CASE UNCHANGED <<events, kernel>>
      BY <2>12, <3>1, <3>2
    <3>3. PICK fd \in Fds : fd = arg[t].fd
      BY <2>1, <3>1 DEF ArgShape
    <3>4. PICK g : g = arg[t].gen
      OBVIOUS
    <3>5. CASE /\ CtlModDel(fd, g, EventsOf(fd, g) \cup arg[t].ev)
               /\ events' = events \cup {<<fd, g, e>> : e \in arg[t].ev}
      <4>1. arg[t].ev \subseteq Event
        BY <2>2 DEF Arg
      <4>2. EventsOf(fd, g) \cup arg[t].ev \subseteq EventsOf(fd, g)'
        BY <3>5, <4>1 DEF EventsOf
      <4>3. \A h \in Fds \ {fd} : \A n : EventsOf(h, n)' = EventsOf(h, n)
        BY <3>5 DEF EventsOf
      <4>4. Watches'
        BY <2>13, <3>5, <4>2, <4>3
      <4> QED BY <2>5, <2>12, <3>1, <4>4
    <3> QED BY <2>14, <3>2, <3>3, <3>4, <3>5 DEF Add
  <2>15. CASE Del(t)
    <3>1. Return(t) /\ pc[t] = "del"
      BY <2>15 DEF Del
    <3>2. CASE UNCHANGED <<events, kernel>>
      BY <2>12, <3>1, <3>2
    <3>3. PICK fd \in Fds : fd = arg[t].fd
      BY <2>1, <3>1 DEF ArgShape
    <3>4. PICK g : g = arg[t].gen
      OBVIOUS
    <3>5. CASE /\ CtlModDel(fd, g, EventsOf(fd, g) \ arg[t].ev)
               /\ events' = events \ {<<fd, g, e>> : e \in arg[t].ev}
      <4>1. EventsOf(fd, g) \ arg[t].ev \subseteq EventsOf(fd, g)'
        BY <3>5 DEF EventsOf
      <4>2. \A h \in Fds \ {fd} : \A n : EventsOf(h, n)' = EventsOf(h, n)
        BY <3>5 DEF EventsOf
      <4>3. Watches'
        BY <2>13, <3>5, <4>1, <4>2
      <4> QED BY <2>5, <2>12, <3>1, <4>3
    <3> QED BY <2>15, <3>2, <3>3, <3>4, <3>5 DEF Del
  \* From here on the events stay, and what is to be triggered leaves the kernel's mask.
  <2>16. ASSUME NEW fd \in Fds, NEW g, NEW E \in SUBSET EventsOf(fd, g), NEW loc \in {"trig", "trigclose"},
                NEW a, a.fd = fd, a.gen = g, a.ev = E, Goto(t, loc, a),
                CtlModDel(fd, g, EventsOf(fd, g) \ E), UNCHANGED events
         PROVE  TriggerInv'
    <3>1. \A h, n : EventsOf(h, n)' = EventsOf(h, n)
      BY <2>16 DEF EventsOf
    <3>2. Watches'
      BY <2>13, <2>16, <3>1
    <3>3. interest'[fd] = EventsOf(fd, g) \ E
      BY <2>1, <2>16, CtlMasks
    <3>4. pc'[t] = loc /\ arg'[t] = a
      BY <2>16, MoveOnly
    <3>5. EventsOf(arg[t].fd, arg[t].gen)' = EventsOf(fd, g)
      BY <2>16, <3>4 DEF EventsOf
    <3>6. StillSet(t)'
      BY <2>16, <3>3, <3>4, <3>5 DEF StillSet
    <3> QED BY <2>5, <3>2, <3>6
  <2>17. CASE Cancel(t)
    <3>1. pc[t] = "cancel" /\ UNCHANGED events /\ arg[t].fd \in Fds
      BY <2>1, <2>17 DEF Cancel, ArgShape
    <3>2. CASE UNCHANGED kernel /\ Return(t)
      BY <2>12, <3>1, <3>2
    <3>3. CASE /\ arg[t].ev \subseteq EventsOf(arg[t].fd, arg[t].gen)
               /\ CtlModDel(arg[t].fd, arg[t].gen, EventsOf(arg[t].fd, arg[t].gen) \ arg[t].ev)
               /\ Goto(t, "trig", arg[t])
      BY <2>16, <3>1, <3>3
    <3> QED BY <2>17, <3>2, <3>3 DEF Cancel
  <2>18. CASE CancelAll(t)
    <3> DEFINE own == EventsOf(arg[t].fd, arg[t].gen)
               a == [arg[t] EXCEPT !.ev = own]
    <3>1. pc[t] \in {"all", "close"} /\ UNCHANGED events /\ arg[t].fd \in Fds
      BY <2>1, <2>18 DEF CancelAll, ArgShape
    <3>2. CASE UNCHANGED kernel /\ Return(t)
      BY <2>12, <3>1, <3>2
    <3>3. CASE UNCHANGED kernel /\ Goto(t, "shut", arg[t])
      BY <2>6, <2>7, <3>1, <3>3
    <3>4. CASE /\ CtlModDel(arg[t].fd, arg[t].gen, {})
               /\ Goto(t, "trig", a) \/ Goto(t, "trigclose", a)
      <4>1. a.fd = arg[t].fd /\ a.gen = arg[t].gen /\ a.ev = own
        BY <2>2 DEF Arg
      <4>2. own \ own = {}
        OBVIOUS
      <4> HIDE DEF a
      <4> QED BY <2>16, <3>1, <3>4, <4>1, <4>2, ZenonT(60)
    <3> QED BY <2>18, <3>2, <3>3, <3>4 DEF CancelAll
  <2>19. CASE Shut(t)
    <3>1. CtlModDel(arg[t].fd, 0, {}) /\ Return(t) /\ UNCHANGED events /\ pc[t] = "shut"
      BY <2>19 DEF Shut
    <3>2. arg[t].fd \in Fds /\ \A h, n : EventsOf(h, n)' = EventsOf(h, n)
      BY <2>1, <3>1 DEF ArgShape, EventsOf
    <3>3. PICK fd \in Fds : fd = arg[t].fd
      BY <3>2
    <3>4. Watches'
      BY <2>13, <3>1, <3>2, <3>3
    <3> QED BY <2>5, <2>12, <3>1, <3>4
  <2>20. CASE PollReturn(t)
    <3>1. UNCHANGED <<events, kernel>>
      BY <2>20 DEF PollReturn
    <3>2. CASE Return(t)
      BY <2>12, <3>1, <3>2
    <3>3. ASSUME NEW fd \in Fds, NEW E \in SUBSET interest[fd], NEW err \in BOOLEAN,
                 Goto(t, "event", [fd |-> fd, gen |-> data[fd], ev |-> E, err |-> err])
          PROVE  TriggerInv'
      <4>1. pc'[t] = "event" /\ arg'[t].fd = fd /\ arg'[t].gen = data[fd] /\ arg'[t].ev = E
        BY <3>3, MoveOnly
      <4>2. E \subseteq EventsOf(fd, data[fd])
        OBVIOUS
      <4>3. EventsOf(arg[t].fd, arg[t].gen)' = EventsOf(fd, data[fd])
        BY <3>1, <4>1 DEF EventsOf
      <4>4. StillSet(t)'
        BY <4>1, <4>2, <4>3 DEF StillSet, Locking
      <4> QED BY <2>4, <2>5, <3>1, <4>4
    <3> QED BY <2>20, <3>2, <3>3 DEF PollReturn
  <2>21. CASE HandleEvent(t)
    <3> DEFINE own == EventsOf(arg[t].fd, arg[t].gen)
               real == arg[t].ev \cup (IF arg[t].err THEN own ELSE {})
               a == [arg[t] EXCEPT !.ev = real, !.err = FALSE]
    <3>1. pc[t] = "event" /\ UNCHANGED events /\ arg[t].fd \in Fds
      BY <2>1, <2>21 DEF HandleEvent, ArgShape
    <3>2. CASE UNCHANGED kernel /\ Return(t)
      BY <2>12, <3>1, <3>2
    <3>3. CASE CtlModDel(arg[t].fd, arg[t].gen, own \ real) /\ Goto(t, "trig", a)
      <4>1. a.fd = arg[t].fd /\ a.gen = arg[t].gen /\ a.ev = real
        BY <2>2 DEF Arg
      <4>2. real \subseteq own
        BY <3>1 DEF StillSet
      <4> HIDE DEF a, real
      <4> QED BY <2>16, <3>1, <3>3, <4>1, <4>2
    <3> QED BY <2>21, <3>2, <3>3 DEF HandleEvent
  <2>22. CASE Trigger(t)
    <3> DEFINE x == <<arg[t].fd, arg[t].gen, NextOf(arg[t].ev)>>
    <3>1. pc[t] \in {"trig", "trigclose"} /\ UNCHANGED <<kernel, arg>>
      BY <2>22 DEF Trigger
    <3>2. arg[t].ev # {} /\ arg[t].ev \subseteq Event /\ arg[t].fd \in Fds
      BY <2>1, <2>2, <3>1 DEF ArgShape, Locking, Arg
    <3>3. NextOf(arg[t].ev) \in arg[t].ev
      BY <3>2 DEF NextOf, Event
    <3>4. x \in events
      BY <3>1, <3>3 DEF StillSet, EventsOf
    <3>5. events' = events \ {x} /\ pc'[t] \in {"dec", "decclose"}
      BY <2>22, <3>1, <3>4 DEF Trigger, TypeOK, PendingInv
    <3>6. interest[arg[t].fd] \cap arg[t].ev = {}
      BY <3>1 DEF StillSet, Locking
    <3>7. Watches'
      <4> SUFFICES ASSUME NEW fd \in Fds, NEW e \in interest[fd] PROVE <<fd, data[fd], e>> \in events' /\ e \in Event
        BY <3>1 DEF EventsOf, kernel
      <4>1. <<fd, data[fd], e>> \in events /\ e \in Event
        BY DEF EventsOf
      <4>2. <<fd, data[fd], e>> # x
        BY <3>3, <3>6
      <4> QED BY <3>5, <4>1, <4>2
    <3>8. arg[t].ev \ {NextOf(arg[t].ev)} \subseteq EventsOf(arg[t].fd, arg[t].gen)'
      BY <3>1, <3>2, <3>5 DEF StillSet, EventsOf
    <3>9. StillSet(t)'
      BY <3>1, <3>5, <3>6, <3>8 DEF StillSet, kernel
    <3> QED BY <2>5, <3>7, <3>9
  <2>23. CASE Decrement(t)
    <3> DEFINE rest == arg[t].ev \ {NextOf(arg[t].ev)}
               a == [arg[t] EXCEPT !.ev = rest]
    <3>1. pc[t] \in {"dec", "decclose"} /\ UNCHANGED <<events, kernel>>
      BY <2>23 DEF Decrement
    <3>2. CASE Return(t)
      BY <2>12, <3>1, <3>2
    <3>3. CASE Goto(t, "shut", a)
      BY <2>6, <2>7, <3>1, <3>3
    <3>4. CASE Goto(t, "trig", a) \/ Goto(t, "trigclose", a)
      <4>1. a.fd = arg[t].fd /\ a.gen = arg[t].gen /\ a.ev = rest
        BY <2>2 DEF Arg
      <4>2. pc'[t] \in {"trig", "trigclose"} /\ arg'[t] = a
        BY <3>4, MoveOnly
      <4>3. rest \subseteq EventsOf(arg[t].fd, arg[t].gen) /\ interest[arg[t].fd] \cap rest = {}
        BY <3>1 DEF StillSet, Locking
      <4>4. EventsOf(arg[t].fd, arg[t].gen)' = EventsOf(arg[t].fd, arg[t].gen)
        BY <3>1, <4>1, <4>2 DEF EventsOf
      <4>5. StillSet(t)'
        BY <3>1, <4>1, <4>2, <4>3, <4>4 DEF StillSet, kernel
      <4> QED BY <2>4, <2>5, <3>1, <4>5
    <3> QED BY <2>23, <3>2, <3>3, <3>4 DEF Decrement
  <2> QED
    BY <1>3, <2>8, <2>9, <2>10, <2>11, <2>14, <2>15, <2>17, <2>18, <2>19, <2>20, <2>21, <2>22, <2>23,
       FdsAssumption DEF Step
<1> QED BY <1>2, <1>3 DEF Next

\* On one thread the assertion of triggerEvent never fails, though handles are closed, the
\* table grows and events are deleted and cancelled between the polls: whatever epoll_wait
\* reports is still set when it is handled, as no result gets stale on one thread. With a
\* second thread one may, and the theorem says nothing of it.
THEOREM TriggerAssertsHold ==
    ASSUME SingleThread
    PROVE  Spec => []TriggerAsserts
<1>1. Init => TriggerInv
  BY PendingInit DEF Init, TriggerInv, StillSet, Locking
<1>2. TriggerInv /\ [Next]_vars => TriggerInv'
  BY TriggerStep
<1>3. TriggerInv => TriggerAsserts
  <2> SUFFICES ASSUME TriggerInv, NEW t \in Threads, pc[t] \in {"trig", "trigclose"}
               PROVE  <<arg[t].fd, arg[t].gen, NextOf(arg[t].ev)>> \in events
    BY DEF TriggerAsserts
  <2>1. arg[t].ev # {} /\ arg[t].ev \subseteq Event
    BY DEF TriggerInv, PendingInv, TypeOK, ArgShape, Locking, Arg
  <2>2. NextOf(arg[t].ev) \in arg[t].ev
    BY <2>1 DEF NextOf, Event
  <2> QED BY <2>2 DEF TriggerInv, StillSet, EventsOf
<1> QED BY <1>1, <1>2, <1>3, PTL DEF Spec
============================================================================
