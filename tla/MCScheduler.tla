---------------------------- MODULE MCScheduler ----------------------------
(* Small instances of Scheduler for TLC. *)
EXTENDS Scheduler

CONSTANTS w1, w2, c1, a, b, c

Call(by, f, th) == [by |-> by, task |-> f, thread |-> th]

\* Two workers and the caller's thread: the owner pins a to the caller's thread,
\* where it runs inside stop(); a schedules b for any thread.
PoolCalls == {Call(Main, a, c1), Call(a, b, AnyThread)}

\* One thread only; b is scheduled twice, by the owner and by a.
SingleCalls == {Call(Main, a, AnyThread), Call(Main, b, c1), Call(a, b, AnyThread)}

\* Two workers; a may wait, and b is scheduled twice.
WildCalls == {Call(Main, a, AnyThread), Call(Main, b, w1), Call(a, b, AnyThread)}
=============================================================================
