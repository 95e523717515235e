------------------------------- MODULE MCHook -------------------------------
(* Small instances of Hook for TLC. *)
EXTENDS Hook

CONSTANTS f1, f2

Do(f, o, fd, e, v) == [by |-> f, op |-> o, fd |-> fd, ev |-> e, on |-> v]

\* f1 sleeps, accepts and connects; f2, which may be on a thread
\* without hook, writes, configures, closes and reopens the same handle.
MixedCalls ==
    {Do(f1, "connect", 1, "WRITE", FALSE),
     Do(f1, "accept", 1, "READ", FALSE), Do(f1, "sleep", 1, "READ", FALSE),
     Do(f2, "send", 1, "WRITE", FALSE), Do(f2, "close", 1, "READ", FALSE),
     Do(f2, "socket", 1, "READ", FALSE),
     Do(f2, "fcntl", 1, "READ", TRUE), Do(f2, "fcntl", 1, "READ", FALSE),
     Do(f2, "ioctl", 1, "READ", FALSE), Do(f2, "setsockopt", 1, "READ", FALSE)}

\* One thread, with both fibers or with f2 outside; and two threads
SmallPools == {[threads |-> 1, hooked |-> {f1, f2}], [threads |-> 1, hooked |-> {f1}],
               [threads |-> 2, hooked |-> {f1, f2}]}

CallBounds == [f \in {f1, f2} |-> 2]
=============================================================================
