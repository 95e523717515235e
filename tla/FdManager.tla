----------------------------- MODULE FdManager -----------------------------
(***************************************************************************)
(* The table of handle contexts (ljrServer/fd_manager.h, fd_manager.cpp):  *)
(* FdCtx remembers, for a socket the hooks created, which blocking mode    *)
(* its user asked for and the timeouts of its reads and writes; FdManager  *)
(* keeps one FdCtx per handle in a vector under a read-write lock.  The    *)
(* operators below are the critical sections; the module Hook interleaves  *)
(* them.  A timeout is abstracted to whether there is one: the code only   *)
(* tells (uint64_t)-1, "never", from the other values.                     *)
(***************************************************************************)
EXTENDS Integers

CONSTANTS
    Fds,           \* handles, natural numbers
    InitialSize,   \* the size the constructor gives m_datas (64 in the code)
    NoCtx          \* the null FdCtx::ptr

ASSUME FdsAreHandles == Fds \subseteq Nat
ASSUME InitialSizeAssumption == InitialSize \in Nat

Events == {"READ", "WRITE"}

VARIABLES
    m_datas,       \* the context of every handle, or NoCtx
    size           \* the size of the vector m_datas

table == <<m_datas, size>>

FdCtxs == [isSocket : BOOLEAN, sysNonblock : BOOLEAN, userNonblock : BOOLEAN,
           timed : [Events -> BOOLEAN]]

\* FdCtx::FdCtx and init: the handle is a socket when fstat finds it (only
\* socket() and accept() create contexts), and a socket is made nonblocking
FdCtx(isOpen) ==
    [isSocket |-> isOpen, sysNonblock |-> isOpen, userNonblock |-> FALSE,
     timed |-> [e \in Events |-> FALSE]]

\* get(fd): the test is size < fd, so fd = size reads one past the vector; the
\* model reads null there
get(fd) == IF fd < size THEN m_datas[fd] ELSE NoCtx

\* get(fd, true) under the read lock: is there a context to return?
Found(fd) == get(fd) # NoCtx

\* get(fd, true) under the write lock: a new context replaces whatever is in
\* the slot by now, after the vector has grown to 1.5 times the handle
GrownSize(fd) == IF fd >= size THEN (fd * 3) \div 2 ELSE size
Create(fd, isOpen) ==
    /\ size' = GrownSize(fd)
    /\ m_datas' = [m_datas EXCEPT ![fd] = FdCtx(isOpen)]

\* del(fd)
del(fd) ==
    /\ m_datas' = IF size <= fd THEN m_datas ELSE [m_datas EXCEPT ![fd] = NoCtx]
    /\ UNCHANGED size

setUserNonblock(fd, v) ==
    /\ m_datas' = [m_datas EXCEPT ![fd].userNonblock = v]
    /\ UNCHANGED size

setTimeout(fd, e) ==
    /\ m_datas' = [m_datas EXCEPT ![fd].timed[e] = TRUE]
    /\ UNCHANGED size

TableTypeOK ==
    /\ m_datas \in [Fds -> FdCtxs \cup {NoCtx}]
    /\ size \in Nat
    /\ \A fd \in Fds : m_datas[fd] # NoCtx => fd < size
=============================================================================
