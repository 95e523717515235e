------------------------------- MODULE Socket -------------------------------
(***************************************************************************)
(* The Socket object (ljrServer/socket.h, socket.cpp): a handle, or none,  *)
(* and whether it is connected.  The system calls succeed or fail as the   *)
(* caller chooses.  Addresses, options and address families are left out:  *)
(* they do not change what the object may do next.                         *)
(***************************************************************************)

NoFd == 0         \* m_sock = -1

\* Socket::Socket and the Create... functions: the handle is made on demand
NewSocket == [m_sock |-> NoFd, m_isConnected |-> FALSE]

isValid(s) == s.m_sock # NoFd

\* newSock: the handle ::socket returned, or none
newSock(s, fd) == [s EXCEPT !.m_sock = fd]

\* bind and then listen, each with the handle it finds or makes
bound(s, fd) == IF isValid(s) THEN s ELSE newSock(s, fd)
listen(s, ok) == isValid(s) /\ ok

\* close, also of the destructor; closing twice does nothing
closed(s) == IF ~s.m_isConnected /\ ~isValid(s) THEN s ELSE NewSocket

\* init: the object takes a handle that has a context of an open socket
init(s, fd, known) == IF known THEN [s EXCEPT !.m_sock = fd, !.m_isConnected = TRUE] ELSE s

\* accept: a new object for the handle ::accept returned
accepted(fd, known) == init(NewSocket, fd, known)

\* send, recv and their vector and datagram forms return -1 unless connected
mayTransfer(s) == s.m_isConnected
=============================================================================
