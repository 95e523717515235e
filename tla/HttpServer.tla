---------------------------- MODULE HttpServer ----------------------------
(***************************************************************************)
(* TcpServer and HttpServer (ljrServer/tcp_server.cpp, http/http_server.   *)
(* cpp): one fiber per listening socket accepts clients, one fiber per     *)
(* client receives requests, dispatches them and sends the responses, and  *)
(* stop() ends the accepting.  All fibers are on the one thread that       *)
(* Application gives the server, so a fiber runs from one system call that *)
(* may wait to the next; m_isStop and the servlets are changed by others.  *)
(* Clients are external: they connect, send requests without waiting for   *)
(* the answers, and close.                                                 *)
(***************************************************************************)
EXTENDS HttpSession, Servlet, Socket, FiniteSets

CONSTANTS
    Addrs,          \* the addresses a server may listen on
    Clients,        \* clients, each with one connection
    Dial,           \* the address each client connects to
    Script,         \* the requests of each client: records [path, n, close]
    BuffSize,       \* http.request.buffer_size
    MaxTimeouts,    \* bound on the receive timeouts of a connection
    MaxEvents       \* bound on what comes from outside: connections, requests and
                    \* changes of the servlets together

ASSUME ServerConstants ==
    /\ Dial \in [Clients -> Addrs]
    /\ Script \in [Clients -> Seq([path : Paths, n : Nat, close : BOOLEAN])]
    /\ BuffSize \in Nat \ {0} /\ MaxTimeouts \in Nat /\ MaxEvents \in Nat

VARIABLES
    child,          \* the serving process: "none", "main" before run_fiber, "run"
    m_isStop,
    m_isKeepalive,
    lsock,          \* the listening socket of each address in m_socks
    acc,            \* the fiber in startAccept for each address
    stopping,       \* the task stop() schedules has not run yet
    client,         \* each client: "idle", "open" or "closed"
    backlog,        \* connections the kernel has made and nobody accepted
    wire,           \* units on their way to the server
    sent,           \* how many requests a client has sent
    ssock, ses, rx, \* of each session: socket, place in handleClient, request
    slt,            \* the servlet getMatchedServlet returned
    answers,        \* the responses a client was sent
    timeouts,       \* receive timeouts so far
    admin           \* changes of the servlets so far

tcp == <<m_isStop, m_isKeepalive, lsock, acc, stopping>>
peers == <<client, backlog, wire, sent>>
sessions == <<ssock, ses, rx, slt, answers, timeouts>>
serverVars == <<child, tcp, peers, sessions, dispatch, admin>>

\* A process that has just started
Booted ==
    /\ m_isStop' = TRUE
    /\ lsock' = [a \in Addrs |-> NewSocket]
    /\ acc' = [a \in Addrs |-> "none"]
    /\ stopping' = FALSE

ServerInit ==
    /\ child = "none" /\ m_isStop = TRUE
    /\ lsock = [a \in Addrs |-> NewSocket] /\ acc = [a \in Addrs |-> "none"]
    /\ stopping = FALSE
    /\ client = [c \in Clients |-> "idle"] /\ backlog = [a \in Addrs |-> <<>>]
    /\ wire = [c \in Clients |-> <<>>] /\ sent = [c \in Clients |-> 0]
    /\ ssock = [c \in Clients |-> NewSocket] /\ ses = [c \in Clients |-> "none"]
    /\ rx = [c \in Clients |-> NewRecv] /\ slt = [c \in Clients |-> NoServlet]
    /\ answers = [c \in Clients |-> <<>>] /\ timeouts = [c \in Clients |-> 0]
    /\ DispatchInit /\ admin = 0

-----------------------------------------------------------------------------
(* TcpServer                                                               *)

\* bind(addrs, fails): a socket for each address; if one fails, none is kept
bind(addrs, fails) ==
    [a \in Addrs |-> IF a \in addrs /\ fails = {} /\ listen(bound(NewSocket, 1), TRUE)
                     THEN bound(NewSocket, 1) ELSE NewSocket]

m_socks == {a \in Addrs : isValid(lsock[a])}

\* start: one startAccept per socket
start(socks) ==
    /\ m_isStop' = FALSE
    /\ acc' = [a \in Addrs |-> IF a \in socks THEN "check" ELSE acc[a]]

\* Bug: the loop does not look at m_isStop again
AcceptCheckOnce(a) ==
    /\ child = "run" /\ acc[a] = "check"
    /\ acc' = [acc EXCEPT ![a] = "accept"]
    /\ UNCHANGED <<child, m_isStop, m_isKeepalive, lsock, stopping, peers, sessions, dispatch, admin>>

\* startAccept, the loop's condition
AcceptCheck(a) ==
    /\ child = "run" /\ acc[a] = "check"
    /\ acc' = [acc EXCEPT ![a] = IF m_isStop THEN "end" ELSE "accept"]
    /\ UNCHANGED <<child, m_isStop, m_isKeepalive, lsock, stopping, peers, sessions, dispatch, admin>>

\* startAccept, one accept(): it fails on a closed socket and waits without a
\* client; the client's fiber is scheduled
Accept(a) ==
    /\ child = "run" /\ acc[a] = "accept"
    /\ ~isValid(lsock[a]) \/ backlog[a] # <<>>
    /\ acc' = [acc EXCEPT ![a] = "check"]
    /\ IF isValid(lsock[a])
       THEN LET c == Head(backlog[a])
            IN  /\ ssock' = [ssock EXCEPT ![c] = accepted(1, TRUE)]
                /\ ses' = [ses EXCEPT ![c] = "recv"]
                /\ backlog' = [backlog EXCEPT ![a] = Tail(@)]
       ELSE UNCHANGED <<ssock, ses, backlog>>
    /\ UNCHANGED <<child, m_isStop, m_isKeepalive, lsock, stopping, client, wire, sent, rx, slt,
                   answers, timeouts, dispatch, admin>>

\* stop(): the flag at once, the sockets in a task of the accept worker
Stop ==
    /\ child = "run" /\ ~m_isStop
    /\ m_isStop' = TRUE /\ stopping' = TRUE
    /\ UNCHANGED <<child, m_isKeepalive, lsock, acc, peers, sessions, dispatch, admin>>

\* The kernel resets the connections nobody accepted on these addresses
Reset(as) ==
    /\ backlog' = [a \in Addrs |-> IF a \in as THEN <<>> ELSE backlog[a]]
    /\ client' = [c \in Clients |-> IF \E a \in as : \E i \in DOMAIN backlog[a] : backlog[a][i] = c
                                    THEN "closed" ELSE client[c]]

\* The task of stop(): cancelAll and close on every socket, then m_socks.clear()
StopTask ==
    /\ child = "run" /\ stopping
    /\ stopping' = FALSE
    /\ Reset(m_socks)
    /\ lsock' = [a \in Addrs |-> closed(lsock[a])]
    /\ UNCHANGED <<child, m_isStop, m_isKeepalive, acc, wire, sent, sessions, dispatch, admin>>

-----------------------------------------------------------------------------
(* HttpServer::handleClient                                                *)

\* The end of handleClient: the session and its connection are closed
CloseSession(c) ==
    /\ ses' = [ses EXCEPT ![c] = "end"]
    /\ ssock' = [ssock EXCEPT ![c] = closed(@)]
    /\ client' = [client EXCEPT ![c] = "closed"]

\* recvRequest after a read: a request goes on to the servlets, null closes
Continue(c, new) ==
    /\ rx' = [rx EXCEPT ![c] = new]
    /\ CASE new.at = "null" -> CloseSession(c)
         [] new.at = "ok"   -> /\ ses' = [ses EXCEPT ![c] = "handle"]
                               /\ UNCHANGED <<ssock, client>>
         [] OTHER           -> UNCHANGED <<ses, ssock, client>>

Read(c) ==
    /\ child = "run" /\ ses[c] = "recv" /\ mayTransfer(ssock[c])
    /\ wire[c] # <<>>
    /\ \E n \in 1..Len(wire[c]) :
        /\ n <= Wanted(rx[c], BuffSize)
        /\ Continue(c, Received(rx[c], SubSeq(wire[c], 1, n)))
        /\ wire' = [wire EXCEPT ![c] = SubSeq(@, n + 1, Len(@))]
    /\ UNCHANGED <<child, tcp, backlog, sent, slt, answers, timeouts, dispatch, admin>>

ReadEnd(c) ==
    /\ child = "run" /\ ses[c] = "recv" /\ mayTransfer(ssock[c])
    /\ wire[c] = <<>> /\ client[c] = "closed"
    /\ Continue(c, ReadZero(rx[c]))
    /\ UNCHANGED <<child, tcp, backlog, wire, sent, slt, answers, timeouts, dispatch, admin>>

\* m_recvTimeout passes without a byte
ReadTimeout(c) ==
    /\ child = "run" /\ ses[c] = "recv" /\ mayTransfer(ssock[c])
    /\ wire[c] = <<>> /\ client[c] = "open"
    /\ timeouts[c] < MaxTimeouts
    /\ timeouts' = [timeouts EXCEPT ![c] = @ + 1]
    /\ Continue(c, ReadError(rx[c]))
    /\ UNCHANGED <<child, tcp, backlog, wire, sent, slt, answers, dispatch, admin>>

Asked(c) == Script[c][rx[c].of]

\* The servlet of the path that was received: of any path, or of none that is known,
\* when the request was spoilt
Chosen(c) == {getMatchedServlet(Asked(c).path)}
             \cup IF rx[c].spoilt THEN {getMatchedServlet(u) : u \in Paths} \cup {NotFound} ELSE {}

\* ServletDispatch::handle finds the servlet; the servlet then runs without the lock
Dispatch(c) ==
    /\ child = "run" /\ ses[c] = "handle"
    /\ \E s \in Chosen(c) : slt' = [slt EXCEPT ![c] = s]
    /\ ses' = [ses EXCEPT ![c] = "send"]
    /\ UNCHANGED <<child, tcp, peers, ssock, rx, answers, timeouts, dispatch, admin>>

\* The request's m_close: what its connection header says, or the default when that
\* header came in two reads and was dropped; any request may be so cut
Closes(c) == {Asked(c).close, TRUE}

\* handleClient's two uses of it: what the response says, and whether the loop goes on
ResponseClose(close) == close \/ ~m_isKeepalive
LastRequest(close) == ~m_isKeepalive \/ close

Answer(c, close) == [req |-> rx[c].of, slt |-> slt[c], got |-> Len(rx[c].body),
                     close |-> ResponseClose(close), spoilt |-> rx[c].spoilt]

\* sendResponse, then the next round or the end; each round has a new buffer. It fails
\* when the client has gone: writeFixSize then sends again, and SIGPIPE ends the process
\* (Crash of Application).
SendResponse(c) ==
    /\ child = "run" /\ ses[c] = "send"
    /\ \E close \in Closes(c) :
        /\ answers' = [answers EXCEPT ![c] = Append(@, Answer(c, close))]
        /\ IF LastRequest(close)
           THEN CloseSession(c) /\ UNCHANGED rx
           ELSE /\ ses' = [ses EXCEPT ![c] = "recv"]
                /\ rx' = [rx EXCEPT ![c] = [NewRecv EXCEPT !.spoilt = rx[c].spoilt]]
                /\ UNCHANGED <<ssock, client>>
    /\ slt' = [slt EXCEPT ![c] = NoServlet]
    /\ UNCHANGED <<child, tcp, backlog, wire, sent, timeouts, dispatch, admin>>

-----------------------------------------------------------------------------
(* Clients, and the program that registers servlets                        *)

Events == admin + MapThenSumSet(LAMBDA c : sent[c], Clients)
          + Cardinality({c \in Clients : client[c] # "idle"})

ClientConnect(c) ==
    /\ child = "run" /\ client[c] = "idle" /\ isValid(lsock[Dial[c]]) /\ Events < MaxEvents
    /\ client' = [client EXCEPT ![c] = "open"]
    /\ backlog' = [backlog EXCEPT ![Dial[c]] = Append(@, c)]
    /\ UNCHANGED <<child, tcp, wire, sent, sessions, dispatch, admin>>

ClientSend(c) ==
    /\ client[c] = "open" /\ sent[c] < Len(Script[c]) /\ Events < MaxEvents
    /\ sent' = [sent EXCEPT ![c] = @ + 1]
    /\ wire' = [wire EXCEPT ![c] = @ \o Request(sent'[c], Script[c][sent'[c]].n)]
    /\ UNCHANGED <<child, tcp, client, backlog, sessions, dispatch, admin>>

ClientClose(c) ==
    /\ client[c] = "open"
    /\ client' = [client EXCEPT ![c] = "closed"]
    /\ UNCHANGED <<child, tcp, backlog, wire, sent, sessions, dispatch, admin>>

Administer ==
    /\ child = "run" /\ Events < MaxEvents
    /\ admin' = admin + 1
    /\ \/ \E u \in Paths, s \in Servlets : addServlet(u, s)
       \/ \E u \in Paths : m_datas[u] # NoServlet /\ delServlet(u)
       \/ \E p \in Patterns, s \in Servlets : addGlobServlet(p, s)
       \/ \E p \in Patterns : added[p] # Never /\ delGlobServlet(p)
    /\ UNCHANGED <<child, tcp, peers, sessions>>

SessionStep(c) ==
    \/ Read(c) \/ ReadEnd(c) \/ ReadTimeout(c) \/ Dispatch(c) \/ SendResponse(c)
ClientStep(c) == ClientConnect(c) \/ ClientSend(c) \/ ClientClose(c)
AcceptStep(a) == AcceptCheck(a) \/ Accept(a)

ServerNext ==
    \/ \E c \in Clients : SessionStep(c) \/ ClientStep(c)
    \/ \E a \in Addrs : AcceptStep(a)
    \/ Stop \/ StopTask \/ Administer
=============================================================================
