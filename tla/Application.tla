---------------------------- MODULE Application ----------------------------
(***************************************************************************)
(* Application and the daemon around it (ljrServer/application.cpp,        *)
(* daemon.cpp): the serving process reads the configured addresses, binds  *)
(* and starts the server; a daemon waits for it and forks another when it  *)
(* ended with a status other than 0.  A crash takes the process with its   *)
(* sockets, sessions and servlets; the kernel resets its connections.      *)
(***************************************************************************)
EXTENDS HttpServer

CONSTANTS
    Launches,       \* how the program may be started: records of the configured addresses
                    \* ("ok", "noport", "unknown" or "absent"), keepalive and -d
    MaxCrashes,     \* bound on the crashes of the serving process
    MaxBindFails    \* bound on the failures of bind

ASSUME ApplicationConstants ==
    /\ Launches \subseteq [conf : [Addrs -> {"ok", "noport", "unknown", "absent"}],
                           keepalive : BOOLEAN, daemon : BOOLEAN]
    /\ MaxCrashes \in Nat /\ MaxBindFails \in Nat

VARIABLES
    conf,           \* http_servers in the configuration
    is_daemon,
    parent,         \* who waits for the process: "fork", "waitpid", "sleep", "failed"
                    \* when fork failed, "gone"
    status,         \* the exit status of the last child, -1 while it runs
    restart_count,
    crashes, bindFails

daemonVars == <<conf, is_daemon, parent, status, restart_count, crashes, bindFails>>
vars == <<serverVars, daemonVars>>

Init ==
    /\ ServerInit
    /\ \E l \in Launches : conf = l.conf /\ m_isKeepalive = l.keepalive /\ is_daemon = l.daemon
    /\ parent = "fork" /\ status = -1 /\ restart_count = 0
    /\ crashes = 0 /\ bindFails = 0

\* start_daemon: fork and real_start in the child, or real_start in this process,
\* which nobody waits for; fork may fail
Start ==
    /\ parent = "fork" /\ child = "none"
    /\ \/ /\ child' = "main" /\ status' = -1
          /\ parent' = IF is_daemon THEN "waitpid" ELSE "gone"
          /\ Booted
       \/ /\ is_daemon /\ parent' = "failed"
          /\ UNCHANGED <<child, status, m_isStop, lsock, acc, stopping>>
    /\ UNCHANGED <<m_isKeepalive, peers, sessions, dispatch, admin, conf, is_daemon, restart_count,
                   crashes, bindFails>>

\* The process is gone, and with it everything but what the clients hold
Gone(code) ==
    /\ child' = "none" /\ status' = code
    /\ Booted
    /\ backlog' = [a \in Addrs |-> <<>>]
    /\ client' = [c \in Clients |-> IF client[c] = "open" THEN "closed" ELSE client[c]]
    /\ wire' = [c \in Clients |-> <<>>]
    /\ ssock' = [c \in Clients |-> NewSocket]
    /\ ses' = [c \in Clients |-> IF ses[c] = "none" THEN "none" ELSE "end"]
    /\ rx' = [c \in Clients |-> NewRecv] /\ slt' = [c \in Clients |-> NoServlet]
    /\ m_datas' = [u \in Paths |-> NoServlet] /\ m_globs' = <<>>
    /\ added' = [p \in Patterns |-> Never]
    /\ UNCHANGED <<m_isKeepalive, sent, answers, timeouts, admin>>

\* main: without the pid file it returns false, which is exit status 0
PidFileFails ==
    /\ child = "main" /\ bindFails < MaxBindFails
    /\ bindFails' = bindFails + 1
    /\ Gone(0)
    /\ UNCHANGED <<conf, is_daemon, parent, restart_count, crashes>>

\* run_fiber: an address without port is skipped, one that does not resolve, or
\* that cannot be bound, ends the process with _exit(0)
Listenable == {a \in Addrs : conf[a] = "ok"}
RunFiber ==
    /\ child = "main"
    /\ \/ /\ \E a \in Addrs : conf[a] = "unknown"
          /\ Gone(0) /\ UNCHANGED bindFails
       \/ /\ \A a \in Addrs : conf[a] # "unknown"
          /\ bindFails < MaxBindFails /\ Listenable # {}
          /\ bindFails' = bindFails + 1
          /\ Gone(0)
       \/ /\ \A a \in Addrs : conf[a] # "unknown"
          /\ lsock' = bind(Listenable, {})
          /\ start(Listenable)
          /\ child' = "run"
          /\ UNCHANGED <<status, bindFails, m_isKeepalive, stopping, peers, sessions, dispatch, admin>>
    /\ UNCHANGED <<conf, is_daemon, parent, restart_count, crashes>>

\* The process dies of a signal: an assertion, or SIGPIPE for a response to a
\* client that has gone
Crash ==
    /\ child # "none" /\ crashes < MaxCrashes
    /\ crashes' = crashes + 1
    /\ Gone(1)
    /\ UNCHANGED <<conf, is_daemon, parent, restart_count, bindFails>>

\* main returns when the IOManager has nothing left: the server is stopped, or
\* never had a socket, and every session is over
MainReturns ==
    /\ child = "run" /\ ~stopping
    /\ \A a \in Addrs : acc[a] \in {"none", "end"}
    /\ \A c \in Clients : ses[c] \in {"none", "end"}
    /\ Gone(0)
    /\ UNCHANGED <<conf, is_daemon, parent, restart_count, crashes, bindFails>>

\* Bug: the test of the status is the wrong way round
WaitPidInverted ==
    /\ parent = "waitpid" /\ child = "none"
    /\ IF status # 0
       THEN parent' = "gone" /\ UNCHANGED restart_count
       ELSE parent' = "sleep" /\ restart_count' = restart_count + 1
    /\ UNCHANGED <<serverVars, conf, is_daemon, status, crashes, bindFails>>

\* real_daemon after waitpid
WaitPid ==
    /\ parent = "waitpid" /\ child = "none"
    /\ IF status = 0
       THEN parent' = "gone" /\ UNCHANGED restart_count
       ELSE parent' = "sleep" /\ restart_count' = restart_count + 1
    /\ UNCHANGED <<serverVars, conf, is_daemon, status, crashes, bindFails>>

\* sleep(restart_interval), then the next round of the loop
Slept ==
    /\ parent = "sleep"
    /\ parent' = "fork"
    /\ UNCHANGED <<serverVars, conf, is_daemon, status, restart_count, crashes, bindFails>>

ProcessNext == Start \/ PidFileFails \/ RunFiber \/ Crash \/ MainReturns \/ WaitPid \/ Slept

Next == ProcessNext \/ (ServerNext /\ UNCHANGED daemonVars)

Spec == Init /\ [][Next]_vars

\* Fibers that can go on do, timers fire and tasks run; the daemon goes on; and a
\* client that is connected closes in the end
FairSpec ==
    /\ Spec
    /\ WF_vars(Start) /\ WF_vars(RunFiber) /\ WF_vars(WaitPid) /\ WF_vars(Slept)
    /\ \A a \in Addrs : WF_vars(AcceptStep(a) /\ UNCHANGED daemonVars)
    /\ WF_vars(StopTask /\ UNCHANGED daemonVars)
    /\ \A c \in Clients : /\ WF_vars(SessionStep(c) /\ UNCHANGED daemonVars)
                          /\ WF_vars(ClientClose(c) /\ UNCHANGED daemonVars)

-----------------------------------------------------------------------------
(* Properties                                                              *)

\* Responses go out in the order of the requests, none twice and none for a
\* request that was not sent; and on a connection where no path or header was split
\* over two reads, no pipelined bytes were dropped and no read failed inside a body,
\* no request is left out and every one was answered with its whole body.
AnswersInOrder ==
    \A c \in Clients : \A i \in DOMAIN answers[c] :
        LET x == answers[c][i]
        IN  /\ x.req <= sent[c]
            /\ i > 1 => answers[c][i - 1].req < x.req
            /\ ~x.spoilt => x.req = i /\ x.got = Script[c][i].n

\* The vector of patterns, which addGlobServlet reorders by erasing and appending,
\* always dispatches as the registrations say: to the exact servlet, else to the
\* matching pattern registered longest ago, else to 404.
DispatchRef == \A u \in Paths : getMatchedServlet(u) = Reference(u)

\* stop() takes effect, whatever the accepting fibers were doing when the flag was
\* set and before the task closed the sockets: they all end and nothing listens.
StopEnds ==
    (child = "run" /\ m_isStop)
        ~> (child # "run" \/ (m_socks = {} /\ \A a \in Addrs : acc[a] \in {"none", "end"}))

\* Every client that was accepted is let go in the end, by an answer, an error, a
\* timeout or its own close, provided clients do not stay for ever: a receive timeout
\* inside a body is taken for a length and does not end a session.
SessionEnds == \A c \in Clients : ses[c] = "recv" ~> ses[c] = "end"

\* Under the daemon a crash is followed by a server that runs again, unless the
\* new process ends itself with status 0 (an address in use, no pid file) or fork
\* fails: then the daemon gives up.
Recovers ==
    (is_daemon /\ child = "none" /\ status = 1)
        ~> (child = "run" \/ parent = "failed" \/ (parent = "gone" /\ status = 0))
=============================================================================
