------------------------- MODULE HttpConnectionPool -------------------------
(***************************************************************************)
(* The HTTP client of ljrServer/http/http_connection.{h,cpp}: fibers that  *)
(* send requests, each on a connection of its own (DoRequest) or on one of *)
(* the shared HttpConnectionPool (doRequest), and the servers behind them. *)
(*                                                                         *)
(* One step is what a fiber does between two calls of the socket, or while *)
(* it holds the pool's mutex. Connections are numbered in the order they   *)
(* are made. m_createTime is never set, so it is 0 as in the header.       *)
(***************************************************************************)
EXTENDS HttpConnection, FiniteSets

CONSTANTS
    Fibers,          \* the fibers that send requests
    Direct,          \* those that also use DoRequest
    MaxConns,        \* bound on the connections made
    m_maxRequest,
    m_maxAliveTime,  \* 32 bits
    Now,             \* GetCurrentMS(), since 1970
    BuffSize,        \* http.request.buffer_size
    Shapes,          \* the answers a server may give to each fiber's requests
    MaxRequests,     \* bound on the requests of each fiber
    MaxTimeouts      \* bound on the receive timeouts of a request

ASSUME PoolAssumption ==
    /\ MaxConns \in Nat /\ Direct \subseteq Fibers
    /\ m_maxRequest \in Nat /\ m_maxAliveTime \in Nat
    /\ Now \in Nat /\ m_maxAliveTime < Now
    /\ MaxRequests \in [Fibers -> Nat] /\ MaxTimeouts \in Nat \ {0} /\ BuffSize \in Nat \ {0}
    /\ Shapes \in [Fibers -> SUBSET [chunked : BOOLEAN, n : Nat]]

Conns == 1..MaxConns
None == 0                \* a null pointer

VARIABLES
    m_conns,    \* the connections in the pool's list
    m_total,
    life,       \* of each connection: "unused", "live", "deleted"
    connected,  \* Socket::m_isConnected
    m_request,  \* requests a connection has served
    peer,       \* the connections whose server has not closed
    asked,      \* the requests on their way to the server
    wire,       \* the units on their way back
    dirty,      \* connections on which a line of a header came in two reads
    pc, mode, ptr, invalid, n, rx, timeouts, result

connVars == <<life, connected, m_request, peer, asked, wire, dirty>>
fiberVars == <<pc, mode, ptr, invalid, n, rx, timeouts, result>>
vars == <<m_conns, m_total, connVars, fiberVars>>

PCs == {"idle", "purge", "deduct", "connect", "send", "spin", "recv", "release", "push",
        "uncount", "failed"}
Errors == {"none", "OK", "INVALID_URL", "INVALID_HOST", "CREATE_SOCKET_ERROR",
           "CONNECT_FAIL", "TIMEOUT", "POOL_GET_CONNECTION"}

Req(f) == <<f, n[f]>>

Init ==
    /\ m_conns = <<>> /\ m_total = 0
    /\ life = [c \in Conns |-> "unused"] /\ connected = [c \in Conns |-> FALSE]
    /\ m_request = [c \in Conns |-> 0] /\ peer = {} /\ dirty = {}
    /\ asked = [c \in Conns |-> <<>>] /\ wire = [c \in Conns |-> <<>>]
    /\ pc = [f \in Fibers |-> "idle"] /\ mode = [f \in Fibers |-> "pool"]
    /\ ptr = [f \in Fibers |-> None] /\ invalid = [f \in Fibers |-> {}]
    /\ n = [f \in Fibers |-> 0] /\ rx = [f \in Fibers |-> NewRecv]
    /\ timeouts = [f \in Fibers |-> 0] /\ result = [f \in Fibers |-> "none"]

Goto(f, l) == pc' = [pc EXCEPT ![f] = l]

\* The locals of a request go when it returns.
Forget(f) ==
    /\ Goto(f, "idle")
    /\ ptr' = [ptr EXCEPT ![f] = None] /\ rx' = [rx EXCEPT ![f] = NewRecv]
    /\ timeouts' = [timeouts EXCEPT ![f] = 0]
    /\ result' = [result EXCEPT ![f] = "none"]

\* The request is over with this result; the connection, if any, is let go.
Done(f, r) ==
    /\ result' = [result EXCEPT ![f] = r]
    /\ Goto(f, IF ptr[f] = None THEN "failed" ELSE "release")

(***************************************************************************)
(* getConnection().                                                        *)
(***************************************************************************)
Expired(c) == 0 + m_maxAliveTime > Now
Good(c) == connected[c] /\ ~Expired(c)

\* The loop over the list stops at k, the first good connection or the end of the list.
StopsAt(k) == /\ \A i \in 1..(k - 1) : ~Good(m_conns[i])
              /\ k <= Len(m_conns) => Good(m_conns[k])

\* A pool that hands out a connection and leaves it in its list.
GetConnectionNoPop(f) == \E k \in 1..(Len(m_conns) + 1) :
    /\ pc[f] = "idle" /\ n[f] < MaxRequests[f]
    /\ StopsAt(k)
    /\ m_conns' = SubSeq(m_conns, k, Len(m_conns))
    /\ invalid' = [invalid EXCEPT ![f] = {m_conns[i] : i \in 1..(k - 1)}]
    /\ ptr' = [ptr EXCEPT ![f] = IF k <= Len(m_conns) THEN m_conns[k] ELSE None]
    /\ mode' = [mode EXCEPT ![f] = "pool"]
    /\ n' = [n EXCEPT ![f] = @ + 1]
    /\ Goto(f, IF k > 1 THEN "purge" ELSE IF m_conns = <<>> THEN "connect" ELSE "send")
    /\ UNCHANGED <<m_total, connVars, rx, timeouts, result>>

\* doRequest of the pool: under the mutex, take connections from the front until one
\* is good. Without bad ones the two steps behind the mutex do nothing.
GetConnection(f) == \E k \in 1..(Len(m_conns) + 1) :
    /\ pc[f] = "idle" /\ n[f] < MaxRequests[f]
    /\ StopsAt(k)
    /\ m_conns' = SubSeq(m_conns, k + 1, Len(m_conns))
    /\ invalid' = [invalid EXCEPT ![f] = {m_conns[i] : i \in 1..(k - 1)}]
    /\ ptr' = [ptr EXCEPT ![f] = IF k <= Len(m_conns) THEN m_conns[k] ELSE None]
    /\ mode' = [mode EXCEPT ![f] = "pool"]
    /\ n' = [n EXCEPT ![f] = @ + 1]
    /\ Goto(f, IF k > 1 THEN "purge" ELSE IF m_conns = <<>> THEN "connect" ELSE "send")
    /\ UNCHANGED <<m_total, connVars, rx, timeouts, result>>

Delete(cs) ==
    /\ life' = [c \in Conns |-> IF c \in cs THEN "deleted" ELSE life[c]]
    /\ connected' = [c \in Conns |-> connected[c] /\ c \notin cs]

\* Outside the mutex: delete the bad ones, then take them off m_total.
PurgeDelete(f) ==
    /\ pc[f] = "purge"
    /\ Delete(invalid[f])
    /\ Goto(f, "deduct")
    /\ UNCHANGED <<m_conns, m_total, m_request, peer, asked, wire, dirty,
                   mode, ptr, invalid, n, rx, timeouts, result>>

\* A pool that forgets to take them off.
PurgeCountSkipped(f) ==
    /\ pc[f] = "deduct"
    /\ invalid' = [invalid EXCEPT ![f] = {}]
    /\ Goto(f, IF ptr[f] = None THEN "connect" ELSE "send")
    /\ UNCHANGED <<m_conns, m_total, connVars, mode, ptr, n, rx, timeouts, result>>

PurgeCount(f) ==
    /\ pc[f] = "deduct"
    /\ m_total' = m_total - Cardinality(invalid[f])
    /\ invalid' = [invalid EXCEPT ![f] = {}]
    /\ Goto(f, IF ptr[f] = None THEN "connect" ELSE "send")
    /\ UNCHANGED <<m_conns, connVars, mode, ptr, n, rx, timeouts, result>>

\* The next connection made.
NewConns == {c \in Conns : life[c] = "unused" /\ \A d \in 1..(c - 1) : life[d] # "unused"}
Open(f, c) ==
    /\ life' = [life EXCEPT ![c] = "live"] /\ connected' = [connected EXCEPT ![c] = TRUE]
    /\ peer' = peer \cup {c} /\ ptr' = [ptr EXCEPT ![f] = c]
    /\ Goto(f, "send")
    /\ UNCHANGED <<m_request, asked, wire, dirty>>

\* Without a good one, connect a new one; the lookup, the socket or connect() may fail.
Connect(f) ==
    /\ pc[f] = "connect"
    /\ \/ /\ Done(f, "POOL_GET_CONNECTION")
          /\ UNCHANGED <<m_total, connVars, ptr>>
       \/ /\ \E c \in NewConns : Open(f, c)
          /\ m_total' = m_total + 1
          /\ UNCHANGED result
    /\ UNCHANGED <<m_conns, mode, invalid, n, rx, timeouts>>

(***************************************************************************)
(* DoRequest: a connection for one request.                                *)
(***************************************************************************)
DoRequest(f) ==
    /\ f \in Direct
    /\ pc[f] = "idle" /\ n[f] < MaxRequests[f]
    /\ n' = [n EXCEPT ![f] = @ + 1] /\ mode' = [mode EXCEPT ![f] = "own"]
    /\ \/ /\ \E r \in {"INVALID_URL", "INVALID_HOST", "CREATE_SOCKET_ERROR", "CONNECT_FAIL"} :
               Done(f, r)
          /\ UNCHANGED <<connVars, ptr>>
       \/ /\ \E c \in NewConns : Open(f, c)
          /\ UNCHANGED result
    /\ UNCHANGED <<m_conns, m_total, invalid, rx, timeouts>>

(***************************************************************************)
(* The exchange.                                                           *)
(***************************************************************************)
\* sendRequest(). An error of the socket keeps writeFixSize in its loop for ever; that of a
\* server that has closed may also end the process, by SIGPIPE.
Send(f) ==
    LET c == ptr[f]
    IN  /\ pc[f] = "send"
        /\ \/ /\ connected[c]
              /\ asked' = IF c \in peer THEN [asked EXCEPT ![c] = Append(@, Req(f))]
                          ELSE asked
              /\ Goto(f, "recv")
           \/ /\ ~connected[c] \/ c \notin peer
              /\ Goto(f, "spin") /\ UNCHANGED asked
        /\ UNCHANGED <<m_conns, m_total, life, connected, m_request, peer, wire, dirty,
                       mode, ptr, invalid, n, rx, timeouts, result>>

\* A recvResponse() that gives up without closing.
FollowNoClose(f, r) ==
    /\ dirty' = IF r.split THEN dirty \cup {ptr[f]} ELSE dirty
    /\ CASE r.at = "ok"   -> Done(f, "OK")
         [] r.at = "null" -> Done(f, "TIMEOUT")
         [] OTHER         -> UNCHANGED <<pc, result>>
    /\ UNCHANGED connected

\* What follows from the new state of recvResponse(): it closes the connection when it
\* gives up, and returns.
Follow(f, r) ==
    /\ connected' = [connected EXCEPT ![ptr[f]] = @ /\ r.at # "null"]
    /\ dirty' = IF r.split THEN dirty \cup {ptr[f]} ELSE dirty
    /\ CASE r.at = "ok"   -> Done(f, "OK")
         [] r.at = "null" -> Done(f, "TIMEOUT")
         [] OTHER         -> UNCHANGED <<pc, result>>

\* One read of recvResponse(): one unit or all there are, the end of the stream, or a
\* timeout.
Recv(f) ==
    LET c == ptr[f]
    IN  /\ pc[f] = "recv" /\ rx[f].at \in Reading
        /\ \/ \E k \in {1, Wanted(rx[f], BuffSize)} :
                /\ wire[c] # <<>>
                /\ rx' = [rx EXCEPT ![f] = Received(@, SubSeq(wire[c], 1, Min({k, Len(wire[c])})))]
                /\ wire' = [wire EXCEPT ![c] = SubSeq(@, k + 1, Len(@))]
                /\ UNCHANGED timeouts
           \/ /\ wire[c] = <<>> /\ c \notin peer
              /\ rx' = [rx EXCEPT ![f] = ReadZero(@)]
              /\ UNCHANGED <<wire, timeouts>>
           \/ /\ wire[c] = <<>> /\ c \in peer
              /\ timeouts[f] < MaxTimeouts
              /\ timeouts' = [timeouts EXCEPT ![f] = @ + 1]
              /\ rx' = [rx EXCEPT ![f] = ReadError(@)]
              /\ UNCHANGED wire
        /\ Follow(f, rx'[f])
        /\ UNCHANGED <<m_conns, m_total, life, m_request, peer, asked, mode, ptr,
                       invalid, n>>

\* The work between two reads.
Parse(f) ==
    /\ pc[f] = "recv" /\ rx[f].at \notin Reading
    /\ rx' = [rx EXCEPT ![f] = Execute(@)]
    /\ Follow(f, rx'[f])
    /\ UNCHANGED <<m_conns, m_total, life, m_request, peer, asked, wire, mode, ptr,
                   invalid, n, timeouts>>

(***************************************************************************)
(* The last reference to the connection goes: ReleasePtr for one of the    *)
(* pool, the destructor for one's own.                                     *)
(***************************************************************************)
Release(f) ==
    LET c == ptr[f]
        full == m_request[c] + 1 >= m_maxRequest
        old == 0 + m_maxAliveTime >= Now
    IN  /\ pc[f] = "release"
        /\ IF mode[f] = "pool"
           THEN m_request' = [m_request EXCEPT ![c] = @ + 1]
           ELSE UNCHANGED m_request
        /\ IF mode[f] = "pool" /\ connected[c] /\ ~old /\ ~full
           THEN /\ Goto(f, "push") /\ UNCHANGED <<life, connected>>
           ELSE /\ Delete({c}) /\ Goto(f, "uncount")
        /\ UNCHANGED <<m_conns, m_total, peer, asked, wire, dirty, mode, ptr, invalid, n,
                       rx, timeouts, result>>

Uncount(f) ==
    /\ pc[f] = "uncount"
    /\ m_total' = IF mode[f] = "pool" THEN m_total - 1 ELSE m_total
    /\ Forget(f)
    /\ UNCHANGED <<m_conns, connVars, mode, invalid, n>>

Push(f) ==
    /\ pc[f] = "push"
    /\ m_conns' = Append(m_conns, ptr[f])
    /\ Forget(f)
    /\ UNCHANGED <<m_total, connVars, mode, invalid, n>>

\* The request returns without ever having had a connection.
Failed(f) ==
    /\ pc[f] = "failed"
    /\ Forget(f)
    /\ UNCHANGED <<m_conns, m_total, connVars, mode, invalid, n>>

(***************************************************************************)
(* The server, and an owner of the socket (getSocket()) that closes it.    *)
(***************************************************************************)
ServerAnswer(c) ==
    /\ c \in peer /\ asked[c] # <<>>
    /\ \E s \in Shapes[Head(asked[c])[1]] :
        wire' = [wire EXCEPT ![c] = @ \o Answer(Head(asked[c]), s)]
    /\ asked' = [asked EXCEPT ![c] = Tail(@)]
    /\ UNCHANGED <<m_conns, m_total, life, connected, m_request, peer, dirty, fiberVars>>

ServerClose(c) ==
    /\ c \in peer
    /\ peer' = peer \ {c}
    /\ UNCHANGED <<m_conns, m_total, life, connected, m_request, asked, wire, dirty,
                   fiberVars>>

SocketClose(c) ==
    /\ connected[c] /\ c \in Range(m_conns)
    /\ connected' = [connected EXCEPT ![c] = FALSE]
    /\ UNCHANGED <<m_conns, m_total, life, m_request, peer, asked, wire, dirty, fiberVars>>

Step(f) ==
    \/ PurgeDelete(f) \/ PurgeCount(f) \/ Connect(f) \/ Send(f) \/ Recv(f) \/ Parse(f)
    \/ Release(f) \/ Uncount(f) \/ Push(f) \/ Failed(f)

Next ==
    \/ \E f \in Fibers : GetConnection(f) \/ DoRequest(f) \/ Step(f)
    \/ \E c \in Conns : ServerAnswer(c) \/ ServerClose(c) \/ SocketClose(c)

Spec == Init /\ [][Next]_vars
\* A read ends: with what has come, at the end of the stream, or by the timeout that
\* doRequest sets. The server owes nothing.
FairSpec == Spec /\ \A f \in Fibers : WF_vars(Step(f))

(***************************************************************************)
(* Properties.                                                             *)
(***************************************************************************)
\* The types of the state. m_total, changed outside the mutex, never goes below 0.
TypeOK ==
    /\ m_conns \in Seq(Conns) /\ m_total \in Nat
    /\ life \in [Conns -> {"unused", "live", "deleted"}]
    /\ connected \in [Conns -> BOOLEAN] /\ m_request \in [Conns -> Nat]
    /\ peer \subseteq Conns /\ dirty \subseteq Conns
    /\ pc \in [Fibers -> PCs] /\ mode \in [Fibers -> {"pool", "own"}]
    /\ ptr \in [Fibers -> Conns \cup {None}] /\ invalid \in [Fibers -> SUBSET Conns]
    /\ n \in [Fibers -> Nat] /\ timeouts \in [Fibers -> Nat]
    /\ result \in [Fibers -> Errors]

\* The connections a fiber works on: the one it uses and the bad ones it took out.
Held(f) == invalid[f] \cup ({ptr[f]} \ {None})

\* A connection belongs to one place: the list, in which it is once, or one fiber. So two
\* requests never share one, and none is deleted while somebody can still reach it.
OneOwner ==
    /\ \A i, j \in DOMAIN m_conns : m_conns[i] = m_conns[j] => i = j
    /\ \A f \in Fibers : Held(f) \cap Range(m_conns) = {}
    /\ \A f, g \in Fibers : f # g => Held(f) \cap Held(g) = {}
    /\ \A c \in Range(m_conns) : life[c] = "live"
    /\ \A f \in Fibers : ptr[f] # None /\ pc[f] # "uncount" => life[ptr[f]] = "live"

\* Outside the pool's count; deleted and still to be subtracted; what m_total must count.
Own(c) == \E f \in Fibers : mode[f] = "own" /\ ptr[f] = c
Owed(c) == \E f \in Fibers : \/ pc[f] = "uncount" /\ ptr[f] = c /\ mode[f] = "pool"
                             \/ pc[f] = "deduct" /\ c \in invalid[f]
Counted == {c \in Conns : (life[c] = "live" /\ ~Own(c)) \/ Owed(c)}

\* m_total is changed outside the mutex, yet it counts the connections that the pool has
\* made and not deleted, and those whose deletion a fiber has still to subtract.
TotalExact == m_total = Cardinality(Counted)

\* A request that times out, or fails in any other way, takes its connection with it: one
\* that waits in the pool, and on which no line of a header was cut in two, has neither a
\* request nor a unit of an answer on the way. A late answer never meets the next request.
IdleClean == \A c \in Range(m_conns) : connected[c] /\ c \notin dirty =>
    asked[c] = <<>> /\ wire[c] = <<>>

\* On such a connection, the response a request returns is the answer to it. The body that
\* came is the whole body of that answer: no more, no less, and no CRLF of the chunks; the
\* response carries it when it came in chunks, and no body when its length was given.
AnswerMatches == \A f \in Fibers :
    pc[f] = "release" /\ result[f] = "OK" /\ ptr[f] \notin dirty =>
        \E s \in Shapes[f] :
            LET body == Units(Req(f), "data", s.n)
            IN  /\ rx[f].body = body
                /\ Response(rx[f]) = [of   |-> Req(f),
                                      body |-> IF s.chunked THEN body ELSE <<>>]

\* A timeout was taken for a length in the body: the read that follows it has no end.
Miscounts(f) == rx[f].at = "body" /\ timeouts[f] > 0

\* A request that was sent comes to an end wherever the server falls silent, though it never
\* closes, unless a receive times out inside a body of known length; and even then when the
\* server closes.
RequestEnds == \A f \in Fibers :
    /\ pc[f] = "recv" ~> pc[f] = "idle" \/ Miscounts(f)
    /\ pc[f] = "recv" /\ ptr[f] \notin peer ~> pc[f] = "idle"
=============================================================================
