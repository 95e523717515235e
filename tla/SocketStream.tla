---------------------------- MODULE SocketStream ----------------------------
(***************************************************************************)
(* ljrServer/stream.cpp and socket_stream.cpp: a stream over a connected   *)
(* socket, read into and written from a plain buffer or a ByteArray, and   *)
(* the loops readFixSize and writeFixSize that repeat a read or a write    *)
(* until a given length has been moved.                                    *)
(*                                                                         *)
(* One step is one call of the socket, with what the loop does with its    *)
(* result. The result of read() is an int that the loops keep in a size_t, *)
(* so -1 is not below zero there: the loop adds it to what it has moved.   *)
(***************************************************************************)
EXTENDS ByteArray

CONSTANTS
    FixSizes,    \* the lengths passed to readFixSize and writeFixSize
    MaxFix,      \* bound on these
    MaxWire,     \* bound on the bytes the peer sends
    MaxErrors    \* bound on the calls of the socket that fail (a timeout)

ASSUME StreamAssumption ==
    MaxFix \in Nat /\ FixSizes \subseteq 1..MaxFix /\ MaxWire \in Nat /\ MaxErrors \in Nat

VARIABLES
    wire,    \* what the peer has sent and nobody has received
    peer,    \* bytes the peer has sent in all
    sent,    \* what the peer has received
    sock,    \* "open", "eof" (the peer has closed), "closed" (m_isConnected false)
    call,    \* the last fixed-size call; it is in progress while left > 0
    buffer,  \* the caller's plain buffer around its first byte, at 0
    ret      \* what the last call returned

streamVars == <<wire, peer, sent, sock, call, buffer, ret>>
vars == <<baVars, streamVars>>

Cells == (-MaxErrors)..(MaxFix + MaxErrors)
Untouched == Radix                      \* no byte has this value
NoCall == [op |-> "none", length |-> 0, offset |-> 0, left |-> 0, from |-> 0,
           taken |-> <<>>, errors |-> 0]

Init ==
    /\ BAInit
    /\ wire = <<>> /\ peer = 0 /\ sent = <<>> /\ sock = "open"
    /\ call = NoCall /\ buffer = [i \in Cells |-> Untouched] /\ ret = 0

\* The k-th byte of the peer.
WireByte(k) == (k + 3) % Radix

(***************************************************************************)
(* The peer and the socket (socket.cpp, the kernel).                       *)
(***************************************************************************)
PeerSend ==
    /\ sock = "open" /\ peer < MaxWire
    /\ peer' = peer + 1 /\ wire' = Append(wire, WireByte(peer + 1))
    /\ UNCHANGED <<baVars, sent, sock, call, buffer, ret>>

PeerClose ==
    /\ sock = "open" /\ sock' = "eof"
    /\ UNCHANGED <<baVars, wire, peer, sent, call, buffer, ret>>

\* Another fiber, or the owner's destructor, closes the socket.
Close ==
    /\ sock # "closed" /\ sock' = "closed"
    /\ UNCHANGED <<baVars, wire, peer, sent, call, buffer, ret>>

\* The results of recv and send for n bytes: how many, 0 at the end, -1 for an error.
RecvResults(n) ==
    {rt \in 1..Len(wire) : rt <= n /\ sock # "closed"}
    \cup {rt \in {0} : wire = <<>> /\ sock = "eof"}
    \cup {rt \in {-1} : call.errors < MaxErrors}
SendResults(n) ==
    {rt \in 1..n : sock # "closed"}
    \cup {rt \in {0} : n = 0 /\ sock # "closed"}
    \cup {rt \in {-1} : call.errors < MaxErrors}

(***************************************************************************)
(* The fixed-size calls.                                                   *)
(***************************************************************************)
Begin(op, n) ==
    /\ call.left = 0 /\ ~ba.crash /\ file = <<>> /\ ops < MaxOps
    /\ op = "writeBA" => n <= getReadSize(ba)
    /\ op = "readBA" => Len(addCapacity(ba, n + MaxErrors).mem) <= MaxBlocks
    /\ ops' = ops + 1
    /\ call' = [NoCall EXCEPT !.op = op, !.length = n, !.left = n, !.from = ba.position]
    /\ buffer' = [i \in Cells |->
                    IF op = "write" /\ i \in 0..(n - 1) THEN i % Radix ELSE Untouched]
    /\ sent' = <<>> /\ ret' = 0
    /\ ba' = Fresh(ba)
    /\ recs' = IF op = "readBA" THEN {} ELSE recs
    /\ reply' = NoReply
    /\ UNCHANGED <<file, wire, peer, sock>>

AfterNoOffset(rt, got) ==
    IF rt = 0 THEN call' = NoCall /\ ret' = 0
    ELSE /\ call' = [call EXCEPT !.left = @ - rt, !.taken = @ \o got,
                                 !.errors = IF rt < 0 THEN @ + 1 ELSE @]
         /\ ret' = IF call.left = rt THEN call.length ELSE ret
\* The loop's bookkeeping for one result: 0 ends it, anything else counts as moved.
After(rt, got) ==
    IF rt = 0 THEN call' = NoCall /\ ret' = 0
    ELSE /\ call' = [call EXCEPT !.offset = @ + rt, !.left = @ - rt, !.taken = @ \o got,
                                 !.errors = IF rt < 0 THEN @ + 1 ELSE @]
         /\ ret' = IF call.left = rt THEN call.length ELSE ret

\* SocketStream::read(void *, size_t).
ReadBuffer ==
    /\ call.op = "read" /\ call.left > 0
    /\ \E rt \in RecvResults(call.left) :
        LET n == Max({rt, 0})
        IN  /\ buffer' = [i \in Cells |->
                            IF i \in call.offset..(call.offset + n - 1)
                            THEN wire[i - call.offset + 1] ELSE buffer[i]]
            /\ wire' = SubSeq(wire, n + 1, Len(wire))
            /\ After(rt, SubSeq(wire, 1, n))
    /\ UNCHANGED <<baVars, peer, sent, sock>>

\* SocketStream::write(const void *, size_t).
WriteBuffer ==
    /\ call.op = "write" /\ call.left > 0
    /\ \E rt \in SendResults(call.left) :
        LET n   == Max({rt, 0})
            out == [i \in 1..n |-> buffer[call.offset + i - 1]]
        IN  sent' = sent \o out /\ After(rt, out)
    /\ UNCHANGED <<baVars, wire, peer, sock, buffer>>

\* SocketStream::read(ByteArray::ptr, size_t): the kernel fills the iovecs in order,
\* then the position moves behind the bytes received.
ReadByteArray ==
    /\ call.op = "readBA" /\ call.left > 0
    /\ IF sock # "closed" /\ ~BuffersFit(ba, call.left)
       THEN /\ ba' = Crash(ba) /\ call' = NoCall
            /\ UNCHANGED <<wire, ret>>
       ELSE \E rt \in RecvResults(call.left) :
            LET n     == Max({rt, 0})
                a     == IF sock = "closed" THEN ba ELSE addCapacity(ba, call.left)
                iovs  == getWriteBuffers(ba, call.left)
                got   == SubSeq(wire, 1, n)
                full  == IF n = 0 THEN a
                         ELSE [a EXCEPT !.mem = Store(a, iovs[1][1], iovs[1][2], got)]
            IN  /\ ba' = IF n = 0 THEN [full EXCEPT !.io = <<>>]
                         ELSE [setPostion(full, ba.position + n) EXCEPT !.io = got]
                /\ wire' = SubSeq(wire, n + 1, Len(wire))
                /\ After(rt, got)
    /\ UNCHANGED <<recs, reply, file, ops, peer, sent, sock, buffer>>

\* SocketStream::write(ByteArray::ptr, size_t).
WriteByteArray ==
    /\ call.op = "writeBA" /\ call.left > 0
    /\ LET iovs == getReadBuffers(ba, call.left)
           all  == Gather(ba, iovs)
       IN  \E rt \in SendResults(Len(all)) :
            LET out == SubSeq(all, 1, Max({rt, 0}))
            IN  /\ sent' = sent \o out
                /\ ba' = IF rt <= 0 THEN ba
                         ELSE [setPostion(ba, ba.position + rt) EXCEPT !.io = out]
                /\ After(rt, out)
    /\ UNCHANGED <<recs, reply, file, ops, wire, peer, sock, buffer>>

StreamStep == ReadBuffer \/ WriteBuffer \/ ReadByteArray \/ WriteByteArray

Ops == {"read", "write", "readBA", "writeBA"}

Next ==
    \/ call.left = 0 /\ BANext /\ call' = NoCall /\ ret' = 0
                     /\ UNCHANGED <<wire, peer, sent, sock, buffer>>
    \/ \E op \in Ops, n \in FixSizes : Begin(op, n)
    \/ StreamStep \/ PeerSend \/ PeerClose \/ Close

Spec == Init /\ [][Next]_vars

(***************************************************************************)
(* Properties.                                                             *)
(***************************************************************************)
\* As long as no call of the socket failed, a fixed-size call has moved exactly
\* length - left bytes, one behind the other: into the buffer from its first byte on and
\* nowhere else, into the ByteArray from the position at which the call began, or out of
\* these to the peer. It returns length only when all of them are.
FixSizeExact == call.errors = 0 /\ call.op # "none" /\ ~ba.crash =>
    LET n == Len(call.taken)
        window == SubSeq(Contents, call.from + 1, call.from + n)
    IN  /\ n = call.length - call.left
        /\ ret = call.length <=> call.left = 0
        /\ call.op = "read" =>
             \A i \in Cells : buffer[i] = IF i \in 0..(n - 1) THEN call.taken[i + 1]
                                          ELSE Untouched
        /\ call.op = "write" => sent = [i \in 1..n |-> buffer[i - 1]]
        /\ call.op = "readBA" => window = call.taken
        /\ call.op = "writeBA" => window = sent
        /\ call.op \in {"readBA", "writeBA"} => ba.position = call.from + n
=============================================================================
