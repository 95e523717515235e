---------------------------- MODULE HttpSession ----------------------------
(***************************************************************************)
(* How HttpSession::recvRequest (ljrServer/http/http_session.cpp) receives *)
(* a request, with the parser of http_parser.cpp and http11_parser.rl.     *)
(*                                                                         *)
(* A request is a sequence of units [req, t, v]: the request line up to a  *)
(* place inside its path and the rest of that line, the name and the value *)
(* of the content-length header, the empty line, and the bytes of the      *)
(* body.  execute() consumes all it is given but forgets at each call      *)
(* where a part began, so a path that comes in two reads is wrong, and a   *)
(* header whose name and value do is dropped.  (A cut inside the method or *)
(* the version is an error; the session then ends as with a failed read.)  *)
(* The read buffer belongs to one call of recvRequest: what it holds       *)
(* beyond the request is lost with it.                                     *)
(***************************************************************************)
EXTENDS Integers, Sequences, SequencesExt

Unit(k, t, v) == [req |-> k, t |-> t, v |-> v]

\* What a client sends for its k-th request with a body of n bytes (external)
Request(k, n) ==
    <<Unit(k, "line", 0), Unit(k, "path", 0)>>
    \o (IF n = 0 THEN <<>> ELSE <<Unit(k, "name", 0), Unit(k, "value", n)>>)
    \o <<Unit(k, "end", 0)>> \o [i \in 1..n |-> Unit(k, "data", i)]

\* A recvRequest in progress: it reads the head ("head") or the rest of the body
\* ("body"), or it returns: "ok" or "null".  spoilt: the path or a header came in two
\* reads, bytes were lost, or an error was taken for a length.
NewRecv == [at |-> "head", of |-> 0, length |-> 0, left |-> 0, body |-> <<>>, spoilt |-> FALSE]

\* How much the next read asks for
Wanted(rx, buffSize) == IF rx.at = "body" THEN rx.left ELSE buffSize

\* The request line comes first and only there, and the body not in the head
Malformed(rx, head) ==
    \E i \in DOMAIN head : \/ head[i].t = "data"
                           \/ (head[i].t = "line") # (i = 1 /\ rx.of = 0)

\* Bug: the part of the body that came with the head is not counted
BodyDoubleRead(rx, rest) ==
    IF rx.length <= Len(rest)
    THEN [rx EXCEPT !.at = "ok", !.body = SubSeq(rest, 1, rx.length),
                    !.spoilt = @ \/ rx.length < Len(rest)]
    ELSE [rx EXCEPT !.at = "body", !.body = rest, !.left = rx.length]

\* The head is complete: take the body from the buffer, and read the rest of it
Body(rx, rest) ==
    IF rx.length <= Len(rest)
    THEN [rx EXCEPT !.at = "ok", !.body = SubSeq(rest, 1, rx.length),
                    !.spoilt = @ \/ rx.length < Len(rest)]
    ELSE [rx EXCEPT !.at = "body", !.body = rest, !.left = rx.length - Len(rest)]

\* HttpRequestParser::execute on what a read returned
ParseHead(rx, units) ==
    LET e     == SelectInSeq(units, LAMBDA u : u.t = "end")
        n     == IF e = 0 THEN Len(units) ELSE e
        head  == SubSeq(units, 1, n)
        whole == {i \in 1..(n - 1) : head[i].t = "name" /\ head[i + 1].t = "value"}
        new   == [rx EXCEPT !.of = IF @ = 0 THEN head[1].req ELSE @,
                            !.length = IF whole = {} THEN @ ELSE head[1 + CHOOSE i \in whole : TRUE].v,
                            !.spoilt = @ \/ head[n].t \in {"line", "name"}]
    IN  IF Malformed(rx, head) THEN [rx EXCEPT !.at = "null"]
        ELSE IF e = 0 THEN new
        ELSE Body(new, SubSeq(units, n + 1, Len(units)))

Received(rx, units) ==
    IF rx.at = "head" THEN ParseHead(rx, units)
    ELSE [rx EXCEPT !.body = @ \o units, !.left = @ - Len(units),
                    !.at = IF rx.left = Len(units) THEN "ok" ELSE "body"]

\* Bug: a connection the client has closed is read again
ReadZeroAgain(rx) == rx

\* The client has closed: read returns 0
ReadZero(rx) == [rx EXCEPT !.at = "null"]

\* A read fails, for instance with the receive timeout: the head gives up, but
\* readFixSize takes -1 for a length and wants one byte more
ReadError(rx) ==
    IF rx.at = "head" THEN [rx EXCEPT !.at = "null"]
    ELSE [rx EXCEPT !.left = @ + 1, !.spoilt = TRUE]
=============================================================================
