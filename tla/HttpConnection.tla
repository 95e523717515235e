--------------------------- MODULE HttpConnection ---------------------------
(***************************************************************************)
(* How ljrServer/http/http_connection.cpp receives a response, with the    *)
(* parser of http_parser.cpp and httpclient_parser.rl that it drives.      *)
(*                                                                         *)
(* A response is a sequence of units, each the bytes that belong together  *)
(* for the parser: [req, t, v] is a unit of type t and value v in the      *)
(* answer to request req. A header line, or the line with a chunk's size,  *)
(* is two units, so that a read may end inside it: each execute() forgets  *)
(* where the line began, so a content-length line that comes in two reads  *)
(* is dropped, and of a chunk size only the second part is read.           *)
(***************************************************************************)
EXTENDS Integers, Sequences, SequencesExt

Unit(req, t, v) == [req |-> req, t |-> t, v |-> v]
Units(req, t, n) == [i \in 1..n |-> Unit(req, t, i)]
CRLF(req) == <<Unit(req, "crlf", 1), Unit(req, "crlf", 2)>>

\* A chunk of n bytes: its size in one or two digits (of base 2), its bytes, and CRLF.
Chunk(req, n) == (IF n < 2 THEN <<>> ELSE <<Unit(req, "hi", n \div 2)>>)
                 \o <<Unit(req, "lo", n % 2)>> \o Units(req, "data", n) \o CRLF(req)

\* The answers of a server, external: a body with its length, or in chunks, of which the
\* one of no bytes is the last.
Answer(req, shape) ==
    IF shape.chunked
    THEN <<Unit(req, "te", 0), Unit(req, "end", 0)>>
         \o (IF shape.n = 0 THEN <<>> ELSE Chunk(req, shape.n)) \o Chunk(req, 0)
    ELSE <<Unit(req, "name", 0), Unit(req, "value", shape.n), Unit(req, "end", 0)>>
         \o Units(req, "data", shape.n)

(***************************************************************************)
(* The state of a recvResponse() in progress. "at" says what comes next: a *)
(* read of the header ("head"), the parser on the header ("parse"), a read *)
(* for a chunk's header ("chunk"), the parser on it ("size"), the chunk's  *)
(* bytes from the buffer ("bytes"), a read of the rest of a chunk          *)
(* ("rest") or of the body ("body"), or the return: "ok" or "null".        *)
(***************************************************************************)
NewRecv == [at |-> "head", buf |-> <<>>, length |-> 0, chunked |-> FALSE,
            left |-> 0, body |-> <<>>, of |-> <<>>, split |-> FALSE]

Reading == {"head", "chunk", "rest", "body"}
TypesOf(s) == {s[i].t : i \in DOMAIN s}

\* A read that returns these units; the loops that read know how many they want.
Wanted(rx, buffSize) == CASE rx.at \in {"rest", "body"} -> rx.left
                          [] OTHER -> buffSize - Len(rx.buf)
\* A recvResponse() that leaves the CRLF behind a chunk in the body.
ReceivedKeepsCRLF(rx, units) ==
    CASE rx.at = "head"  -> [rx EXCEPT !.at = "parse", !.buf = @ \o units]
      [] rx.at = "chunk" -> [rx EXCEPT !.at = "size", !.buf = @ \o units]
      [] OTHER ->
           [rx EXCEPT !.body = @ \o units, !.left = @ - Len(units),
                      !.at = IF rx.left > Len(units) THEN @
                             ELSE IF @ = "body" \/ rx.length = 0 THEN "ok" ELSE "chunk"]
Received(rx, units) ==
    CASE rx.at = "head"  -> [rx EXCEPT !.at = "parse", !.buf = @ \o units]
      [] rx.at = "chunk" -> [rx EXCEPT !.at = "size", !.buf = @ \o units]
      [] rx.at = "rest"  ->
           LET all == rx.body \o units
           IN  IF rx.left > Len(units)
               THEN [rx EXCEPT !.body = all, !.left = @ - Len(units)]
               ELSE [rx EXCEPT !.body = SubSeq(all, 1, Len(all) - 2), !.left = 0,
                               !.at = IF rx.length = 0 THEN "ok" ELSE "chunk"]
      [] rx.at = "body"  ->
           [rx EXCEPT !.body = @ \o units, !.left = @ - Len(units),
                      !.at = IF rx.left = Len(units) THEN "ok" ELSE "body"]

\* A read that returns 0 or -1 closes the connection and returns nullptr, but for the -1
\* in the body, which readFixSize takes for a length: it wants one byte more after that.
ReadZeroLoops(rx) == IF rx.at \in Reading THEN rx ELSE [rx EXCEPT !.at = "null"]
ReadZero(rx) == [rx EXCEPT !.at = "null"]
ReadError(rx) == IF rx.at = "body" THEN [rx EXCEPT !.left = @ + 1]
                 ELSE [rx EXCEPT !.at = "null"]

\* HttpResponseParser::execute() on the header: it consumes all up to the empty line, or up
\* to a chunk's size, which its grammar takes for a header too.
ParseHeader(rx) ==
    LET ends  == {i \in DOMAIN rx.buf : rx.buf[i].t \in {"end", "lo"}}
        n     == IF ends = {} THEN Len(rx.buf) ELSE CHOOSE i \in ends : \A j \in ends : i <= j
        head  == SubSeq(rx.buf, 1, n)
        lines == {i \in 1..(n - 1) : head[i].t = "name" /\ head[i + 1].t = "value"}
        len   == IF lines = {} THEN rx.length ELSE head[1 + CHOOSE i \in lines : TRUE].v
        te    == rx.chunked \/ TypesOf(head) \cap {"te", "lo"} # {}
        rest  == SubSeq(rx.buf, n + 1, Len(rx.buf))
        new   == [rx EXCEPT !.buf = rest, !.length = len, !.chunked = te,
                            !.of = IF @ = <<>> THEN head[1].req ELSE @,
                            !.split = @ \/ Last(head).t = "name"]
    IN  IF TypesOf(head) \cap {"data", "crlf"} # {} THEN ReadZero(rx)
        ELSE IF ends = {} THEN [new EXCEPT !.at = "head"]
        ELSE IF te THEN [new EXCEPT !.at = IF rest = <<>> THEN "chunk" ELSE "size"]
        ELSE IF len <= Len(rest)
        THEN [new EXCEPT !.at = "ok", !.body = SubSeq(rest, 1, len), !.buf = <<>>]
        ELSE [new EXCEPT !.at = "body", !.body = rest, !.left = len - Len(rest), !.buf = <<>>]

\* execute() in chunk mode starts the parser anew. It wants one line with a size.
ParseSize(rx) ==
    LET got(n, size) == [rx EXCEPT !.buf = SubSeq(@, n + 1, Len(@)), !.length = size,
                                   !.at = "bytes"]
    IN  CASE rx.buf[1].t = "lo" -> got(1, rx.buf[1].v)
          [] rx.buf[1].t = "hi" /\ Len(rx.buf) = 1 ->
                 [rx EXCEPT !.buf = <<>>, !.at = "chunk", !.split = TRUE]
          [] rx.buf[1].t = "hi" /\ Len(rx.buf) > 1 ->
                 got(2, 2 * rx.buf[1].v + rx.buf[2].v)
          [] OTHER -> ReadZero(rx)

\* The chunk's bytes and the CRLF behind them, from the buffer or with further reads.
TakeBytes(rx) ==
    LET n == rx.length + 2
    IN  IF n <= Len(rx.buf)
        THEN LET rest == SubSeq(rx.buf, n + 1, Len(rx.buf))
             IN  [rx EXCEPT !.body = @ \o SubSeq(rx.buf, 1, rx.length), !.buf = rest,
                            !.at = CASE rx.length = 0 -> "ok"
                                     [] rx.length > 0 /\ rest = <<>> -> "chunk"
                                     [] OTHER -> "size"]
        ELSE [rx EXCEPT !.body = @ \o rx.buf, !.left = n - Len(rx.buf), !.buf = <<>>,
                        !.at = "rest"]

\* What the response that is returned carries. setBody is called for a body in chunks only.
Response(rx) == [of |-> rx.of, body |-> IF rx.chunked THEN rx.body ELSE <<>>]

Execute(rx) == CASE rx.at = "parse" -> ParseHeader(rx)
                 [] rx.at = "size"  -> ParseSize(rx)
                 [] rx.at = "bytes" -> TakeBytes(rx)
=============================================================================
