--------------------------- MODULE MCApplication ---------------------------
(* Small instances of Application for TLC. *)
EXTENDS Application

CONSTANTS a1, a2, c1, c2, u1, p1, p2, s1, s2

Ask(u, n, cl) == [path |-> u, n |-> n, close |-> cl]

\* c1 sends a request with a body and keeps the connection, then a last one; c2 is
\* silent.
TwoScripts == c1 :> <<Ask(u1, 2, FALSE), Ask(u1, 0, TRUE)>> @@ c2 :> <<>>
TwoDials == c1 :> a1 @@ c2 :> a1
BothMatch == {<<p1, u1>>, <<p2, u1>>}

\* A daemon with keepalive, a plain process that closes after each answer, and a
\* configuration with nothing to listen on
Launched(x, y, k, d) == [conf |-> a1 :> x @@ a2 :> y, keepalive |-> k, daemon |-> d]
SomeLaunches == {Launched("ok", "ok", TRUE, TRUE), Launched("ok", "noport", FALSE, FALSE),
                 Launched("noport", "unknown", TRUE, TRUE), Launched("noport", "absent", TRUE, FALSE)}
=============================================================================
