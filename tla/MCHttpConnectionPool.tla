------------------------ MODULE MCHttpConnectionPool ------------------------
(* A small instance of HttpConnectionPool for TLC. *)
EXTENDS HttpConnectionPool

CONSTANTS f1, f2

\* One fiber comes back to the pool after its first request.
ThreeRequests == (f1 :> 2 @@ f2 :> 1)

\* A body in a chunk whose size has two digits, and one of known length.
TwoShapes == (f1 :> {[chunked |-> TRUE, n |-> 2]} @@ f2 :> {[chunked |-> FALSE, n |-> 2]})
=============================================================================
