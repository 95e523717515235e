--------------------------- MODULE MCSocketStream ---------------------------
(* A small instance of SocketStream for TLC: blocks of three bytes, which no fixed type
   of more than one byte fits evenly, and bytes of three bits. *)
EXTENDS SocketStream

\* One value of each width and encoding; each spans a block boundary somewhere.
TypedSamples == {<<"Fuint8", <<5>>>>, <<"Fint16", <<-11>>>>, <<"Int32", <<-9>>>>,
                 <<"Uint64", <<70>>>>, <<"Vint", <<>>>>, <<"F16", <<6, 3>>>>}
\* The encodings give these numbers back.
ASSUME SamplesExact == NumbersExact
=============================================================================
