----------------------------- MODULE FlatBuffer -----------------------------
(***************************************************************************)
(* What ByteArray promises its callers: one contiguous array of bytes with *)
(* an operating position. It grows as it is written, it is read and        *)
(* written at the position, and the blocks it is made of do not show.      *)
(***************************************************************************)
EXTENDS Integers, Sequences

VARIABLES
    data,   \* the bytes [0, getSize())
    pos,    \* getPosition()
    at,     \* where the last operation looked: at pos, unless it was given a position
    io,     \* the bytes that the last operation moved
    dead    \* the program has crashed

vars == <<data, pos, at, io, dead>>

Init == data = <<>> /\ pos = 0 /\ at = 0 /\ io = <<>> /\ dead = FALSE

\* The bytes of d with those of b put over them from the 0-based offset p.
Overwrite(d, p, b) ==
    [i \in 1..(IF p + Len(b) > Len(d) THEN p + Len(b) ELSE Len(d)) |->
        IF i > p /\ i <= p + Len(b) THEN b[i - p] ELSE d[i]]

\* A write, of any type: its bytes go to the position, which moves behind them.
Put ==
    /\ data' = Overwrite(data, pos, io')
    /\ pos' = pos + Len(io') /\ at' = pos'
    /\ dead' = dead

\* A read: the bytes from the position on, which moves behind them.
Get ==
    /\ pos' \in pos..Len(data)
    /\ io' = SubSeq(data, pos + 1, pos') /\ at' = pos'
    /\ UNCHANGED <<data, dead>>

\* A look at the bytes from the position on, or from one that is given; it leaves the
\* position alone.
Peek ==
    /\ at' \in 0..Len(data)
    /\ \E q \in at'..Len(data) : io' = SubSeq(data, at' + 1, q)
    /\ UNCHANGED <<data, pos, dead>>

\* Moving the position; behind the end it exposes bytes nobody has written.
Seek ==
    /\ Len(data') >= Len(data)
    /\ \A i \in 1..Len(data) : data'[i] = data[i]
    /\ pos' \in 0..Len(data')
    /\ Len(data') > Len(data) => pos' = Len(data')
    /\ io' = <<>> /\ at' = pos' /\ dead' = dead

Clear == data' = <<>> /\ pos' = 0 /\ io' = <<>> /\ at' = 0 /\ dead' = dead

Crash == dead' = TRUE

Next == ~dead /\ (Put \/ Get \/ Peek \/ Seek \/ Clear \/ Crash)

Spec == Init /\ [][Next]_vars
=============================================================================
