----------------------------- MODULE ByteArray ------------------------------
(***************************************************************************)
(* ljrServer/bytearray.{h,cpp}: a byte array made of a linked list of      *)
(* blocks of m_baseSize bytes, with typed reads and writes.                *)
(*                                                                         *)
(* The object is one record; each method is an operator on it, named after *)
(* the method, so that a method that calls others is their composition.    *)
(* The walk of a method over the blocks is given in closed form: the i-th  *)
(* byte from offset npos of block b is in block b + (npos + i) \div        *)
(* m_baseSize. Following a null next pointer sets crash; throwing          *)
(* std::out_of_range sets threw. A byte has VarintBits + 1 bits (8 in the  *)
(* code), the fixed types have 1, 2, 4 and 8 bytes. The host is little     *)
(* endian (endian.h).                                                      *)
(***************************************************************************)
EXTENDS Integers, Sequences, FiniteSetsExt, SequencesExt

CONSTANTS
    BaseSize,     \* m_baseSize
    VarintBits,   \* payload bits of a byte of a varint, 7 in the code
    Samples,      \* the values that are written, as <<type, value>>
    RawSizes,     \* sizes passed to the untyped read and write
    Positions,    \* the arguments of setPostion and of the looks at a position
    JunkBytes,    \* what a new block may contain
    MaxBlocks,    \* bound on the number of blocks
    MaxOps        \* bound on the number of calls

ASSUME ByteArrayAssumption ==
    /\ BaseSize \in Nat \ {0} /\ VarintBits \in Nat \ {0}
    /\ RawSizes \subseteq Nat /\ Positions \subseteq Nat
    /\ MaxBlocks \in Nat /\ MaxOps \in Nat

VARIABLES
    ba,     \* the ByteArray
    recs,   \* the values written that nothing has overwritten since
    reply,  \* the type of the last typed read, what it returned and what was written
            \* there; or the position of the last look at one
    file,   \* what readFromFile has still to read, <<>> when it is not at work
    ops     \* calls made

baVars == <<ba, recs, reply, file, ops>>

NULL == 0                           \* m_cur when it is behind the last block
Radix == 2 ^ (VarintBits + 1)       \* the values of a byte, 256
More == 2 ^ VarintBits              \* the continuation bit of a varint, 0x80
Range32 == Radix ^ 4
Range64 == Radix ^ 8

Block(junk) == [i \in 0..(BaseSize - 1) |-> junk]

(***************************************************************************)
(* Construction, capacity and position.                                    *)
(***************************************************************************)
NewByteArray(junk) ==
    [mem |-> <<Block(junk)>>, cur |-> 1, position |-> 0, size |-> 0,
     capacity |-> BaseSize, little |-> FALSE, junk |-> junk,
     io |-> <<>>, threw |-> FALSE, crash |-> FALSE]

Alive(b) == ~b.crash /\ ~b.threw
Throw(b) == [b EXCEPT !.threw = TRUE]
Crash(b) == [b EXCEPT !.crash = TRUE]

getReadSize(b) == b.size - b.position
getCapacity(b) == b.capacity - b.position

\* The number of blocks addCapacity appends to make room for n more bytes.
NewBlocks(b, n) ==
    LET old_cap == getCapacity(b)
        need    == n - old_cap
    IN  IF n <= old_cap THEN 0
        ELSE (need \div BaseSize) + (IF need % BaseSize > old_cap THEN 1 ELSE 0)

addCapacity(b, n) ==
    LET count == NewBlocks(b, n)
    IN  [b EXCEPT !.mem = @ \o [i \in 1..count |-> Block(b.junk)],
                  !.capacity = @ + count * BaseSize,
                  !.cur = IF n > getCapacity(b) /\ getCapacity(b) = 0
                          THEN Len(b.mem) + 1 ELSE @]

\* The walk of n bytes from m_cur stays on the list; where it leaves m_cur.
OnList(b, n) == b.cur # NULL /\
    (b.position % BaseSize) + n <= (Len(b.mem) - b.cur + 1) * BaseSize
CurAfterLazy(b, n) == b.cur + ((b.position % BaseSize) + n - 1) \div BaseSize
CurAfter(b, n) ==
    LET c == b.cur + ((b.position % BaseSize) + n) \div BaseSize
    IN  IF c > Len(b.mem) THEN NULL ELSE c
\* The n bytes from offset npos of block c on.
BytesAt(b, c, npos, n) ==
    [i \in 1..n |-> b.mem[c + (npos + i - 1) \div BaseSize][(npos + i - 1) % BaseSize]]
\* The blocks with these bytes stored from offset npos of block c on.
Store(b, c, npos, bytes) ==
    [k \in 1..Len(b.mem) |-> [o \in 0..(BaseSize - 1) |->
        LET i == (k - c) * BaseSize + o - npos + 1
        IN  IF i \in 1..Len(bytes) THEN bytes[i] ELSE b.mem[k][o]]]

write(b, bytes) ==
    LET n == Len(bytes)
        a == addCapacity(b, n)
    IN  IF ~Alive(b) \/ n = 0 THEN b
        ELSE IF ~OnList(a, n) THEN Crash(b)
        ELSE [a EXCEPT !.mem = Store(a, a.cur, a.position % BaseSize, bytes),
                       !.cur = CurAfter(a, n),
                       !.position = @ + n,
                       !.size = Max({@, a.position + n}),
                       !.io = @ \o bytes]

read(b, n) ==
    IF ~Alive(b) THEN b
    ELSE IF n \notin 0..getReadSize(b) THEN Throw(b)
    ELSE IF ~OnList(b, n) THEN Crash(b)
    ELSE [b EXCEPT !.cur = CurAfter(b, n),
                   !.position = @ + n,
                   !.io = @ \o BytesAt(b, b.cur, b.position % BaseSize, n)]

\* The overload with a position starts in m_cur's block all the same; behind the end
\* m_size - position wraps, and the test lets any size pass.
readAt(b, n, position) ==
    IF position <= b.size /\ n > b.size - position THEN Throw(b)
    ELSE IF ~(b.cur # NULL /\ (position % BaseSize) + n
                              <= (Len(b.mem) - b.cur + 1) * BaseSize) THEN Crash(b)
    ELSE [b EXCEPT !.io = BytesAt(b, b.cur, position % BaseSize, n)]

\* The block of offset v: the loop stops one block early when v fills a block.
setPostion(b, v) ==
    IF v > b.capacity THEN Throw(b)
    ELSE [b EXCEPT !.position = v,
                   !.size = Max({@, v}),
                   !.cur = IF v \div BaseSize + 1 > Len(b.mem) THEN NULL
                           ELSE v \div BaseSize + 1]

clear(b) ==
    [b EXCEPT !.position = 0, !.size = 0, !.capacity = BaseSize,
              !.mem = SubSeq(@, 1, 1), !.cur = 1]

setLittleEndian(b, val) == [b EXCEPT !.little = val]

(***************************************************************************)
(* Typed values.                                                           *)
(***************************************************************************)
\* The bytes of v in the memory of the host, and back.
HostBytes(v, w) == [i \in 1..w |-> (v \div Radix ^ (i - 1)) % Radix]
HostValue(bytes) == FoldLeftDomain(LAMBDA v, i : v + bytes[i] * Radix ^ (i - 1), 0, bytes)
InOrder(b, bytes) == IF b.little THEN bytes ELSE Reverse(bytes)

writeFixed(b, v, w) == write(b, InOrder(b, HostBytes(v, w)))
readFixed(b, w) == read(b, w)
FixedValueUnswapped(b, bytes) == HostValue(bytes)
\* The number that the read of a fixed width finds in the bytes it read.
FixedValue(b, bytes) == HostValue(InOrder(b, bytes))

EncodeZigzag32(v) == IF v < 0 THEN (-v) * 2 - 1 ELSE (v * 2) % Range32
\* The parameter is unsigned: the test v < 0 is never true.
EncodeZigzag64(v) == ((v % Range64) * 2) % Range64
DecodeZigzag(u) == IF u % 2 = 0 THEN u \div 2 ELSE -(u \div 2) - 1

AllGroups == (8 * (VarintBits + 1) - 1) \div VarintBits + 1     \* tmp[10]
\* A power of two is a positive number (the provers know nothing of ^).
ASSUME PowerAssumption ==
    /\ More \in Nat \ {0} /\ \A k \in 0..AllGroups : More ^ k \in Nat \ {0}
    /\ Range32 \in Nat \ {0} /\ Range64 \in Nat \ {0}
VarintBytes(v) ==
    LET n == Min({k \in 1..AllGroups : v < More ^ k} \cup {AllGroups})
    IN  [i \in 1..n |-> ((v \div More ^ (i - 1)) % More) + (IF i < n THEN More ELSE 0)]
writeVarint(b, v) == write(b, VarintBytes(v))
\* Both the 32 and the 64 bit reader stop after the groups of 32 bits.
MaxGroups == (4 * (VarintBits + 1) - 1) \div VarintBits + 1
\* Bytes are read one by one until one without the continuation bit, or until there
\* is none left to read.
readVarint(b) ==
    LET most == Min({MaxGroups, getReadSize(b)})
        ends == {i \in 1..most : BytesAt(b, b.cur, b.position % BaseSize, most)[i] < More}
        a    == IF most = 0 THEN b ELSE read(b, Min(ends \cup {most}))
    IN  IF ends = {} /\ most < MaxGroups THEN Throw(a) ELSE a
VarintValue(bytes) ==
    FoldLeftDomain(LAMBDA v, i : v + (bytes[i] % More) * More ^ (i - 1), 0, bytes)

\* A string is a sequence of bytes behind its length: in 2, 4 or 8 bytes, a varint,
\* or none.
LengthWidth == [F16 |-> 2, F32 |-> 4, F64 |-> 8]
writeString(b, form, s) ==
    CASE form = "Vint" -> write(writeVarint(b, Len(s)), s)
      [] form = "WithoutLength" -> write(b, s)
      [] OTHER -> write(writeFixed(b, Len(s), LengthWidth[form]), s)
readString(b, form) ==
    LET a == IF form = "Vint" THEN readVarint(b) ELSE readFixed(b, LengthWidth[form])
    IN  IF ~Alive(a) THEN a
        ELSE read(a, IF form = "Vint" THEN VarintValue(a.io) ELSE FixedValue(a, a.io))

FixedWidth == [Fint8 |-> 1, Fuint8 |-> 1, Fint16 |-> 2, Fuint16 |-> 2, Fint32 |-> 4,
               Fuint32 |-> 4, Fint64 |-> 8, Fuint64 |-> 8]
\* The number as a value of the type that is returned: the signed ones have a sign bit.
Signed == {"Fint8", "Fint16", "Fint32", "Fint64"}
Returned(t, x) ==
    IF t \in Signed /\ 2 * x >= Radix ^ FixedWidth[t] THEN x - Radix ^ FixedWidth[t] ELSE x
\* A float is written as the Fuint32 of its bits, a double as a Fuint64.
FloatWidth == [Float |-> 4, Double |-> 8]
Strings == {"F16", "F32", "F64", "Vint"}

Types == DOMAIN FixedWidth \cup DOMAIN FloatWidth \cup Strings
         \cup {"Uint32", "Uint64", "Int32", "Int64"}

\* A string has any length, the value of the other types is one number.
ASSUME SamplesAssumption == \A s \in Samples :
    s[1] \in Types /\ s[2] \in Seq(Int) /\ (s[1] \in Strings \/ Len(s[2]) = 1)

\* write<type>(v) and read<type>(). The value is a sequence: a string, or one number.
Encode(b, t, v) ==
    CASE t \in DOMAIN FixedWidth -> writeFixed(b, v[1], FixedWidth[t])
      [] t \in DOMAIN FloatWidth -> writeFixed(b, v[1], FloatWidth[t])
      [] t \in {"Uint32", "Uint64"} -> writeVarint(b, v[1])
      [] t = "Int32" -> writeVarint(b, EncodeZigzag32(v[1]))
      [] t = "Int64" -> writeVarint(b, EncodeZigzag64(v[1]))
      [] t \in Strings -> writeString(b, t, v)
Decode(b, t) ==
    CASE t \in DOMAIN FixedWidth -> readFixed(b, FixedWidth[t])
      [] t \in DOMAIN FloatWidth -> readFixed(b, FloatWidth[t])
      [] t \in {"Uint32", "Uint64", "Int32", "Int64"} -> readVarint(b)
      [] t \in Strings -> readString(b, t)
ValueOf(b, t) ==
    CASE t \in DOMAIN FixedWidth \cup DOMAIN FloatWidth -> <<Returned(t, FixedValue(b, b.io))>>
      [] t = "Uint32" -> <<VarintValue(b.io) % Range32>>
      [] t = "Uint64" -> <<VarintValue(b.io) % Range64>>
      [] t = "Int32" -> <<DecodeZigzag(VarintValue(b.io) % Range32)>>
      [] t = "Int64" -> <<DecodeZigzag(VarintValue(b.io))>>
      [] t = "Vint" -> LET n == Min({i \in 1..Len(b.io) : b.io[i] < More})
                       IN  SubSeq(b.io, n + 1, Len(b.io))
      [] OTHER -> SubSeq(b.io, LengthWidth[t] + 1, Len(b.io))

(***************************************************************************)
(* Files and iovecs. A file is the sequence of its bytes.                  *)
(***************************************************************************)
\* The first length is computed as if position were at the start of its block: in a
\* short tail the two remainders change places for ever, until cur is null.
writeToFile(b) ==
    LET n == getReadSize(b)
    IN  IF n > 0 /\ ((b.position % BaseSize > 0 /\ n < BaseSize) \/ ~OnList(b, n))
        THEN Crash(b)
        ELSE [b EXCEPT !.io = IF n = 0 THEN <<>>
                              ELSE BytesAt(b, b.cur, b.position % BaseSize, n)]

\* readFromFile, one round of its loop: a write of what is left, of a block at most.
readFromFile(b) == write(b, SubSeq(file, 1, Min({BaseSize, Len(file)})))

toString(b) == IF getReadSize(b) = 0 THEN b ELSE readAt(b, getReadSize(b), b.position)

\* The iovecs are the sequence of the bytes that they point to, as <<block, offset>>.
Iovecs(c, npos, n) ==
    [i \in 1..n |-> <<c + (npos + i - 1) \div BaseSize, (npos + i - 1) % BaseSize>>]
Gather(b, iovs) == [i \in 1..Len(iovs) |-> b.mem[iovs[i][1]][iovs[i][2]]]

getReadBuffers(b, len) == Iovecs(b.cur, b.position % BaseSize, Min({len, getReadSize(b)}))
\* Bug: the overload with a position begins at m_cur's block
getReadBuffersFromCur(b, len, position) ==
    LET n == Min({len, getReadSize(b)})
    IN  IF n > 0 /\ ~(b.cur # NULL /\ (position % BaseSize) + n
                                       <= (Len(b.mem) - b.cur + 1) * BaseSize) THEN Crash(b)
        ELSE [b EXCEPT !.io = Gather(b, Iovecs(b.cur, position % BaseSize, n))]
\* From another position, and what its iovecs hold: the length is still limited by what
\* m_position leaves, so from behind m_position on the walk may pass m_size or the list.
getReadBuffersAt(b, len, position) ==
    LET n == Min({len, getReadSize(b)})
        c == position \div BaseSize + 1
    IN  IF n > 0 /\ (position % BaseSize) + n > (Len(b.mem) - c + 1) * BaseSize THEN Crash(b)
        ELSE [b EXCEPT !.io = Gather(b, Iovecs(c, position % BaseSize, n))]

\* Each block is compared with the whole length: a length above m_baseSize must end with
\* a block, or what is left wraps below zero and the walk runs off the list; and it must
\* not be the last block, for the loop looks at the next one before it ends.
BuffersFit(b, len) ==
    LET a == addCapacity(b, len)
        npos == a.position % BaseSize
    IN  /\ OnList(a, len)
        /\ len <= BaseSize - npos \/ len <= BaseSize
           \/ ((npos + len) % BaseSize = 0 /\ OnList(a, len + 1))
getWriteBuffers(b, len) ==
    LET a == addCapacity(b, len) IN Iovecs(a.cur, a.position % BaseSize, len)

(***************************************************************************)
(* The calls of a program that owns the array.                             *)
(***************************************************************************)
Fresh(b) == [b EXCEPT !.io = <<>>, !.threw = FALSE]
NoReply == [type |-> "none", want |-> {}, got |-> {}, at |-> 0]
\* A look at a position; and one that may have returned other bytes than are there.
LookedAt(p) == [NoReply EXCEPT !.type = "look", !.at = p]
Astray == [NoReply EXCEPT !.type = "astray"]
\* The records that a write of these offsets leaves alone.
Kept(from, to) == {r \in recs : r.to <= from \/ r.from >= to}

BAInit ==
    /\ \E junk \in JunkBytes : ba = NewByteArray(junk)
    /\ recs = {} /\ reply = NoReply /\ file = <<>> /\ ops = 0

Call(b) ==
    /\ ~ba.crash /\ file = <<>> /\ ops < MaxOps
    /\ Len(b.mem) <= MaxBlocks
    /\ ba' = b
    /\ ops' = ops + 1

WriteValue(t, v) ==
    LET b == Encode(Fresh(ba), t, v)
    IN  /\ Call(b)
        /\ recs' = IF b.crash THEN {}
                   ELSE Kept(ba.position, b.position) \cup
                        {[from |-> ba.position, to |-> b.position, type |-> t,
                          value |-> v, little |-> ba.little]}
        /\ reply' = NoReply

ReadValue(t) ==
    LET b    == Decode(Fresh(ba), t)
        here == {r \in recs : r.from = ba.position /\ r.type = t /\ r.little = ba.little}
    IN  /\ Call(b)
        /\ reply' = IF b.crash THEN NoReply
                    ELSE [type |-> t, want |-> {r.value : r \in here},
                          got |-> IF b.threw THEN {} ELSE {ValueOf(b, t)}, at |-> 0]
        /\ UNCHANGED recs

Payload(n) == [i \in 1..n |-> i % Radix]

WriteRaw(n) ==
    LET b == writeString(Fresh(ba), "WithoutLength", Payload(n))
    IN  /\ Call(b)
        /\ recs' = IF b.crash THEN {} ELSE Kept(ba.position, b.position)
        /\ reply' = NoReply

ReadRaw(n) == Call(read(Fresh(ba), n)) /\ reply' = NoReply /\ UNCHANGED recs

SetPostion(v) == Call(setPostion(Fresh(ba), v)) /\ reply' = NoReply /\ UNCHANGED recs

Clear == Call(clear(Fresh(ba))) /\ recs' = {} /\ reply' = NoReply

SetEndian ==
    /\ Call(setLittleEndian(Fresh(ba), ~ba.little))
    /\ reply' = NoReply /\ UNCHANGED recs

\* The looks that leave the array alone.
Look ==
    /\ \/ Call(toString(Fresh(ba)))
       \/ Call(writeToFile(Fresh(ba)))
       \/ \E n \in RawSizes :
            Call([Fresh(ba) EXCEPT !.io = Gather(ba, getReadBuffers(ba, n))])
    /\ reply' = NoReply /\ UNCHANGED recs

\* The looks at a position: read and getReadBuffers with a position.
LookAt(b, p, astray) ==
    Call(b) /\ reply' = (IF astray THEN Astray ELSE LookedAt(p)) /\ UNCHANGED recs

ReadAt(n, p) == LookAt(readAt(Fresh(ba), n, p), p, p > ba.size \/ p \div BaseSize + 1 # ba.cur)

GetReadBuffersAt(n, p) ==
    LookAt(getReadBuffersAt(Fresh(ba), n, p), p, p + Min({n, getReadSize(ba)}) > ba.size)

OpenFile(n) ==
    /\ Call(Fresh(ba)) /\ file' = Payload(n)
    /\ reply' = NoReply /\ UNCHANGED recs

ReadFile ==
    /\ ~ba.crash /\ file # <<>>
    /\ ba' = readFromFile(Fresh(ba))
    /\ file' = SubSeq(file, Min({BaseSize, Len(file)}) + 1, Len(file))
    /\ recs' = IF ba'.crash THEN {} ELSE Kept(ba.position, ba'.position)
    /\ UNCHANGED <<reply, ops>>

BANext ==
    \/ /\ \/ \E s \in Samples : WriteValue(s[1], s[2])
          \/ \E s \in Samples : ReadValue(s[1])
          \/ \E n \in RawSizes : WriteRaw(n) \/ ReadRaw(n)
          \/ \E v \in Positions : SetPostion(v)
          \/ Clear \/ SetEndian \/ Look
          \/ \E n \in RawSizes, p \in Positions : ReadAt(n, p) \/ GetReadBuffersAt(n, p)
       /\ UNCHANGED file
    \/ \E n \in RawSizes : OpenFile(n)
    \/ ReadFile

(***************************************************************************)
(* Properties.                                                             *)
(***************************************************************************)
\* The shape every loop of the code relies on: m_position <= m_size <= m_capacity, one
\* m_baseSize per block, and m_cur is the block that holds m_position, null exactly when
\* m_position is behind the last block. write, read, setPostion and addCapacity each
\* move these separately.
CurMatches ==
    /\ ba.capacity = Len(ba.mem) * BaseSize
    /\ 0 <= ba.position /\ ba.position <= ba.size /\ ba.size <= ba.capacity
    /\ ~ba.crash => ba.cur = IF ba.position = ba.capacity THEN NULL
                             ELSE ba.position \div BaseSize + 1

\* The values readUint64 can return: it stops after the groups of 32 bits.
Faithful(t, v) ==
    CASE t = "Uint64" -> v[1] < More ^ MaxGroups
      [] t = "Int64" -> v[1] >= 0 /\ 2 * v[1] < More ^ MaxGroups
      [] OTHER -> TRUE

\* A typed read at the place where a value of that type was written, and not overwritten
\* since, returns that value, whatever was written around it and in whichever order the
\* position was moved. For 64-bit varints this holds of the values of 32 bits only.
ReadBack == \A v \in reply.want : Faithful(reply.type, v) => reply.got = {v}

\* What ReadBack needs of the arithmetic of the encodings: the loops over the bytes of a
\* number give back the numbers that the program writes (of a string, its length), and a
\* varint is not longer than the loop that reads it. It is about constants only.
FixedExact(x, w) == HostValue(HostBytes(x, w)) = x
VarintExact(x) == Len(VarintBytes(x)) <= MaxGroups /\ VarintValue(VarintBytes(x)) = x
NumbersExact == \A s \in Samples : Faithful(s[1], s[2]) =>
    LET t == s[1]
        v == s[2]
    IN  CASE t \in DOMAIN FixedWidth ->
                 Returned(t, HostValue(HostBytes(v[1], FixedWidth[t]))) = v[1]
          [] t \in DOMAIN FloatWidth -> FixedExact(v[1], FloatWidth[t])
          [] t = "Uint32" -> VarintExact(v[1]) /\ v[1] % Range32 = v[1]
          [] t = "Uint64" -> VarintExact(v[1]) /\ v[1] % Range64 = v[1]
          [] t = "Int32" -> /\ VarintExact(EncodeZigzag32(v[1]))
                            /\ DecodeZigzag(EncodeZigzag32(v[1]) % Range32) = v[1]
          [] t = "Int64" -> /\ VarintExact(EncodeZigzag64(v[1]))
                            /\ DecodeZigzag(EncodeZigzag64(v[1])) = v[1]
          [] t = "Vint" -> VarintExact(Len(v))
          [] OTHER -> FixedExact(Len(v), LengthWidth[t])

\* The contents, as the owner sees them.
Contents == [i \in 1..ba.size |->
                ba.mem[(i - 1) \div BaseSize + 1][(i - 1) % BaseSize]]
\* A look that went astray shows nothing of the contents.
Seen == IF reply.type = "astray" THEN <<>> ELSE ba.io
Asked == IF reply.type = "look" THEN reply.at ELSE ba.position
Flat == INSTANCE FlatBuffer WITH data <- Contents, pos <- ba.position, at <- Asked,
                                 io <- Seen, dead <- ba.crash

\* The ByteArray implements FlatBuffer: whatever the blocks, its owner sees one array.
\* Excepted is what is returned by a read with a position in another block than
\* m_position's or behind m_size, and by a getReadBuffers with a position whose range
\* passes m_size; they too leave the array as it was, or crash.
FlatBufferSpec == Flat!Spec
=============================================================================
