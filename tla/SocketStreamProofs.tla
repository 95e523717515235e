------------------------- MODULE SocketStreamProofs -------------------------
(***************************************************************************)
(* Theorems about ByteArray and the stream above it, for every size of the *)
(* blocks, every value that is written and every length that is moved.     *)
(***************************************************************************)
EXTENDS SocketStream, FiniteSetTheorems, SequenceTheorems, TLAPS

(***************************************************************************)
(* Blocks and offsets                                                      *)
(***************************************************************************)
\* A number is its block and its offset in it.
LEMMA DivMod ==
  ASSUME NEW x \in Nat
  PROVE  /\ x \div BaseSize \in Nat /\ x % BaseSize \in 0..(BaseSize - 1)
         /\ x = (x \div BaseSize) * BaseSize + (x % BaseSize)
  BY ByteArrayAssumption

\* More blocks are more bytes.
LEMMA Times ==
  ASSUME NEW p \in Nat, NEW q \in Nat, p < q
  PROVE  p * BaseSize + BaseSize <= q * BaseSize
  <1>1. PICK d \in Nat : q = p + 1 + d
    <2>1. q - p - 1 \in Nat /\ q = p + 1 + (q - p - 1)
      OBVIOUS
    <2> QED BY <2>1
  <1>2. q * BaseSize = p * BaseSize + BaseSize + d * BaseSize
    BY <1>1, ByteArrayAssumption
  <1>3. d * BaseSize >= 0
    BY <1>1, ByteArrayAssumption
  <1>4. p * BaseSize \in Nat /\ d * BaseSize \in Nat /\ BaseSize \in Nat
    BY <1>1, <1>3, ByteArrayAssumption
  <1> QED BY <1>2, <1>3, <1>4

\* Its block and its offset are the only ones.
LEMMA DivUnique ==
  ASSUME NEW q \in Nat, NEW r \in 0..(BaseSize - 1), NEW x, x = q * BaseSize + r
  PROVE  x \in Nat /\ x \div BaseSize = q /\ x % BaseSize = r
  <1>1. q * BaseSize \in Nat /\ BaseSize \in Nat \ {0}
    BY ByteArrayAssumption
  <1>2. x \in Nat
    BY <1>1
  <1>3. PICK d \in Nat, m \in 0..(BaseSize - 1) :
          d = x \div BaseSize /\ m = x % BaseSize /\ x = d * BaseSize + m
    BY <1>2, DivMod
  <1>4. d * BaseSize \in Nat
    BY ByteArrayAssumption
  <1>5. ~(d < q)
    <2> SUFFICES ASSUME d < q PROVE FALSE
      OBVIOUS
    <2>1. d * BaseSize + BaseSize <= q * BaseSize
      BY Times
    <2> QED BY <1>1, <1>3, <1>4, <2>1
  <1>6. ~(q < d)
    <2> SUFFICES ASSUME q < d PROVE FALSE
      OBVIOUS
    <2>1. q * BaseSize + BaseSize <= d * BaseSize
      BY Times
    <2> QED BY <1>1, <1>3, <1>4, <2>1
  <1>7. d = q
    BY <1>5, <1>6
  <1> QED BY <1>1, <1>2, <1>3, <1>7

\* The byte n further on.
LEMMA DivPlus ==
  ASSUME NEW x \in Nat, NEW n \in Nat
  PROVE  /\ (x \div BaseSize) + (((x % BaseSize) + n) \div BaseSize) = (x + n) \div BaseSize
         /\ ((x % BaseSize) + n) % BaseSize = (x + n) % BaseSize
  <1>1. PICK q \in Nat, r \in 0..(BaseSize - 1) :
          q = x \div BaseSize /\ r = x % BaseSize /\ x = q * BaseSize + r
    BY DivMod
  <1>2. PICK d \in Nat, m \in 0..(BaseSize - 1) :
          d = (r + n) \div BaseSize /\ m = (r + n) % BaseSize /\ r + n = d * BaseSize + m
    <2>1. r + n \in Nat
      BY ByteArrayAssumption
    <2> QED BY <2>1, DivMod
  <1>3. x + n = (q + d) * BaseSize + m
    <2>1. (q + d) * BaseSize = q * BaseSize + d * BaseSize
      BY ByteArrayAssumption
    <2>2. q * BaseSize \in Nat /\ d * BaseSize \in Nat
      BY ByteArrayAssumption
    <2> QED BY <1>1, <1>2, <2>1, <2>2
  <1>4. q + d \in Nat
    OBVIOUS
  <1>5. (x + n) \div BaseSize = q + d /\ (x + n) % BaseSize = m
    BY <1>3, <1>4, DivUnique
  <1> QED BY <1>1, <1>2, <1>5

\* A byte is before the end of k blocks when its block is one of them.
LEMMA DivLess ==
  ASSUME NEW x \in Nat, NEW k \in Nat
  PROVE  x < k * BaseSize <=> x \div BaseSize < k
  <1>1. PICK q \in Nat, r \in 0..(BaseSize - 1) :
          q = x \div BaseSize /\ r = x % BaseSize /\ x = q * BaseSize + r
    BY DivMod
  <1>2. q * BaseSize \in Nat /\ k * BaseSize \in Nat /\ BaseSize \in Nat
    BY ByteArrayAssumption
  <1>3. q < k => q * BaseSize + BaseSize <= k * BaseSize
    BY Times
  <1>4. k < q => k * BaseSize + BaseSize <= q * BaseSize
    BY Times
  <1>5. k = q => ~(x < k * BaseSize)
    BY <1>1, <1>2
  <1> QED BY <1>1, <1>2, <1>3, <1>4, <1>5

\* A part of a sequence.
LEMMA PartOf ==
  ASSUME NEW S, NEW w \in Seq(S), NEW i \in Nat, NEW j \in Nat, i <= j, j <= Len(w)
  PROVE  /\ SubSeq(w, i + 1, j) \in Seq(S) /\ Len(SubSeq(w, i + 1, j)) = j - i
         /\ \A x \in 1..(j - i) : SubSeq(w, i + 1, j)[x] = w[i + x] /\ w[i + x] \in S
  <1>1. Len(w) \in Nat /\ \A x \in 1..Len(w) : w[x] \in S
    BY LenProperties, ElementOfSeq
  <1>2. \A x \in (i + 1)..j : w[x] \in S
    BY <1>1
  <1>3. /\ SubSeq(w, i + 1, j) \in Seq(S)
        /\ Len(SubSeq(w, i + 1, j)) = IF i + 1 <= j THEN j - (i + 1) + 1 ELSE 0
        /\ \A x \in 1..(j - (i + 1) + 1) : SubSeq(w, i + 1, j)[x] = w[(i + 1) + x - 1]
    BY <1>2, SubSeqProperties
  <1>4. \A x \in 1..(j - i) : x \in 1..(j - (i + 1) + 1) /\ (i + 1) + x - 1 = i + x /\ i + x \in (i + 1)..j
    OBVIOUS
  <1> QED BY <1>2, <1>3, <1>4

\* Its members, one by one.
LEMMA PartAt ==
  ASSUME NEW S, NEW w \in Seq(S), NEW i \in Nat, NEW j \in Nat, i <= j, j <= Len(w)
  PROVE  \A x \in 1..(j - i) : SubSeq(w, i + 1, j)[x] = w[i + x]
  BY PartOf


(***************************************************************************)
(* Least and greatest numbers                                              *)
(***************************************************************************)
LEMMA NatMin ==
  ASSUME NEW S, S \subseteq Nat, S # {}
  PROVE  \E m \in S : \A n \in S : m <= n
  <1> PICK k \in S : TRUE
    OBVIOUS
  <1> DEFINE B == 0..k
             T == {0..m : m \in S \cap B}
  <1>1. IsFiniteSet(B)
    BY FS_Interval
  <1>2. \A m \in S \cap B : 0..m \in SUBSET B /\ IsFiniteSet(0..m)
    BY FS_Interval
  <1>3. T \subseteq FiniteSubsetsOf(B) /\ T # {}
    BY <1>2 DEF FiniteSubsetsOf
  <1>4. IsWellFoundedOn(StrictSubsetOrdering(B), FiniteSubsetsOf(B))
    BY FS_StrictSubsetOrderingWellFounded
  <1> HIDE DEF T
  <1>5. PICK x \in T : \A y \in T : ~(<<y, x>> \in StrictSubsetOrdering(B))
    BY <1>3, <1>4, WFMin
  <1> USE DEF T
  <1>6. PICK m \in S \cap B : x = 0..m
    OBVIOUS
  <1>7. ASSUME NEW n \in S, n < m PROVE FALSE
    <2>1. 0..n \in T /\ 0..n \subseteq x /\ 0..n # x
      BY <1>7, <1>6
    <2> QED BY <2>1, <1>5, <1>3 DEF StrictSubsetOrdering, FiniteSubsetsOf
  <1> QED BY <1>7, <1>6

\* The least of a set of numbers.
LEMMA MinIn == ASSUME NEW S, S \subseteq Nat, S # {} PROVE Min(S) \in S /\ \A n \in S : Min(S) <= n
  BY NatMin DEF Min

\* The lesser and the greater of two numbers.
LEMMA MinOfTwo ==
  ASSUME NEW x \in Nat, NEW y \in Nat
  PROVE  Min({x, y}) = IF x <= y THEN x ELSE y
  BY MinIn

LEMMA MaxOfTwo ==
  ASSUME NEW x \in Int, NEW y \in Int, NEW z, z = IF y > x THEN y ELSE x
  PROVE  Max({x, y}) = z
  <1> DEFINE S == {x, y}
  <1>1. z \in S /\ \A u \in S : z >= u
    OBVIOUS
  <1>2. \A u \in S : (\A v \in S : u >= v) => u = z
    OBVIOUS
  <1> QED BY <1>1, <1>2 DEF Max

(***************************************************************************)
(* The array                                                               *)
(***************************************************************************)
\* What is stored: what a new block holds, and the bytes that the encodings make. They are
\* numbers, but the provers know too little of ^ to show it, and nothing here needs it.
Number == Int \cup {EncodeZigzag32(v) : v \in Int} \cup {EncodeZigzag64(v) : v \in Int}
Byte == JunkBytes \cup Int \cup {v % Radix : v \in Int}
        \cup {(v \div Radix ^ (i - 1)) % Radix : v \in Int, i \in Int}
        \cup {((v \div More ^ (i - 1)) % More) + d : v \in Number, i \in Int, d \in {0, More}}
Blocks == [0..(BaseSize - 1) -> Byte]
ByteArrays == [mem : Seq(Blocks), cur : Nat, position : Nat, size : Nat, capacity : Nat,
               little : BOOLEAN, junk : Byte, io : Seq(Byte), threw : BOOLEAN, crash : BOOLEAN]

\* CurMatches, for any array.
Shape(b) ==
    /\ b.capacity = Len(b.mem) * BaseSize /\ Len(b.mem) > 0
    /\ b.position <= b.size /\ b.size <= b.capacity
    /\ ~b.crash => b.cur = IF b.position = b.capacity THEN NULL
                           ELSE b.position \div BaseSize + 1

\* Byte j of the array, from 0, and the bytes [0, m_size).
Cell(b, j) == b.mem[j \div BaseSize + 1][j % BaseSize]
Data(b) == [i \in 1..b.size |-> Cell(b, i - 1)]

\* A byte within the capacity is in a block.
LEMMA CellIn ==
  ASSUME NEW b \in ByteArrays, Shape(b), NEW j \in Nat, j < b.capacity
  PROVE  /\ j \div BaseSize + 1 \in 1..Len(b.mem) /\ j % BaseSize \in 0..(BaseSize - 1)
         /\ Cell(b, j) \in Byte
  <1>1. b.mem \in Seq(Blocks)
    BY DEF ByteArrays
  <1>2. PICK l \in Nat : l = Len(b.mem)
    BY <1>1, LenProperties
  <1>3. PICK q \in Nat, r \in 0..(BaseSize - 1) : q = j \div BaseSize /\ r = j % BaseSize
    BY DivMod
  <1>4. q < l
    BY <1>2, <1>3, DivLess DEF Shape
  <1>5. q + 1 \in 1..Len(b.mem)
    BY <1>2, <1>4
  <1>6. b.mem[q + 1] \in Blocks
    BY <1>1, <1>5, ElementOfSeq
  <1> QED BY <1>3, <1>5, <1>6 DEF Cell, Blocks

\* The bytes of the array are a sequence.
LEMMA DataIs ==
  ASSUME NEW b \in ByteArrays, Shape(b)
  PROVE  /\ Data(b) \in Seq(Byte) /\ Len(Data(b)) = b.size
         /\ \A i \in 1..b.size : Data(b)[i] = Cell(b, i - 1)
  <1>1. PICK n \in Nat : n = b.size /\ n <= b.capacity /\ b.capacity \in Nat
    BY DEF ByteArrays, Shape
  <1>2. ASSUME NEW i \in 1..n PROVE Cell(b, i - 1) \in Byte
    <2>1. i - 1 \in Nat /\ i - 1 < b.capacity
      BY <1>1
    <2> QED BY <2>1, CellIn
  <1>3. Data(b) \in [1..n -> Byte]
    BY <1>1, <1>2 DEF Data
  <1>4. Data(b) \in Seq(Byte) /\ Len(Data(b)) = n
    BY <1>3
  <1> QED BY <1>1, <1>4 DEF Data

\* Where m_cur is, unless it is null, is where m_position is; a walk from there stays on the
\* list as long as it stays within the capacity, and ends where the position does.
LEMMA Walk ==
  ASSUME NEW b \in ByteArrays, Shape(b), ~b.crash, b.cur # NULL, NEW n \in Nat
  PROVE  /\ OnList(b, n) <=> b.position + n <= b.capacity
         /\ OnList(b, n) => CurAfter(b, n) = IF b.position + n = b.capacity THEN NULL
                                             ELSE (b.position + n) \div BaseSize + 1
         /\ \A i \in 1..n : BytesAt(b, b.cur, b.position % BaseSize, n)[i] = Cell(b, b.position + i - 1)
  <1>1. PICK p \in Nat, c \in Nat, l \in Nat :
          p = b.position /\ c = b.capacity /\ l = Len(b.mem) /\ c = l * BaseSize /\ p <= c
    <2>1. b.mem \in Seq(Blocks) /\ b.position \in Nat /\ b.capacity \in Nat /\ b.size \in Nat
      BY DEF ByteArrays
    <2>2. Len(b.mem) \in Nat
      BY <2>1, LenProperties
    <2> QED BY <2>1, <2>2 DEF Shape
  <1>2. PICK q \in Nat, r \in 0..(BaseSize - 1) :
          q = p \div BaseSize /\ r = p % BaseSize /\ p = q * BaseSize + r
    BY DivMod
  <1>3. p < c /\ b.cur = q + 1
    BY <1>1, <1>2 DEF Shape, NULL
  <1>4. q < l
    BY <1>1, <1>2, <1>3, DivLess
  <1>5. (l - q) * BaseSize = c - q * BaseSize /\ q * BaseSize \in Nat
    <2>1. (l - q) * BaseSize = l * BaseSize - q * BaseSize /\ q * BaseSize \in Nat
      BY ByteArrayAssumption
    <2> QED BY <1>1, <2>1
  <1>6. OnList(b, n) <=> r + n <= (l - q) * BaseSize
    <2>1. l - (q + 1) + 1 = l - q /\ q + 1 # 0
      BY <1>4
    <2> QED BY <1>1, <1>2, <1>3, <2>1 DEF OnList, NULL
  <1>7. OnList(b, n) <=> p + n <= c
    BY <1>1, <1>2, <1>5, <1>6, SMTT(30)
  <1>8. OnList(b, n) => CurAfter(b, n) = IF p + n = c THEN NULL ELSE (p + n) \div BaseSize + 1
    <2> SUFFICES ASSUME p + n <= c
                 PROVE  CurAfter(b, n) = IF p + n = c THEN NULL ELSE (p + n) \div BaseSize + 1
      BY <1>7
    <2>1. PICK e \in Nat : e = (p + n) \div BaseSize /\ q + ((r + n) \div BaseSize) = e
      <3>1. p + n \in Nat
        OBVIOUS
      <3>2. (p + n) \div BaseSize \in Nat
        BY <3>1, DivMod
      <3> QED BY <1>2, <3>2, DivPlus
    <2>2. p + n < c <=> e < l
      BY <1>1, <2>1, DivLess
    <2>3. PICK x \in Nat : x = (r + n) \div BaseSize
      BY <1>2, DivMod, ByteArrayAssumption, SMTT(30)
    <2>4. CurAfter(b, n) = IF (q + 1) + x > l THEN NULL ELSE (q + 1) + x
      BY <1>1, <1>2, <1>3, <2>3 DEF CurAfter
    <2>5. (q + 1) + x = e + 1 /\ (e + 1 > l <=> ~(e < l))
      BY <2>1, <2>3
    <2> QED BY <2>1, <2>2, <2>4, <2>5
  <1>9. ASSUME NEW i \in 1..n
        PROVE  BytesAt(b, b.cur, b.position % BaseSize, n)[i] = Cell(b, b.position + i - 1)
    <2>1. PICK j \in Nat : j = i - 1
      OBVIOUS
    <2>2. q + ((r + j) \div BaseSize) = (p + j) \div BaseSize /\ (r + j) % BaseSize = (p + j) % BaseSize
      BY <1>2, <2>1, DivPlus
    <2>3. BytesAt(b, b.cur, b.position % BaseSize, n)[i]
            = b.mem[(q + 1) + ((r + j) \div BaseSize)][(r + j) % BaseSize]
      <3>1. r + i - 1 = r + j
        BY <2>1
      <3> QED BY <1>1, <1>2, <1>3, <3>1 DEF BytesAt
    <2>4. (q + 1) + ((r + j) \div BaseSize) = (p + j) \div BaseSize + 1
      <3>1. (r + j) \div BaseSize \in Nat
        BY DivMod, ByteArrayAssumption
      <3>2. (p + j) \div BaseSize \in Nat
        BY DivMod
      <3> QED BY <2>2, <3>1, <3>2
    <2>5. p + i - 1 = p + j
      BY <2>1
    <2> QED BY <1>1, <2>2, <2>3, <2>4, <2>5 DEF Cell
  <1> QED BY <1>1, <1>7, <1>8, <1>9

\* Room is made behind the blocks there are, and m_cur points into it if it was null.
LEMMA AddCapacity ==
  ASSUME NEW b \in ByteArrays, Shape(b), ~b.crash, NEW n \in Nat, NEW a, a = addCapacity(b, n)
  PROVE  /\ a \in ByteArrays /\ Shape(a)
         /\ a.position = b.position /\ a.size = b.size /\ a.io = b.io
         /\ a.crash = b.crash /\ a.threw = b.threw /\ a.capacity >= b.capacity
         /\ n > 0 => a.cur # NULL
         /\ \A j \in Nat : j < b.capacity => Cell(a, j) = Cell(b, j)
  <1>1. PICK p \in Nat, c \in Nat, l \in Nat :
          /\ p = b.position /\ c = b.capacity /\ l = Len(b.mem) /\ c = l * BaseSize /\ p <= c /\ l > 0
          /\ b.mem \in Seq(Blocks)
    <2>1. b.mem \in Seq(Blocks) /\ b.position \in Nat /\ b.capacity \in Nat /\ b.size \in Nat
      BY DEF ByteArrays
    <2>2. Len(b.mem) \in Nat
      BY <2>1, LenProperties
    <2> QED BY <2>1, <2>2 DEF Shape
  <1>2. PICK k \in Nat : k = NewBlocks(b, n) /\ (n > c - p /\ c - p = 0 => k > 0)
    <2>1. CASE n <= c - p
      BY <1>1, <2>1 DEF NewBlocks, getCapacity
    <2>2. CASE n > c - p
      <3>1. PICK d \in Nat : d = n - (c - p) /\ d > 0
        BY <1>1, <2>2
      <3>2. PICK q \in Nat, r \in 0..(BaseSize - 1) :
              q = d \div BaseSize /\ r = d % BaseSize /\ d = q * BaseSize + r
        BY DivMod
      <3>3. NewBlocks(b, n) = q + (IF r > c - p THEN 1 ELSE 0)
        BY <1>1, <2>2, <3>1, <3>2 DEF NewBlocks, getCapacity
      <3>4. q = 0 => r = d
        BY <3>2, ByteArrayAssumption
      <3> QED BY <3>1, <3>3, <3>4
    <2> QED BY <1>1, <2>1, <2>2
  <1> DEFINE more == [i \in 1..k |-> Block(b.junk)]
             mem == b.mem \o more
             cur == IF n > getCapacity(b) /\ getCapacity(b) = 0 THEN Len(b.mem) + 1 ELSE b.cur
  <1>3. more \in Seq(Blocks) /\ Len(more) = k
    <2>1. Block(b.junk) \in Blocks
      BY DEF Block, Blocks, ByteArrays
    <2> QED BY <2>1
  <1>4. mem \in Seq(Blocks) /\ Len(mem) = l + k /\ \A i \in 1..l : mem[i] = b.mem[i]
    <2>1. /\ b.mem \o more \in Seq(Blocks)
          /\ Len(b.mem \o more) = Len(b.mem) + Len(more)
          /\ \A i \in 1..(Len(b.mem) + Len(more)) :
               (b.mem \o more)[i] = IF i <= Len(b.mem) THEN b.mem[i] ELSE more[i - Len(b.mem)]
      BY <1>1, <1>3, ConcatProperties, Zenon
    <2> QED BY <1>1, <1>3, <2>1
  <1> HIDE DEF more, mem
  <1>5. PICK x \in Nat : x = k * BaseSize /\ (l + k) * BaseSize = c + x /\ (k > 0 => x > 0) /\ (k = 0 => x = 0)
    <2>1. (l + k) * BaseSize = l * BaseSize + k * BaseSize /\ k * BaseSize \in Nat
      BY ByteArrayAssumption
    <2>2. k > 0 => k * BaseSize > 0
      BY ByteArrayAssumption
    <2>3. k = 0 => k * BaseSize = 0
      BY ByteArrayAssumption
    <2> QED BY <1>1, <2>1, <2>2, <2>3
  <1>6. PICK u \in Nat : u = cur
    BY <1>1 DEF ByteArrays
  <1>7. a = [b EXCEPT !.mem = mem, !.capacity = c + x, !.cur = u]
    BY <1>1, <1>2, <1>5, <1>6 DEF addCapacity, mem, more
  <1>8. /\ a \in ByteArrays /\ a.mem = mem /\ a.capacity = c + x /\ a.cur = u
        /\ a.position = p /\ a.size = b.size /\ a.io = b.io /\ a.crash = b.crash /\ a.threw = b.threw
    <2>1. c + x \in Nat
      OBVIOUS
    <2> HIDE DEF cur
    <2> QED BY <1>1, <1>4, <1>7, <2>1 DEF ByteArrays
  <1> DEFINE is == IF p = c + x THEN NULL ELSE p \div BaseSize + 1
  <1>9. u = is /\ (n > 0 => u # NULL)
    <2>1. CASE n > c - p /\ c - p = 0
      <3>1. x > 0 /\ p = l * BaseSize + 0 /\ p = c
        BY <1>1, <1>2, <1>5, <2>1, SMTT(30)
      <3>2. p \div BaseSize = l
        <4>1. 0 \in 0..(BaseSize - 1)
          BY ByteArrayAssumption
        <4> QED BY <3>1, <4>1, DivUnique
      <3>3. u = l + 1
        BY <1>1, <1>6, <2>1 DEF getCapacity
      <3> QED BY <1>1, <3>1, <3>2, <3>3 DEF NULL
    <2>2. CASE ~(n > c - p /\ c - p = 0)
      <3>1. u = b.cur
        BY <1>1, <1>6, <2>2 DEF getCapacity
      <3>2. CASE p = c
        <4>1. n = 0
          BY <1>1, <2>2, <3>2
        <4>2. NewBlocks(b, n) = 0
          BY <1>1, <3>2, <4>1 DEF NewBlocks, getCapacity
        <4> QED BY <1>1, <1>2, <1>5, <3>1, <3>2, <4>1, <4>2 DEF Shape
      <3>3. CASE p # c
        <4>1. p \div BaseSize \in Nat
          BY DivMod
        <4> QED BY <1>1, <1>5, <3>1, <3>3, <4>1, SMTT(30) DEF Shape, NULL
      <3> QED BY <3>2, <3>3
    <2> QED BY <2>1, <2>2
  <1> HIDE DEF cur
  <1>10. Shape(a)
    <2>1. a.capacity = Len(a.mem) * BaseSize /\ Len(a.mem) > 0
      <3>1. Len(a.mem) = l + k /\ a.capacity = c + x
        BY <1>4, <1>8
      <3>2. Len(a.mem) * BaseSize = c + x
        BY <1>5, <3>1
      <3> QED BY <1>1, <3>1, <3>2
    <2>2. a.position <= a.size /\ a.size <= a.capacity
      <3>1. b.size \in Nat /\ p <= b.size /\ b.size <= c
        BY <1>1 DEF Shape, ByteArrays
      <3> QED BY <1>8, <3>1
    <2> QED BY <1>8, <1>9, <2>1, <2>2 DEF Shape
  <1>11. ASSUME NEW j \in Nat, j < b.capacity PROVE Cell(a, j) = Cell(b, j)
    <2>1. j \div BaseSize + 1 \in 1..l
      BY <1>1, <1>11, CellIn
    <2> QED BY <1>4, <1>8, <2>1 DEF Cell
  <1> QED BY <1>1, <1>5, <1>8, <1>9, <1>10, <1>11

\* A read throws, or runs off the list (with nothing to read and nothing behind the
\* position), or returns the bytes behind the position and moves it behind them.
LEMMA ReadIs ==
  ASSUME NEW b \in ByteArrays, Shape(b), Alive(b), NEW n, NEW r, r = read(b, n)
  PROVE  /\ r \in ByteArrays /\ Shape(r) /\ r.mem = b.mem /\ r.size = b.size
         /\ \/ r.crash
            \/ /\ ~r.crash /\ r.threw /\ r.position = b.position /\ r.io = b.io
            \/ /\ ~r.crash /\ ~r.threw /\ n \in 0..(b.size - b.position)
               /\ r.position = b.position + n
               /\ r.io = b.io \o SubSeq(Data(b), b.position + 1, b.position + n)
  <1>1. CASE n \notin 0..getReadSize(b)
    <2>1. r = [b EXCEPT !.threw = TRUE]
      BY <1>1 DEF read, Alive, Throw
    <2>2. /\ r \in ByteArrays /\ r.mem = b.mem /\ r.size = b.size /\ r.position = b.position
          /\ r.io = b.io /\ r.threw /\ r.crash = b.crash /\ r.cur = b.cur /\ r.capacity = b.capacity
      BY <2>1 DEF ByteArrays
    <2> QED BY <2>2 DEF Shape, Alive
  <1>2. CASE n \in 0..getReadSize(b) /\ ~OnList(b, n)
    <2>1. r = [b EXCEPT !.crash = TRUE]
      BY <1>2 DEF read, Alive, Crash
    <2>2. /\ r \in ByteArrays /\ r.mem = b.mem /\ r.size = b.size /\ r.position = b.position
          /\ r.crash /\ r.capacity = b.capacity
      BY <2>1 DEF ByteArrays
    <2> QED BY <2>2 DEF Shape
  <1>3. CASE n \in 0..getReadSize(b) /\ OnList(b, n)
    <2>1. PICK p \in Nat, s \in Nat, c \in Nat, m \in Nat :
            /\ p = b.position /\ s = b.size /\ c = b.capacity /\ p <= s /\ s <= c /\ m = n
            /\ m \in 0..(s - p)
      <3>1. b.position \in Nat /\ b.size \in Nat /\ b.capacity \in Nat
        BY DEF ByteArrays
      <3> QED BY <1>3, <3>1 DEF getReadSize, Shape
    <2>2. b.cur # NULL /\ ~b.crash
      BY <1>3 DEF OnList, Alive
    <2> DEFINE cur == IF p + m = c THEN NULL ELSE (p + m) \div BaseSize + 1
               part == SubSeq(Data(b), p + 1, p + m)
    <2>3. CurAfter(b, n) = cur
      BY <1>3, <2>1, <2>2, Walk
    <2>4. cur \in Nat
      <3>1. p + m \in Nat
        OBVIOUS
      <3>2. (p + m) \div BaseSize \in Nat
        BY <3>1, DivMod
      <3> QED BY <3>2 DEF NULL
    <2>5. Data(b) \in Seq(Byte) /\ Len(Data(b)) = s /\ \A i \in 1..s : Data(b)[i] = Cell(b, i - 1)
      BY <2>1, DataIs
    <2>6. /\ part \in Seq(Byte) /\ Len(part) = m
          /\ \A i \in 1..m : part[i] = Cell(b, p + i - 1)
      <3>1. PICK j \in Nat : j = p + m /\ p <= j /\ j <= s /\ j - p = m
        BY <2>1
      <3>2. PICK w \in Seq(Byte) : w = Data(b) /\ Len(w) = s
        BY <2>5
      <3>4. j <= Len(w)
        BY <3>1, <3>2
      <3>5. /\ SubSeq(w, p + 1, j) \in Seq(Byte) /\ Len(SubSeq(w, p + 1, j)) = j - p
            /\ \A x \in 1..(j - p) : SubSeq(w, p + 1, j)[x] = w[p + x] /\ w[p + x] \in Byte
        <4>1. p \in Nat /\ j \in Nat /\ p <= j /\ j <= Len(w) /\ w \in Seq(Byte)
          BY <3>1, <3>2, <3>4
        <4> QED BY ONLY <4>1, PartOf, ZenonT(60)
      <3>6. part = SubSeq(w, p + 1, j)
        BY <3>1, <3>2
      <3>3. ASSUME NEW i \in 1..m PROVE part[i] = Cell(b, p + i - 1)
        <4>1. p + i \in 1..s /\ (p + i) - 1 = p + i - 1
          BY <2>1, SMTT(30)
        <4>2. part[i] = Data(b)[p + i]
          BY <3>1, <3>2, <3>5, <3>6
        <4>3. Data(b)[p + i] = Cell(b, (p + i) - 1)
          BY <2>5, <4>1
        <4> QED BY <4>1, <4>2, <4>3
      <3> QED BY <3>1, <3>3, <3>5, <3>6
    <2> HIDE DEF cur, part
    <2>7. BytesAt(b, b.cur, b.position % BaseSize, n) = part
      <3> DEFINE got == BytesAt(b, b.cur, b.position % BaseSize, m)
      <3>1. \A i \in 1..m : got[i] = Cell(b, p + i - 1)
        BY <2>1, <2>2, Walk
      <3>2. got = [i \in 1..m |-> got[i]]
        BY DEF BytesAt
      <3>3. part = [i \in 1..m |-> part[i]]
        BY <2>6
      <3> HIDE DEF got
      <3>4. got = part
        BY <2>6, <3>1, <3>2, <3>3
      <3> QED BY <2>1, <3>4 DEF got
    <2>8. b.io \o part \in Seq(Byte)
      BY <2>6, ConcatProperties DEF ByteArrays
    <2>9. PICK io \in Seq(Byte), u \in Nat : io = b.io \o part /\ u = cur
      BY <2>4, <2>8
    <2>10. r = [b EXCEPT !.cur = u, !.position = p + m, !.io = io]
      BY <1>3, <2>1, <2>3, <2>7, <2>9 DEF read, Alive
    <2>11. /\ r \in ByteArrays /\ r.mem = b.mem /\ r.size = b.size /\ r.position = p + m
           /\ r.io = io /\ r.threw = b.threw /\ r.crash = b.crash /\ r.cur = u
           /\ r.capacity = b.capacity
      <3>1. p + m \in Nat
        OBVIOUS
      <3> QED BY <2>10, <3>1 DEF ByteArrays
    <2>12. p + m <= s
      BY <2>1
    <2>13. Shape(r)
      BY <2>1, <2>9, <2>11, <2>12 DEF Shape, cur
    <2> QED BY <2>1, <2>2, <2>9, <2>11, <2>13 DEF Alive, part
  <1> QED BY <1>1, <1>2, <1>3

\* The bytes stored from offset P on are found there, and the others are left alone.
Stored(b, w, P, m) ==
    /\ m \in Seq(Blocks) /\ Len(m) = Len(b.mem)
    /\ \A j \in Nat : j < b.capacity =>
         m[j \div BaseSize + 1][j % BaseSize]
           = IF j >= P /\ j < P + Len(w) THEN w[j - P + 1] ELSE Cell(b, j)

LEMMA StoreIs ==
  ASSUME NEW b \in ByteArrays, Shape(b), NEW w \in Seq(Byte), NEW P \in Nat, P < b.capacity,
         NEW m, m = Store(b, P \div BaseSize + 1, P % BaseSize, w)
  PROVE  Stored(b, w, P, m)
  <1>1. PICK l \in Nat, n \in Nat, c \in Nat :
          /\ l = Len(b.mem) /\ n = Len(w) /\ c = b.capacity /\ b.mem \in Seq(Blocks)
          /\ \A i \in 1..n : w[i] \in Byte
    <2>1. b.mem \in Seq(Blocks) /\ b.capacity \in Nat
      BY DEF ByteArrays
    <2>2. Len(b.mem) \in Nat /\ Len(w) \in Nat
      BY <2>1, LenProperties
    <2>3. \A i \in 1..Len(w) : w[i] \in Byte
      BY ElementOfSeq
    <2> QED BY <2>1, <2>2, <2>3
  <1>2. PICK q \in Nat, r \in 0..(BaseSize - 1) :
          q = P \div BaseSize /\ r = P % BaseSize /\ P = q * BaseSize + r
    BY DivMod
  <1> DEFINE At(k, o) == (k - (q + 1)) * BaseSize + o - r + 1
             New(k, o) == IF At(k, o) \in 1..n THEN w[At(k, o)] ELSE b.mem[k][o]
  <1>3. m = [k \in 1..l |-> [o \in 0..(BaseSize - 1) |-> New(k, o)]]
    BY <1>1, <1>2 DEF Store
  <1>4. ASSUME NEW k \in 1..l, NEW o \in 0..(BaseSize - 1) PROVE New(k, o) \in Byte
    <2>1. b.mem[k] \in Blocks
      BY <1>1, ElementOfSeq
    <2> QED BY <1>1, <2>1 DEF Blocks
  <1> HIDE DEF New
  <1>5. m \in [1..l -> Blocks]
    BY <1>3, <1>4 DEF Blocks
  <1>6. m \in Seq(Blocks) /\ Len(m) = l
    BY <1>5
  <1>7. ASSUME NEW j \in Nat, j < b.capacity
        PROVE  m[j \div BaseSize + 1][j % BaseSize]
                 = IF j >= P /\ j < P + n THEN w[j - P + 1] ELSE Cell(b, j)
    <2>1. PICK d \in Nat, o \in 0..(BaseSize - 1) :
            d = j \div BaseSize /\ o = j % BaseSize /\ j = d * BaseSize + o
      BY DivMod
    <2>2. d + 1 \in 1..l
      BY <1>1, <1>7, <2>1, CellIn
    <2>3. m[d + 1][o] = New(d + 1, o)
      <3>1. PICK k \in 1..l : k = d + 1
        BY <2>2
      <3>2. m[k] = [e \in 0..(BaseSize - 1) |-> New(k, e)]
        BY <1>3, Zenon
      <3> QED BY <2>1, <3>1, <3>2
    <2>4. At(d + 1, o) = j - P + 1
      <3>1. ((d + 1) - (q + 1)) * BaseSize = d * BaseSize - q * BaseSize
        BY ByteArrayAssumption
      <3>2. PICK x \in Nat, y \in Nat : x = d * BaseSize /\ y = q * BaseSize
        BY ByteArrayAssumption
      <3>3. ((d + 1) - (q + 1)) * BaseSize = x - y /\ j = x + o /\ P = y + r
        BY <1>2, <2>1, <3>1, <3>2
      <3>4. r \in Int /\ o \in Int
        BY <1>2, <2>1, ByteArrayAssumption
      <3>5. (x - y) + o - r + 1 = j - P + 1
        BY <3>2, <3>3, <3>4
      <3> QED BY <3>3, <3>5
    <2>5. j - P + 1 \in 1..n <=> (j >= P /\ j < P + n)
      OBVIOUS
    <2> HIDE DEF At
    <2>6. New(d + 1, o) = IF j - P + 1 \in 1..n THEN w[j - P + 1] ELSE b.mem[d + 1][o]
      BY <2>4 DEF New
    <2> QED BY <2>1, <2>3, <2>5, <2>6 DEF Cell
  <1> QED BY <1>1, <1>6, <1>7 DEF Stored

\* The contents after bytes have been put at the position.
LEMMA DataPut ==
  ASSUME NEW b \in ByteArrays, Shape(b), NEW r \in ByteArrays, Shape(r), NEW w \in Seq(Byte),
         r.size = IF b.position + Len(w) > b.size THEN b.position + Len(w) ELSE b.size,
         \A j \in Nat : j < r.size =>
           Cell(r, j) = IF j >= b.position /\ j < b.position + Len(w) THEN w[j - b.position + 1]
                        ELSE Cell(b, j)
  PROVE  Data(r) = Flat!Overwrite(Data(b), b.position, w)
  <1>1. PICK p \in Nat, s \in Nat, t \in Nat, n \in Nat :
          /\ p = b.position /\ s = b.size /\ t = r.size /\ n = Len(w) /\ p <= s
          /\ t = IF p + n > s THEN p + n ELSE s
    <2>1. b.position \in Nat /\ b.size \in Nat /\ r.size \in Nat
      BY DEF ByteArrays
    <2>2. Len(w) \in Nat
      BY LenProperties
    <2> QED BY <2>1, <2>2 DEF Shape
  <1>2. Data(b) \in Seq(Byte) /\ Len(Data(b)) = s /\ \A i \in 1..s : Data(b)[i] = Cell(b, i - 1)
    BY <1>1, DataIs
  <1> DEFINE Put(i) == IF i > p /\ i <= p + n THEN w[i - p] ELSE Data(b)[i]
  <1>3. Flat!Overwrite(Data(b), b.position, w) = [i \in 1..t |-> Put(i)]
    BY <1>1, <1>2 DEF Flat!Overwrite
  <1>4. ASSUME NEW i \in 1..t PROVE Cell(r, i - 1) = Put(i)
    <2>1. PICK j \in Nat : j = i - 1 /\ j < t
      OBVIOUS
    <2>2. Cell(r, j) = IF j >= p /\ j < p + n THEN w[j - p + 1] ELSE Cell(b, j)
      BY <1>1, <2>1
    <2>3. (j >= p /\ j < p + n <=> i > p /\ i <= p + n) /\ j - p + 1 = i - p
      BY <2>1
    <2>4. ~(i > p /\ i <= p + n) => i \in 1..s
      BY <1>1
    <2>5. ~(i > p /\ i <= p + n) => Data(b)[i] = Cell(b, j)
      BY <1>2, <2>1, <2>4
    <2> QED BY <2>1, <2>2, <2>3, <2>5
  <1>5. Data(r) = [i \in 1..t |-> Cell(r, i - 1)]
    BY <1>1 DEF Data
  <1> HIDE DEF Put
  <1> QED BY <1>3, <1>4, <1>5

\* What a write of the bytes w leaves: a crash (off the list, for want of room), or the
\* bytes at the position, which has moved behind them.
Wrote(b, w, r) ==
    /\ r \in ByteArrays /\ Shape(r)
    /\ ~r.crash => /\ r.position = b.position + Len(w) /\ r.io = b.io \o w /\ ~r.threw
                   /\ Data(r) = Flat!Overwrite(Data(b), b.position, w)

LEMMA WriteIs ==
  ASSUME NEW b \in ByteArrays, Shape(b), Alive(b), NEW w \in Seq(Byte), NEW r, r = write(b, w)
  PROVE  Wrote(b, w, r)
  <1>1. PICK p \in Nat, s \in Nat, n \in Nat :
          p = b.position /\ s = b.size /\ n = Len(w) /\ p <= s /\ ~b.crash /\ ~b.threw
    <2>1. b.position \in Nat /\ b.size \in Nat
      BY DEF ByteArrays
    <2>2. Len(w) \in Nat
      BY LenProperties
    <2> QED BY <2>1, <2>2 DEF Shape, Alive
  <1>2. CASE n = 0
    <2>1. r = b
      BY <1>1, <1>2 DEF write
    <2>2. b.io \o w = b.io
      <3>1. w = << >>
        BY <1>1, <1>2, EmptySeq
      <3>2. b.io \in Seq(Byte)
        BY DEF ByteArrays
      <3> QED BY <3>1, <3>2, ConcatEmptySeq
    <2>3. Data(b) = Flat!Overwrite(Data(b), b.position, w)
      <3>1. b.size = IF b.position + Len(w) > b.size THEN b.position + Len(w) ELSE b.size
        BY <1>1, <1>2
      <3>2. ASSUME NEW j \in Nat, j < b.size
            PROVE  Cell(b, j) = IF j >= b.position /\ j < b.position + Len(w)
                                THEN w[j - b.position + 1] ELSE Cell(b, j)
        BY <1>1, <1>2
      <3> QED BY <3>1, <3>2, DataPut
    <2> QED BY <1>1, <1>2, <2>1, <2>2, <2>3 DEF Wrote
  <1>3. CASE n > 0
    <2>1. PICK a : a = addCapacity(b, n)
      OBVIOUS
    <2>2. /\ a \in ByteArrays /\ Shape(a)
          /\ a.position = p /\ a.size = s /\ a.io = b.io
          /\ ~a.crash /\ ~a.threw /\ a.capacity >= b.capacity /\ a.cur # NULL
          /\ \A j \in Nat : j < b.capacity => Cell(a, j) = Cell(b, j)
      BY <1>1, <1>3, <2>1, AddCapacity
    <2> DEFINE full == [a EXCEPT !.mem = Store(a, a.cur, a.position % BaseSize, w),
                                 !.cur = CurAfter(a, n),
                                 !.position = @ + n,
                                 !.size = Max({@, a.position + n}),
                                 !.io = @ \o w]
    <2>5. r = IF ~OnList(a, n) THEN Crash(b) ELSE full
      <3>1. Alive(b) /\ Len(w) # 0 /\ a = addCapacity(b, Len(w)) /\ n = Len(w)
        BY <1>1, <1>3, <2>1
      <3> QED BY <3>1, SMT DEF write
    <2>3. CASE ~OnList(a, n)
      <3>1. r = [b EXCEPT !.crash = TRUE]
        BY <2>3, <2>5 DEF Crash
      <3>2. /\ r \in ByteArrays /\ r.mem = b.mem /\ r.size = b.size /\ r.position = b.position
            /\ r.crash /\ r.capacity = b.capacity
        BY <3>1 DEF ByteArrays
      <3>3. Shape(r)
        BY <3>2 DEF Shape
      <3> QED BY <3>2, <3>3 DEF Wrote
    <2>4. CASE OnList(a, n)
      <3>1. PICK c \in Nat, d \in Nat : c = a.capacity /\ d = b.capacity /\ d <= c /\ s <= d /\ s <= c
        <4>1. a.capacity \in Nat /\ b.capacity \in Nat
          BY <2>2 DEF ByteArrays
        <4> QED BY <1>1, <2>2, <4>1 DEF Shape
      <3>2. p + n <= c /\ CurAfter(a, n) = IF p + n = c THEN NULL ELSE (p + n) \div BaseSize + 1
        BY <2>2, <2>4, <3>1, Walk
      <3>3. p < c /\ a.cur = p \div BaseSize + 1
        BY <1>3, <2>2, <3>1, <3>2 DEF Shape
      <3>4. PICK m : m = Store(a, p \div BaseSize + 1, p % BaseSize, w)
        OBVIOUS
      <3>5. /\ m \in Seq(Blocks) /\ Len(m) = Len(a.mem)
            /\ \A j \in Nat : j < c =>
                 m[j \div BaseSize + 1][j % BaseSize]
                   = IF j >= p /\ j < p + n THEN w[j - p + 1] ELSE Cell(a, j)
        <4>1. p < a.capacity
          BY <3>1, <3>3
        <4>2. Stored(a, w, p, m)
          BY <1>1, <2>2, <3>4, <4>1, StoreIs
        <4> QED BY <1>1, <3>1, <4>2 DEF Stored
      <3>6. PICK u \in Nat : u = CurAfter(a, n)
        <4>1. p + n \in Nat
          OBVIOUS
        <4>2. (p + n) \div BaseSize \in Nat
          BY <4>1, DivMod
        <4> QED BY <3>2, <4>2 DEF NULL
      <3>7. PICK t \in Nat : t = (IF p + n > s THEN p + n ELSE s) /\ t <= c /\ p + n <= t
        BY <3>1, <3>2
      <3>8. Max({s, p + n}) = t
        BY <3>7, MaxOfTwo
      <3>9. PICK io \in Seq(Byte) : io = b.io \o w
        BY ConcatProperties DEF ByteArrays
      <3>10. r = [a EXCEPT !.mem = m, !.cur = u, !.position = p + n, !.size = t, !.io = io]
        <4>1. r = full
          BY <2>4, <2>5
        <4>2. Store(a, a.cur, a.position % BaseSize, w) = m
          BY <2>2, <3>3, <3>4
        <4> QED BY <2>2, <3>6, <3>8, <3>9, <4>1, <4>2 DEF ByteArrays
      <3>11. /\ r \in ByteArrays /\ r.mem = m /\ r.cur = u /\ r.position = p + n /\ r.size = t
             /\ r.io = io /\ r.capacity = c /\ ~r.crash /\ ~r.threw
        <4>1. PICK q \in Nat : q = p + n
          OBVIOUS
        <4>2. r = [a EXCEPT !.mem = m, !.cur = u, !.position = q, !.size = t, !.io = io]
          BY <3>10, <4>1
        <4>3. r \in ByteArrays
          BY <2>2, <3>5, <4>2 DEF ByteArrays
        <4>4. r.mem = m /\ r.cur = u /\ r.position = q /\ r.size = t /\ r.io = io
          BY <2>2, <4>2 DEF ByteArrays
        <4>5. r.capacity = a.capacity /\ r.crash = a.crash /\ r.threw = a.threw
          BY <2>2, <4>2 DEF ByteArrays
        <4>6. ~a.crash /\ ~a.threw
          BY <2>2
        <4> QED BY <3>1, <4>1, <4>3, <4>4, <4>5, <4>6
      <3>12. Shape(r)
        BY <2>2, <3>1, <3>2, <3>5, <3>6, <3>7, <3>11 DEF Shape
      <3>13. ASSUME NEW j \in Nat, j < t
             PROVE  Cell(r, j) = IF j >= p /\ j < p + n THEN w[j - p + 1] ELSE Cell(b, j)
        <4>1. j < c
          BY <3>7, <3>13
        <4>2. Cell(r, j) = IF j >= p /\ j < p + n THEN w[j - p + 1] ELSE Cell(a, j)
          BY <3>5, <3>11, <4>1 DEF Cell
        <4>3. ~(j >= p /\ j < p + n) => j < d
          BY <1>1, <3>1, <3>7, <3>13, SMTT(20)
        <4>4. ~(j >= p /\ j < p + n) => Cell(a, j) = Cell(b, j)
          BY <2>2, <3>1, <4>3
        <4> QED BY <4>2, <4>4
      <3>14. Data(r) = Flat!Overwrite(Data(b), b.position, w)
        <4>1. r.size = IF b.position + Len(w) > b.size THEN b.position + Len(w) ELSE b.size
          BY <1>1, <3>7, <3>11
        <4>2. ASSUME NEW j \in Nat, j < r.size
              PROVE  Cell(r, j) = IF j >= b.position /\ j < b.position + Len(w)
                                  THEN w[j - b.position + 1] ELSE Cell(b, j)
          BY <1>1, <3>11, <3>13, <4>2
        <4>3. r \in ByteArrays /\ Shape(r)
          BY <3>11, <3>12
        <4> HIDE <1>1, <3>11
        <4> QED BY <4>1, <4>2, <4>3, DataPut
      <3> QED BY <1>1, <3>9, <3>11, <3>12, <3>14 DEF Wrote
    <2> QED BY <2>3, <2>4
  <1> QED BY <1>1, <1>2, <1>3

\* What is put is a sequence, and two puts one behind the other are one.
LEMMA OverwriteIs ==
  ASSUME NEW d \in Seq(Byte), NEW w \in Seq(Byte), NEW p \in Nat, p <= Len(d)
  PROVE  /\ Flat!Overwrite(d, p, w) \in Seq(Byte)
         /\ Len(Flat!Overwrite(d, p, w)) = IF p + Len(w) > Len(d) THEN p + Len(w) ELSE Len(d)
         /\ \A i \in 1..Len(Flat!Overwrite(d, p, w)) :
              Flat!Overwrite(d, p, w)[i] = IF i > p /\ i <= p + Len(w) THEN w[i - p] ELSE d[i]
  <1>1. PICK s \in Nat, n \in Nat : s = Len(d) /\ n = Len(w)
    BY LenProperties
  <1>2. \A i \in 1..s : d[i] \in Byte
    BY <1>1, ElementOfSeq
  <1>3. \A i \in 1..n : w[i] \in Byte
    BY <1>1, ElementOfSeq
  <1>4. PICK t \in Nat : t = IF p + n > s THEN p + n ELSE s
    BY <1>1
  <1> DEFINE o == Flat!Overwrite(d, p, w)
             Put(i) == IF i > p /\ i <= p + n THEN w[i - p] ELSE d[i]
  <1>5. o = [i \in 1..t |-> Put(i)]
    BY <1>1, <1>4 DEF Flat!Overwrite
  <1>6. ASSUME NEW i \in 1..t PROVE Put(i) \in Byte
    <2>1. CASE i > p /\ i <= p + n
      <3>1. i - p \in 1..n
        BY <2>1
      <3> QED BY <1>3, <2>1, <3>1
    <2>2. CASE ~(i > p /\ i <= p + n)
      <3>1. i \in 1..s
        BY <1>1, <1>4, <2>2
      <3> QED BY <1>2, <2>2, <3>1
    <2> QED BY <2>1, <2>2
  <1> HIDE DEF Put, o
  <1>7. o \in [1..t -> Byte]
    BY <1>5, <1>6
  <1>8. o \in Seq(Byte) /\ Len(o) = t
    BY <1>7
  <1>9. \A i \in 1..t : o[i] = Put(i)
    BY <1>5
  <1> QED BY <1>1, <1>4, <1>8, <1>9 DEF o, Put

LEMMA OverwriteTwice ==
  ASSUME NEW d \in Seq(Byte), NEW v \in Seq(Byte), NEW w \in Seq(Byte), NEW p \in Nat, p <= Len(d)
  PROVE  Flat!Overwrite(Flat!Overwrite(d, p, v), p + Len(v), w) = Flat!Overwrite(d, p, v \o w)
  <1>1. PICK s \in Nat, n \in Nat, m \in Nat : s = Len(d) /\ n = Len(v) /\ m = Len(w) /\ p <= s
    BY LenProperties
  <1> DEFINE x == v \o w
             a == Flat!Overwrite(d, p, v)
             q == p + n
             b == Flat!Overwrite(a, q, w)
             c == Flat!Overwrite(d, p, x)
  <1>2. /\ x \in Seq(Byte) /\ Len(x) = n + m
        /\ \A i \in 1..(n + m) : x[i] = IF i <= n THEN v[i] ELSE w[i - n]
    <2>1. /\ v \o w \in Seq(Byte) /\ Len(v \o w) = Len(v) + Len(w)
          /\ \A i \in 1..(Len(v) + Len(w)) :
               (v \o w)[i] = IF i <= Len(v) THEN v[i] ELSE w[i - Len(v)]
      BY ConcatProperties, Zenon
    <2> QED BY <1>1, <2>1
  <1> HIDE DEF x
  <1> DEFINE t == IF p + n > s THEN p + n ELSE s
             k == IF q + m > t THEN q + m ELSE t
  <1>3. /\ a \in Seq(Byte) /\ Len(a) = t
        /\ \A i \in 1..t : a[i] = IF i > p /\ i <= p + n THEN v[i - p] ELSE d[i]
    <2>1. /\ a \in Seq(Byte)
          /\ Len(a) = IF p + Len(v) > Len(d) THEN p + Len(v) ELSE Len(d)
          /\ \A i \in 1..Len(a) : a[i] = IF i > p /\ i <= p + Len(v) THEN v[i - p] ELSE d[i]
      BY OverwriteIs, Zenon
    <2> HIDE DEF a
    <2> QED BY <1>1, <2>1
  <1> HIDE DEF a
  <1>4. q \in Nat /\ t \in Nat /\ k \in Nat /\ q <= t
    BY <1>1
  <1>5. /\ b \in Seq(Byte) /\ Len(b) = k
        /\ \A i \in 1..k : b[i] = IF i > q /\ i <= q + m THEN w[i - q] ELSE a[i]
    <2>1. a \in Seq(Byte) /\ q \in Nat /\ q <= Len(a)
      BY <1>3, <1>4
    <2> HIDE DEF q
    <2>2. /\ b \in Seq(Byte)
          /\ Len(b) = IF q + Len(w) > Len(a) THEN q + Len(w) ELSE Len(a)
          /\ \A i \in 1..Len(b) : b[i] = IF i > q /\ i <= q + Len(w) THEN w[i - q] ELSE a[i]
      BY <2>1, OverwriteIs, Zenon
    <2> HIDE DEF b
    <2> QED BY <1>1, <1>3, <2>2
  <1> HIDE DEF b
  <1>6. /\ c \in Seq(Byte) /\ Len(c) = k
        /\ \A i \in 1..k : c[i] = IF i > p /\ i <= p + (n + m) THEN x[i - p] ELSE d[i]
    <2>1. /\ c \in Seq(Byte)
          /\ Len(c) = IF p + Len(x) > Len(d) THEN p + Len(x) ELSE Len(d)
          /\ \A i \in 1..Len(c) : c[i] = IF i > p /\ i <= p + Len(x) THEN x[i - p] ELSE d[i]
      BY <1>2, OverwriteIs, Zenon
    <2>2. k = IF p + (n + m) > s THEN p + (n + m) ELSE s
      BY <1>1, SMTT(30)
    <2> HIDE DEF c, k
    <2> QED BY <1>1, <1>2, <2>1, <2>2
  <1> HIDE DEF c
  <1>8. ASSUME NEW i \in 1..k PROVE b[i] = c[i]
    <2>1. CASE i <= p
      <3>1. i \in 1..t /\ ~(i > q) /\ ~(i > p)
        BY <1>1, <2>1
      <3> QED BY <1>3, <1>5, <1>6, <3>1
    <2>2. CASE i > p /\ i <= q
      <3>1. i - p \in 1..n /\ i - p \in 1..(n + m) /\ i - p <= n /\ i \in 1..t /\ i <= p + n
            /\ i <= p + (n + m) /\ ~(i > q)
        BY <1>1, <2>2
      <3> HIDE DEF q, t, k
      <3>2. b[i] = v[i - p]
        BY <1>3, <1>5, <2>2, <3>1
      <3>3. c[i] = x[i - p]
        BY <1>6, <2>2, <3>1
      <3> QED BY <1>2, <3>1, <3>2, <3>3
    <2>3. CASE i > q /\ i <= q + m
      <3>1. i - p \in 1..(n + m) /\ ~(i - p <= n) /\ (i - p) - n = i - q /\ i > p /\ i <= p + (n + m)
        BY <1>1, <2>3
      <3> HIDE DEF q, t, k
      <3>2. b[i] = w[i - q]
        BY <1>5, <2>3
      <3>3. c[i] = x[i - p]
        BY <1>6, <3>1
      <3> QED BY <1>2, <3>1, <3>2, <3>3
    <2>4. CASE i > q + m
      <3>1. i \in 1..t /\ ~(i <= p + n) /\ ~(i <= p + (n + m)) /\ ~(i <= q + m)
        BY <1>1, <2>4
      <3> HIDE DEF q, t, k
      <3> QED BY <1>3, <1>5, <1>6, <3>1
    <2> QED BY <1>1, <2>1, <2>2, <2>3, <2>4
  <1>9. b = c
    <2> HIDE DEF k
    <2>1. b = [i \in 1..k |-> b[i]]
      BY <1>4, <1>5
    <2>2. c = [i \in 1..k |-> c[i]]
      BY <1>4, <1>6
    <2> QED BY <1>8, <2>1, <2>2
  <1> QED BY <1>1, <1>9 DEF a, b, c, x

\* A write after a write is a write of the bytes of both.
LEMMA WroteThen ==
  ASSUME NEW b \in ByteArrays, Shape(b), NEW v \in Seq(Byte), NEW w \in Seq(Byte),
         NEW a, Wrote(b, v, a), NEW r, r = write(a, w)
  PROVE  Wrote(b, v \o w, r)
  <1>1. a \in ByteArrays /\ Shape(a)
    BY DEF Wrote
  <1>2. CASE a.crash
    <2>1. r = a
      BY <1>2 DEF write, Alive
    <2> QED BY <1>1, <1>2, <2>1 DEF Wrote
  <1>3. CASE ~a.crash
    <2>1. Alive(a)
      BY <1>3 DEF Wrote, Alive
    <2>2. Wrote(a, w, r)
      BY <1>1, <2>1, WriteIs
    <2> SUFFICES ASSUME ~r.crash
                 PROVE  /\ r.position = b.position + Len(v \o w) /\ r.io = b.io \o (v \o w)
                        /\ Data(r) = Flat!Overwrite(Data(b), b.position, v \o w)
      BY <2>2 DEF Wrote
    <2>3. PICK p \in Nat : p = b.position /\ p <= Len(Data(b))
      BY DataIs DEF ByteArrays, Shape
    <2>4. /\ r.position = a.position + Len(w) /\ r.io = a.io \o w
          /\ Data(r) = Flat!Overwrite(Data(a), a.position, w)
      BY <2>2 DEF Wrote
    <2>5. /\ a.position = p + Len(v) /\ a.io = b.io \o v
          /\ Data(a) = Flat!Overwrite(Data(b), p, v)
      BY <1>3, <2>3 DEF Wrote
    <2>6. Len(v \o w) = Len(v) + Len(w) /\ Len(v) \in Nat /\ Len(w) \in Nat
      BY ConcatProperties, LenProperties
    <2>7. PICK y \in Seq(Byte) : y = b.io
      BY DEF ByteArrays
    <2>8. (b.io \o v) \o w = b.io \o (v \o w)
      <3>1. (y \o v) \o w = y \o (v \o w)
        BY ONLY y \in Seq(Byte), v \in Seq(Byte), w \in Seq(Byte), SMTT(60)
      <3> QED BY <2>7, <3>1
    <2>9. Flat!Overwrite(Flat!Overwrite(Data(b), p, v), p + Len(v), w)
            = Flat!Overwrite(Data(b), p, v \o w)
      <3>1. Data(b) \in Seq(Byte)
        BY DataIs
      <3> QED BY <2>3, <3>1, OverwriteTwice
    <2> QED BY <2>3, <2>4, <2>5, <2>6, <2>8, <2>9
  <1> QED BY <1>2, <1>3

\* The encodings are sequences of bytes.
LEMMA HostBytesAre ==
  ASSUME NEW v \in Int, NEW n \in Nat, NEW b
  PROVE  InOrder(b, HostBytes(v, n)) \in Seq(Byte)
  <1>1. \A i \in 1..n : (v \div Radix ^ (i - 1)) % Radix \in Byte
    BY DEF Byte
  <1>2. PICK h \in Seq(Byte) : h = HostBytes(v, n)
    <2>1. HostBytes(v, n) \in [1..n -> Byte]
      BY <1>1 DEF HostBytes
    <2>2. HostBytes(v, n) \in Seq(Byte)
      BY <2>1
    <2> QED BY <2>2
  <1>3. Reverse(h) \in Seq(Byte)
    <2>1. Len(h) \in Nat /\ \A i \in 1..Len(h) : h[i] \in Byte
      BY <1>2, LenProperties, ElementOfSeq
    <2>2. \A i \in 1..Len(h) : h[(Len(h) - i) + 1] \in Byte
      BY <2>1
    <2> QED BY <2>1, <2>2 DEF Reverse
  <1> QED BY <1>2, <1>3 DEF InOrder

LEMMA VarintBytesAre ==
  ASSUME NEW v \in Number
  PROVE  VarintBytes(v) \in Seq(Byte)
  <1> DEFINE S == {k \in 1..AllGroups : v < More ^ k} \cup {AllGroups}
  <1>1. AllGroups \in Nat
    BY ByteArrayAssumption DEF AllGroups
  <1>2. PICK n \in Nat : n = Min(S)
    <2>1. S \subseteq Nat /\ S # {}
      BY <1>1
    <2> HIDE DEF S
    <2>2. Min(S) \in S
      BY <2>1, MinIn
    <2> QED BY <2>1, <2>2
  <1> DEFINE g(i) == ((v \div More ^ (i - 1)) % More) + (IF i < n THEN More ELSE 0)
  <1>3. VarintBytes(v) = [i \in 1..n |-> g(i)]
    BY <1>2 DEF VarintBytes
  <1>4. \A i \in 1..n : g(i) \in Byte
    BY DEF Byte
  <1> HIDE DEF g
  <1> QED BY <1>3, <1>4

\* The types are told apart by their names.
LEMMA TypesApart ==
  /\ \A t \in DOMAIN FixedWidth : t \notin DOMAIN FloatWidth /\ FixedWidth[t] \in Nat
  /\ \A t \in DOMAIN FloatWidth : FloatWidth[t] \in Nat
  /\ \A t \in DOMAIN FixedWidth \cup DOMAIN FloatWidth :
       t \notin Strings /\ t \notin {"Uint32", "Uint64", "Int32", "Int64"}
  /\ \A t \in {"Uint32", "Uint64", "Int32", "Int64"} : t \notin Strings
  BY DEF FixedWidth, FloatWidth, Strings

\* Every write of a value puts some bytes, or crashes.
LEMMA EncodeIs ==
  ASSUME NEW b \in ByteArrays, Shape(b), Alive(b), NEW s \in Samples, NEW r,
         r = Encode(b, s[1], s[2])
  PROVE  \E w \in Seq(Byte) : Wrote(b, w, r)
  <1> DEFINE t == s[1]
             v == s[2]
  <1>0. t \in Types /\ v \in Seq(Int) /\ (t \in Strings \/ Len(v) = 1)
    BY SamplesAssumption
  <1>1. PICK l \in Nat : l = Len(v)
    BY <1>0, LenProperties
  <1>2. v \in Seq(Byte)
    <2>1. Int \subseteq Byte
      BY DEF Byte
    <2> QED BY <1>0, <2>1
  <1>3. ASSUME NEW x \in Int, NEW n \in Nat, NEW a, a = writeFixed(b, x, n)
        PROVE  \E w \in Seq(Byte) : Wrote(b, w, a)
    <2>1. PICK w \in Seq(Byte) : w = InOrder(b, HostBytes(x, n))
      BY HostBytesAre
    <2> QED BY <1>3, <2>1, WriteIs DEF writeFixed
  <1>4. ASSUME NEW x \in Number, NEW a, a = writeVarint(b, x)
        PROVE  \E w \in Seq(Byte) : Wrote(b, w, a)
    <2>1. PICK w \in Seq(Byte) : w = VarintBytes(x)
      BY VarintBytesAre
    <2> QED BY <1>4, <2>1, WriteIs DEF writeVarint
  <1>5. ASSUME NEW a, NEW w \in Seq(Byte), Wrote(b, w, a), r = write(a, v)
        PROVE  \E x \in Seq(Byte) : Wrote(b, x, r)
    <2>1. w \o v \in Seq(Byte)
      BY <1>2, ConcatProperties
    <2>2. Wrote(b, w \o v, r)
      BY <1>2, <1>5, WroteThen
    <2> QED BY <2>1, <2>2
  <1> HIDE DEF t, v
  <1>6. r = Encode(b, t, v)
    BY DEF t, v
  <1>7. CASE t \in DOMAIN FixedWidth
    <2>1. r = writeFixed(b, v[1], FixedWidth[t])
      BY <1>6, <1>7, TypesApart DEF Encode
    <2>2. FixedWidth[t] \in Nat /\ v[1] \in Int
      BY <1>0, <1>7, TypesApart
    <2> QED BY <1>3, <2>1, <2>2
  <1>8. CASE t \in DOMAIN FloatWidth
    <2>1. r = writeFixed(b, v[1], FloatWidth[t])
      BY <1>6, <1>8, TypesApart DEF Encode
    <2>2. FloatWidth[t] \in Nat /\ v[1] \in Int
      BY <1>0, <1>8, TypesApart
    <2> QED BY <1>3, <2>1, <2>2
  <1>9. CASE t \in {"Uint32", "Uint64", "Int32", "Int64"}
    <2>1. v[1] \in Int
      BY <1>0, <1>9 DEF Strings
    <2>2. \E x \in Number : r = writeVarint(b, x)
      <3>1. /\ v[1] \in Number /\ EncodeZigzag32(v[1]) \in Number /\ EncodeZigzag64(v[1]) \in Number
        BY <2>1 DEF Number
      <3>2. \/ r = writeVarint(b, v[1]) \/ r = writeVarint(b, EncodeZigzag32(v[1]))
            \/ r = writeVarint(b, EncodeZigzag64(v[1]))
        <4>1. t \notin DOMAIN FixedWidth /\ t \notin DOMAIN FloatWidth /\ t \notin Strings
          BY <1>9, TypesApart
        <4> QED BY <1>6, <1>9, <4>1 DEF Encode
      <3> QED BY <3>1, <3>2
    <2> QED BY <1>4, <2>2
  <1>10. CASE t \in Strings
    <2>1. r = writeString(b, t, v)
      <3>1. t \notin DOMAIN FixedWidth /\ t \notin DOMAIN FloatWidth
            /\ t \notin {"Uint32", "Uint64", "Int32", "Int64"}
        BY <1>10, TypesApart
      <3> QED BY <1>6, <1>10, <3>1 DEF Encode
    <2>2. CASE t = "Vint"
      <3>1. l \in Number
        BY DEF Number
      <3>2. r = write(writeVarint(b, l), v)
        BY <1>1, <2>1, <2>2 DEF writeString
      <3> QED BY <1>4, <1>5, <3>1, <3>2
    <2>3. CASE t # "Vint"
      <3>1. r = write(writeFixed(b, l, LengthWidth[t]), v)
        BY <1>1, <1>10, <2>1, <2>3 DEF writeString, Strings
      <3>2. LengthWidth[t] \in Nat
        BY <1>10, <2>3 DEF LengthWidth, Strings
      <3>3. l \in Int
        OBVIOUS
      <3>4. PICK a : a = writeFixed(b, l, LengthWidth[t])
        OBVIOUS
      <3>5. PICK w \in Seq(Byte) : Wrote(b, w, a)
        BY <1>3, <3>2, <3>3, <3>4
      <3> QED BY <1>5, <3>1, <3>4, <3>5
    <2> QED BY <2>2, <2>3
  <1> QED BY <1>0, <1>7, <1>8, <1>9, <1>10 DEF Types

\* Two parts of a sequence, one behind the other, are one.
LEMMA PartsJoin ==
  ASSUME NEW S, NEW w \in Seq(S), NEW i \in Nat, NEW j \in Nat, NEW k \in Nat,
         i <= j, j <= k, k <= Len(w)
  PROVE  SubSeq(w, i + 1, j) \o SubSeq(w, j + 1, k) = SubSeq(w, i + 1, k)
  <1>0. \A p, q \in Nat : p <= q /\ q <= Len(w) =>
           /\ SubSeq(w, p + 1, q) \in Seq(S) /\ Len(SubSeq(w, p + 1, q)) = q - p
           /\ \A a \in 1..(q - p) : SubSeq(w, p + 1, q)[a] = w[p + a] /\ w[p + a] \in S
    BY PartOf
  <1> DEFINE x == SubSeq(w, i + 1, j)
             y == SubSeq(w, j + 1, k)
             z == SubSeq(w, i + 1, k)
  <1>1. /\ x \in Seq(S) /\ Len(x) = j - i
        /\ \A a \in 1..(j - i) : x[a] = w[i + a]
    <2>1. j <= Len(w) /\ Len(w) \in Nat
      BY LenProperties
    <2> QED BY ONLY <1>0, <2>1, i \in Nat, j \in Nat, i <= j, ZenonT(60)
  <1>2. /\ y \in Seq(S) /\ Len(y) = k - j
        /\ \A a \in 1..(k - j) : y[a] = w[j + a]
    BY ONLY <1>0, k <= Len(w), k \in Nat, j \in Nat, j <= k, ZenonT(60)
  <1>3. /\ z \in Seq(S) /\ Len(z) = k - i
        /\ \A a \in 1..(k - i) : z[a] = w[i + a]
    <2>1. i <= k
      OBVIOUS
    <2> QED BY ONLY <1>0, <2>1, k <= Len(w), k \in Nat, i \in Nat, ZenonT(60)
  <1> HIDE DEF x, y, z
  <1> DEFINE o == x \o y
  <1>4. /\ o \in Seq(S) /\ Len(o) = k - i
        /\ \A a \in 1..(k - i) : o[a] = IF a <= j - i THEN x[a] ELSE y[a - (j - i)]
    <2>1. /\ x \o y \in Seq(S) /\ Len(x \o y) = Len(x) + Len(y)
          /\ \A a \in 1..(Len(x) + Len(y)) :
               (x \o y)[a] = IF a <= Len(x) THEN x[a] ELSE y[a - Len(x)]
      BY <1>1, <1>2, ConcatProperties, Zenon
    <2> HIDE DEF o
    <2>2. o \in Seq(S) /\ Len(o) = Len(x) + Len(y)
          /\ \A a \in 1..(Len(x) + Len(y)) : o[a] = IF a <= Len(x) THEN x[a] ELSE y[a - Len(x)]
      BY <2>1, Zenon DEF o
    <2>3. Len(x) + Len(y) = k - i
      BY <1>1, <1>2
    <2> QED BY <1>1, <2>2, <2>3
  <1> HIDE DEF o
  <1>5. ASSUME NEW a \in 1..(k - i) PROVE o[a] = z[a]
    <2>1. CASE a <= j - i
      BY <1>1, <1>3, <1>4, <2>1
    <2>2. CASE ~(a <= j - i)
      <3>1. a - (j - i) \in 1..(k - j) /\ j + (a - (j - i)) = i + a
        BY <2>2
      <3>2. o[a] = y[a - (j - i)]
        BY <1>4, <2>2
      <3>3. y[a - (j - i)] = w[j + (a - (j - i))]
        BY <1>2, <3>1
      <3> QED BY <1>3, <3>1, <3>2, <3>3
    <2> QED BY <2>1, <2>2
  <1>6. o = z
    <2>1. o = [a \in 1..(k - i) |-> o[a]]
      BY <1>4
    <2>2. z = [a \in 1..(k - i) |-> z[a]]
      BY <1>3
    <2> QED BY <1>5, <2>1, <2>2
  <1> QED BY <1>6 DEF o, x, y, z

\* The first part of a part.
LEMMA PartOfPart ==
  ASSUME NEW S, NEW w \in Seq(S), NEW i \in Nat, NEW j \in Nat, NEW n \in Nat,
         i <= j, j <= Len(w), n <= j - i
  PROVE  SubSeq(SubSeq(w, i + 1, j), 1, n) = SubSeq(w, i + 1, i + n)
  <1>1. PICK k \in Nat : k = i + n /\ i <= k /\ k <= Len(w) /\ k - i = n
    <2>1. Len(w) \in Nat
      BY LenProperties
    <2> QED BY <2>1
  <1> DEFINE x == SubSeq(w, i + 1, j)
             y == SubSeq(x, 0 + 1, n)
             z == SubSeq(w, i + 1, k)
  <1>2. x \in Seq(S) /\ Len(x) = j - i /\ \A a \in 1..(j - i) : x[a] = w[i + a]
    BY ONLY w \in Seq(S), i \in Nat, j \in Nat, i <= j, j <= Len(w), PartOf, ZenonT(60)
  <1>3. z \in Seq(S) /\ Len(z) = k - i /\ \A a \in 1..(k - i) : z[a] = w[i + a]
    <2>1. i <= k /\ k <= Len(w)
      BY <1>1
    <2> QED BY ONLY <2>1, w \in Seq(S), i \in Nat, k \in Nat, PartOf, ZenonT(60)
  <1> HIDE DEF x
  <1>4. y \in Seq(S) /\ Len(y) = n - 0 /\ \A a \in 1..(n - 0) : y[a] = x[0 + a]
    <2>1. 0 \in Nat /\ n \in Nat /\ 0 <= n /\ n <= Len(x) /\ x \in Seq(S)
      BY <1>2
    <2> QED BY ONLY <2>1, PartOf, ZenonT(60)
  <1> HIDE DEF y, z
  <1>5. \A a \in 1..n : y[a] = z[a]
    <2>1. \A a \in 1..n : a \in 1..(j - i) /\ a \in 1..(k - i) /\ a \in 1..(n - 0) /\ 0 + a = a
      BY <1>1
    <2> QED BY <1>2, <1>3, <1>4, <2>1
  <1>6. y = [a \in 1..n |-> y[a]]
    BY <1>4
  <1>7. z = [a \in 1..n |-> z[a]]
    BY <1>1, <1>3
  <1>8. y = z
    BY <1>5, <1>6, <1>7
  <1> QED BY <1>1, <1>8 DEF x, y, z

LEMMA BytesOfPart ==
  \A w \in Seq(Byte), i, j, n \in Nat : i <= j /\ j <= Len(w) /\ n <= j - i =>
    SubSeq(SubSeq(w, i + 1, j), 1, n) = SubSeq(w, i + 1, i + n)
  BY PartOfPart

\* What a read leaves: the same blocks, and as many bytes from the position on as it has
\* moved by; or a crash.
Got(b, r) ==
    /\ r \in ByteArrays /\ Shape(r) /\ r.mem = b.mem /\ r.size = b.size
    /\ ~r.crash => /\ r.position \in b.position..b.size
                   /\ r.io = b.io \o SubSeq(Data(b), b.position + 1, r.position)

LEMMA GotNothing ==
  ASSUME NEW b \in ByteArrays, Shape(b)
  PROVE  Got(b, b)
  <1>1. PICK p \in Nat, s \in Nat, io \in Seq(Byte) : p = b.position /\ s = b.size /\ p <= s /\ io = b.io
    BY DEF ByteArrays, Shape
  <1>2. SubSeq(Data(b), p + 1, p) = << >>
    <2>1. Data(b) \in Seq(Byte) /\ p + 1 > p
      BY DataIs
    <2> QED BY <2>1
  <1>3. io \o << >> = io
    BY ConcatEmptySeq
  <1>4. p \in p..s
    BY <1>1
  <1> QED BY <1>1, <1>2, <1>3, <1>4 DEF Got

LEMMA GotThen ==
  ASSUME NEW b \in ByteArrays, Shape(b), NEW a, Got(b, a), NEW n, NEW r, r = read(a, n)
  PROVE  Got(b, r)
  <1>1. a \in ByteArrays /\ Shape(a) /\ a.mem = b.mem /\ a.size = b.size
    BY DEF Got
  <1>2. CASE ~Alive(a)
    <2>1. r = a
      BY <1>2 DEF read
    <2> QED BY <2>1
  <1>3. CASE Alive(a)
    <2>1. /\ r \in ByteArrays /\ Shape(r) /\ r.mem = a.mem /\ r.size = a.size
          /\ \/ r.crash
             \/ /\ ~r.crash /\ r.threw /\ r.position = a.position /\ r.io = a.io
             \/ /\ ~r.crash /\ ~r.threw /\ n \in 0..(a.size - a.position)
                /\ r.position = a.position + n
                /\ r.io = a.io \o SubSeq(Data(a), a.position + 1, a.position + n)
      BY <1>1, <1>3, ReadIs, ZenonT(60)
    <2>2. /\ a.position \in b.position..b.size
          /\ a.io = b.io \o SubSeq(Data(b), b.position + 1, a.position)
      BY <1>3 DEF Got, Alive
    <2>3. CASE r.crash
      BY <1>1, <2>1, <2>3 DEF Got
    <2>4. CASE r.threw /\ r.position = a.position /\ r.io = a.io
      BY <1>1, <2>1, <2>2, <2>4 DEF Got
    <2>5. CASE /\ ~r.crash /\ n \in 0..(a.size - a.position) /\ r.position = a.position + n
               /\ r.io = a.io \o SubSeq(Data(a), a.position + 1, a.position + n)
      <3>1. PICK p \in Nat, q \in Nat, t \in Nat, s \in Nat :
              /\ p = b.position /\ q = a.position /\ t = r.position /\ s = b.size
              /\ p <= q /\ q <= t /\ t <= s
        <4>1. b.position \in Nat /\ a.position \in Nat /\ r.position \in Nat /\ b.size \in Nat
          BY <1>1, <2>1 DEF ByteArrays
        <4> QED BY <1>1, <2>2, <2>5, <4>1
      <3>2. Data(a) = Data(b)
        BY <1>1 DEF Data, Cell
      <3>3. PICK D \in Seq(Byte) : D = Data(b) /\ Len(D) = s
        BY <3>1, DataIs
      <3>4. PICK io \in Seq(Byte) : io = b.io
        BY DEF ByteArrays
      <3>5. PICK x \in Seq(Byte), y \in Seq(Byte) : x = SubSeq(D, p + 1, q) /\ y = SubSeq(D, q + 1, t)
        <4>1. q <= Len(D) /\ t <= Len(D)
          BY <3>1, <3>3
        <4>2. SubSeq(D, p + 1, q) \in Seq(Byte)
          BY <3>1, <3>3, <4>1, PartOf
        <4>3. SubSeq(D, q + 1, t) \in Seq(Byte)
          BY <3>1, <3>3, <4>1, PartOf
        <4> QED BY <4>2, <4>3
      <3>6. (io \o x) \o y = io \o (x \o y)
        BY ONLY io \in Seq(Byte), x \in Seq(Byte), y \in Seq(Byte), SMTT(60)
      <3>7. x \o y = SubSeq(D, p + 1, t)
        <4>1. /\ p \in Nat /\ q \in Nat /\ t \in Nat /\ p <= q /\ q <= t /\ t <= Len(D)
              /\ D \in Seq(Byte)
          BY <3>1, <3>3
        <4>2. SubSeq(D, p + 1, q) \o SubSeq(D, q + 1, t) = SubSeq(D, p + 1, t)
          BY ONLY <4>1, PartsJoin, ZenonT(60)
        <4> QED BY <3>5, <4>2
      <3>8. r.io = (io \o x) \o y
        BY <2>2, <2>5, <3>1, <3>2, <3>3, <3>4, <3>5
      <3>9. t \in p..s
        BY <3>1
      <3> QED BY <1>1, <2>1, <3>1, <3>3, <3>4, <3>6, <3>7, <3>8, <3>9 DEF Got
    <2> QED BY <2>1, <2>3, <2>4, <2>5
  <1> QED BY <1>2, <1>3

LEMMA GotThrow ==
  ASSUME NEW b, NEW a, Got(b, a)
  PROVE  Got(b, Throw(a))
  <1>1. a \in ByteArrays /\ Shape(a) /\ a.mem = b.mem /\ a.size = b.size
    BY DEF Got
  <1>2. PICK r : r = Throw(a)
    OBVIOUS
  <1>3. /\ r \in ByteArrays /\ r.mem = a.mem /\ r.size = a.size /\ r.position = a.position
        /\ r.io = a.io /\ r.crash = a.crash /\ r.cur = a.cur /\ r.capacity = a.capacity
    BY <1>1, <1>2 DEF ByteArrays, Throw
  <1>4. Shape(r)
    BY <1>1, <1>3 DEF Shape
  <1> QED BY <1>2, <1>3, <1>4 DEF Got

\* Every read of a value gets some bytes, or crashes.
LEMMA DecodeIs ==
  ASSUME NEW b \in ByteArrays, Shape(b), NEW t \in Types
  PROVE  Got(b, Decode(b, t))
  <1>1. ASSUME NEW a, Got(b, a), NEW n PROVE Got(b, read(a, n))
    BY <1>1, GotThen
  <1>2. Got(b, b)
    BY GotNothing
  <1>3. ASSUME NEW n PROVE Got(b, readFixed(b, n))
    BY <1>1, <1>2 DEF readFixed
  <1>4. Got(b, readVarint(b))
    <2> DEFINE most == Min({MaxGroups, getReadSize(b)})
               ends == {i \in 1..most : BytesAt(b, b.cur, b.position % BaseSize, most)[i] < More}
               a == IF most = 0 THEN b ELSE read(b, Min(ends \cup {most}))
    <2>1. Got(b, a)
      <3> HIDE DEF most, ends
      <3> QED BY <1>1, <1>2
    <2>2. readVarint(b) = IF ends = {} /\ most < MaxGroups THEN Throw(a) ELSE a
      BY DEF readVarint
    <2> HIDE DEF most, ends, a
    <2> QED BY <2>1, <2>2, GotThrow
  <1>5. CASE t \in DOMAIN FixedWidth
    <2>1. Decode(b, t) = readFixed(b, FixedWidth[t])
      BY <1>5, TypesApart DEF Decode
    <2> QED BY <1>3, <2>1
  <1>6. CASE t \in DOMAIN FloatWidth
    <2>1. Decode(b, t) = readFixed(b, FloatWidth[t])
      BY <1>6, TypesApart DEF Decode
    <2> QED BY <1>3, <2>1
  <1>7. CASE t \in {"Uint32", "Uint64", "Int32", "Int64"}
    <2>1. t \notin DOMAIN FixedWidth /\ t \notin DOMAIN FloatWidth /\ t \notin Strings
      BY <1>7, TypesApart
    <2>2. Decode(b, t) = readVarint(b)
      BY <1>7, <2>1 DEF Decode
    <2> QED BY <1>4, <2>2
  <1>8. CASE t \in Strings
    <2>1. t \notin DOMAIN FixedWidth /\ t \notin DOMAIN FloatWidth
          /\ t \notin {"Uint32", "Uint64", "Int32", "Int64"}
      BY <1>8, TypesApart
    <2>2. Decode(b, t) = readString(b, t)
      BY <1>8, <2>1 DEF Decode
    <2> DEFINE a == IF t = "Vint" THEN readVarint(b) ELSE readFixed(b, LengthWidth[t])
               n == IF t = "Vint" THEN VarintValue(a.io) ELSE FixedValue(a, a.io)
    <2>3. Got(b, a)
      BY <1>3, <1>4
    <2>4. readString(b, t) = IF ~Alive(a) THEN a ELSE read(a, n)
      BY DEF readString
    <2> HIDE DEF a, n
    <2> QED BY <1>1, <2>2, <2>3, <2>4
  <1> QED BY <1>5, <1>6, <1>7, <1>8 DEF Types

\* A look at the k bytes from offset P on, through the blocks.
LEMMA LookIs ==
  ASSUME NEW b \in ByteArrays, Shape(b), NEW P \in Nat, NEW k \in Nat, P + k <= b.size,
         NEW c, k > 0 => c = P \div BaseSize + 1
  PROVE  /\ BytesAt(b, c, P % BaseSize, k) = SubSeq(Data(b), P + 1, P + k)
         /\ Gather(b, Iovecs(c, P % BaseSize, k)) = SubSeq(Data(b), P + 1, P + k)
         /\ SubSeq(Data(b), P + 1, P + k) \in Seq(Byte) /\ Len(SubSeq(Data(b), P + 1, P + k)) = k
  <1>1. PICK s \in Nat, cap \in Nat : s = b.size /\ P + k <= s /\ cap = b.capacity /\ s <= cap
    BY DEF ByteArrays, Shape
  <1>2. PICK D \in Seq(Byte) : D = Data(b) /\ Len(D) = s /\ \A i \in 1..s : D[i] = Cell(b, i - 1)
    BY <1>1, DataIs
  <1>3. PICK Q \in Nat : Q = P + k
    OBVIOUS
  <1> DEFINE part == SubSeq(D, P + 1, Q)
             look == BytesAt(b, c, P % BaseSize, k)
             iovs == Iovecs(c, P % BaseSize, k)
  <1>4. /\ part \in Seq(Byte) /\ Len(part) = k
        /\ \A i \in 1..k : part[i] = D[P + i]
    <2>1. P \in Nat /\ Q \in Nat /\ P <= Q /\ Q <= Len(D) /\ D \in Seq(Byte)
      BY <1>1, <1>2, <1>3
    <2>2. /\ part \in Seq(Byte) /\ Len(part) = Q - P
          /\ \A i \in 1..(Q - P) : part[i] = D[P + i]
      BY ONLY <2>1, PartOf, ZenonT(60)
    <2>3. Q - P = k
      BY <1>3
    <2> HIDE DEF part
    <2> QED BY <2>2, <2>3
  <1> HIDE DEF part
  <1>5. ASSUME NEW i \in 1..k
        PROVE  /\ part[i] = b.mem[c + ((P % BaseSize) + i - 1) \div BaseSize]
                                 [((P % BaseSize) + i - 1) % BaseSize]
    <2>1. PICK j \in Nat : j = i - 1
      OBVIOUS
    <2>2. PICK q \in Nat, r \in 0..(BaseSize - 1) : q = P \div BaseSize /\ r = P % BaseSize
      BY DivMod
    <2>3. PICK e \in Nat, m \in 0..(BaseSize - 1) : e = (P + j) \div BaseSize /\ m = (P + j) % BaseSize
      <3>1. P + j \in Nat
        BY <2>1
      <3> QED BY <3>1, DivMod
    <2>4. PICK x \in Nat : x = (r + j) \div BaseSize
      <3>1. PICK z \in Nat : z = r + j
        BY <2>1, <2>2, ByteArrayAssumption
      <3>2. z \div BaseSize \in Nat
        BY DivMod
      <3> QED BY <3>1, <3>2
    <2>5. q + x = e /\ (r + j) % BaseSize = m
      BY <2>2, <2>3, <2>4, DivPlus
    <2>6. c + x = e + 1 /\ r + i - 1 = r + j
      <3>1. c = q + 1
        BY <2>2
      <3>2. r \in Int
        BY <2>2, ByteArrayAssumption
      <3> QED BY <2>1, <2>3, <2>4, <2>5, <3>1, <3>2
    <2>7. part[i] = Cell(b, P + j)
      <3>1. P + i \in 1..s /\ (P + i) - 1 = P + j
        BY <1>1, <2>1
      <3>2. D[P + i] = Cell(b, (P + i) - 1)
        BY <1>2, <3>1
      <3> QED BY <1>4, <3>1, <3>2
    <2> QED BY <2>2, <2>3, <2>4, <2>5, <2>6, <2>7 DEF Cell
  <1>6. part = [i \in 1..k |-> part[i]]
    BY <1>4
  <1>7. look = part
    BY <1>5, <1>6 DEF BytesAt
  <1>8. Gather(b, iovs) = part
    <2>1. Len(iovs) = k
      BY DEF Iovecs
    <2>2. ASSUME NEW i \in 1..k
          PROVE  b.mem[iovs[i][1]][iovs[i][2]] = part[i]
      BY <1>5 DEF Iovecs
    <2> HIDE DEF iovs
    <2> QED BY <1>6, <2>1, <2>2 DEF Gather
  <1> QED BY <1>2, <1>3, <1>4, <1>7, <1>8 DEF part

\* The position may move anywhere within the capacity: the bytes there were stay, and those
\* before the new position count as written.
Moved(b, v, r) ==
    /\ r \in ByteArrays /\ Shape(r) /\ r.mem = b.mem /\ r.crash = b.crash
    /\ r.position = v /\ r.io = b.io /\ r.capacity = b.capacity
    /\ r.size = IF v > b.size THEN v ELSE b.size

LEMMA SetPostionIs ==
  ASSUME NEW b \in ByteArrays, Shape(b), NEW v \in Nat, v <= b.capacity,
         NEW r, r = setPostion(b, v)
  PROVE  Moved(b, v, r)
  <1>1. PICK s \in Nat, c \in Nat, l \in Nat :
          /\ s = b.size /\ c = b.capacity /\ l = Len(b.mem) /\ c = l * BaseSize /\ s <= c
    <2>1. b.mem \in Seq(Blocks) /\ b.capacity \in Nat /\ b.size \in Nat
      BY DEF ByteArrays
    <2>2. Len(b.mem) \in Nat
      BY <2>1, LenProperties
    <2> QED BY <2>1, <2>2 DEF Shape
  <1>2. PICK t \in Nat : t = (IF v > s THEN v ELSE s) /\ t <= c /\ v <= t
    BY <1>1
  <1>3. Max({s, v}) = t
    BY <1>2, MaxOfTwo
  <1>4. PICK q \in Nat : q = v \div BaseSize
    BY DivMod
  <1>5. v < c <=> q < l
    BY <1>1, <1>4, DivLess
  <1>6. PICK u \in Nat : u = (IF q + 1 > l THEN NULL ELSE q + 1)
    BY DEF NULL
  <1>7. r = [b EXCEPT !.position = v, !.size = t, !.cur = u]
    <2>1. ~(v > b.capacity)
      BY <1>1
    <2> QED BY <1>1, <1>3, <1>4, <1>6, <2>1 DEF setPostion, ByteArrays
  <1>8. /\ r \in ByteArrays /\ r.mem = b.mem /\ r.crash = b.crash /\ r.position = v
        /\ r.io = b.io /\ r.size = t /\ r.cur = u /\ r.capacity = c
    BY <1>1, <1>7 DEF ByteArrays
  <1>9. u = IF v = c THEN NULL ELSE v \div BaseSize + 1
    BY <1>1, <1>4, <1>5, <1>6
  <1>10. Shape(r)
    BY <1>1, <1>2, <1>8, <1>9 DEF Shape
  <1> QED BY <1>1, <1>2, <1>8, <1>10 DEF Moved

(***************************************************************************)
(* What a call does, as the owner sees it                                  *)
(***************************************************************************)
\* The replies of a look at a position, and of one that may return other bytes than are
\* there.
PlainReply(y) == y.type \notin {"look", "astray"}

\* From the array b, r is reached by one of the steps of FlatBuffer, at its position.
Moves(b, r) ==
    /\ r \in ByteArrays /\ Shape(r)
    /\ \/ r.crash
       \/ /\ ~r.crash /\ r.position = b.position + Len(r.io)
          /\ Data(r) = Flat!Overwrite(Data(b), b.position, r.io)
       \/ /\ ~r.crash /\ Data(r) = Data(b) /\ r.position \in b.position..b.size
          /\ r.io = SubSeq(Data(b), b.position + 1, r.position)
       \/ /\ ~r.crash /\ Data(r) = Data(b) /\ r.position = b.position
          /\ \E q \in b.position..b.size : r.io = SubSeq(Data(b), b.position + 1, q)
       \/ /\ ~r.crash /\ r.size >= b.size /\ r.position <= r.size /\ r.io = << >>
          /\ \A i \in 1..b.size : Data(r)[i] = Data(b)[i]
          /\ r.size > b.size => r.position = r.size
       \/ ~r.crash /\ r.size = 0 /\ r.position = 0 /\ r.io = << >>

LEMMA MovesIs ==
  ASSUME ba \in ByteArrays, Shape(ba), ~ba.crash, NEW r, ba' = r, Moves(ba, r), PlainReply(reply')
  PROVE  Flat!Next
  <1>1. PICK b : b = ba
    OBVIOUS
  <1>2. /\ b \in ByteArrays /\ Shape(b) /\ ~b.crash /\ r \in ByteArrays /\ Shape(r) /\ Moves(b, r)
    BY <1>1 DEF Moves
  <1>3. Contents = Data(b) /\ Contents' = Data(r)
    BY <1>1 DEF Contents, Data, Cell
  <1>4. /\ Data(b) \in Seq(Byte) /\ Len(Data(b)) = b.size
        /\ Data(r) \in Seq(Byte) /\ Len(Data(r)) = r.size
    BY <1>2, DataIs
  <1>5. /\ b.size \in Nat /\ b.position \in Nat /\ r.size \in Nat /\ r.position \in Nat
        /\ r.crash \in BOOLEAN /\ (~r.crash => ba.crash' = ba.crash)
    BY <1>1, <1>2 DEF ByteArrays
  <1>6. Seen' = r.io /\ Asked' = r.position
    BY <1>1 DEF PlainReply, Seen, Asked
  <1>7. CASE r.crash
    BY <1>1, <1>2, <1>7 DEF Flat!Next, Flat!Crash
  <1>8. CASE /\ ~r.crash /\ r.position = b.position + Len(r.io)
             /\ Data(r) = Flat!Overwrite(Data(b), b.position, r.io)
    <2>1. Flat!Put
      BY <1>1, <1>2, <1>3, <1>5, <1>8, <1>6 DEF Flat!Put
    <2> QED BY <1>1, <1>2, <2>1 DEF Flat!Next
  <1>9. CASE /\ ~r.crash /\ Data(r) = Data(b) /\ r.position \in b.position..b.size
             /\ r.io = SubSeq(Data(b), b.position + 1, r.position)
    <2>1. Flat!Get
      BY <1>1, <1>2, <1>3, <1>4, <1>5, <1>9, <1>6 DEF Flat!Get
    <2> QED BY <1>1, <1>2, <2>1 DEF Flat!Next
  <1>10. CASE /\ ~r.crash /\ Data(r) = Data(b) /\ r.position = b.position
             /\ \E q \in b.position..b.size : r.io = SubSeq(Data(b), b.position + 1, q)
    <2>1. b.position \in 0..b.size
      BY <1>2, <1>5 DEF Shape
    <2>2. Flat!Peek
      BY <1>1, <1>2, <1>3, <1>4, <1>5, <1>10, <1>6, <2>1 DEF Flat!Peek
    <2> QED BY <1>1, <1>2, <2>2 DEF Flat!Next
  <1>11. CASE /\ ~r.crash /\ r.size >= b.size /\ r.position <= r.size /\ r.io = << >>
              /\ \A i \in 1..b.size : Data(r)[i] = Data(b)[i]
              /\ r.size > b.size => r.position = r.size
    <2>1. Flat!Seek
      BY <1>1, <1>2, <1>3, <1>4, <1>5, <1>11, <1>6 DEF Flat!Seek
    <2> QED BY <1>1, <1>2, <2>1 DEF Flat!Next
  <1>12. CASE ~r.crash /\ r.size = 0 /\ r.position = 0 /\ r.io = << >>
    <2>1. Data(r) = << >>
      BY <1>4, <1>12, EmptySeq
    <2>2. Flat!Clear
      BY <1>1, <1>2, <1>3, <1>5, <1>12, <2>1, <1>6 DEF Flat!Clear
    <2> QED BY <1>1, <1>2, <2>2 DEF Flat!Next
  <1> QED BY <1>2, <1>7, <1>8, <1>9, <1>10, <1>11, <1>12 DEF Moves

\* A call begins with no byte moved and nothing thrown.
LEMMA FreshIs ==
  ASSUME NEW b \in ByteArrays, Shape(b)
  PROVE  /\ Fresh(b) \in ByteArrays /\ Shape(Fresh(b)) /\ Data(Fresh(b)) = Data(b)
         /\ Fresh(b).mem = b.mem /\ Fresh(b).size = b.size /\ Fresh(b).position = b.position
         /\ Fresh(b).capacity = b.capacity /\ Fresh(b).cur = b.cur /\ Fresh(b).crash = b.crash
         /\ Fresh(b).io = << >> /\ ~Fresh(b).threw
  <1>1. PICK f : f = Fresh(b)
    OBVIOUS
  <1>2. /\ f \in ByteArrays /\ f.mem = b.mem /\ f.size = b.size /\ f.position = b.position
        /\ f.capacity = b.capacity /\ f.cur = b.cur /\ f.crash = b.crash
        /\ f.io = << >> /\ ~f.threw
    <2>1. << >> \in Seq(Byte)
      OBVIOUS
    <2> QED BY <1>1, <2>1 DEF Fresh, ByteArrays
  <1>3. Shape(f)
    BY <1>2 DEF Shape
  <1>4. Data(f) = Data(b)
    BY <1>2 DEF Data, Cell
  <1> QED BY <1>1, <1>2, <1>3, <1>4

LEMMA WroteMoves ==
  ASSUME NEW b \in ByteArrays, Shape(b), NEW w \in Seq(Byte), NEW r, Wrote(Fresh(b), w, r)
  PROVE  Moves(b, r)
  <1>1. CASE r.crash
    BY <1>1 DEF Wrote, Moves
  <1>2. CASE ~r.crash
    <2>1. << >> \o w = w
      BY ConcatEmptySeq
    <2>2. /\ r \in ByteArrays /\ Shape(r) /\ r.position = b.position + Len(w) /\ r.io = w
          /\ Data(r) = Flat!Overwrite(Data(b), b.position, w)
      BY <1>2, <2>1, FreshIs DEF Wrote
    <2> QED BY <1>2, <2>2 DEF Moves
  <1> QED BY <1>1, <1>2

LEMMA GotMoves ==
  ASSUME NEW b \in ByteArrays, Shape(b), NEW r, Got(Fresh(b), r)
  PROVE  Moves(b, r)
  <1>1. CASE r.crash
    BY <1>1 DEF Got, Moves
  <1>2. CASE ~r.crash
    <2>1. /\ r \in ByteArrays /\ Shape(r) /\ r.mem = b.mem /\ r.size = b.size
          /\ r.position \in b.position..b.size
          /\ r.io = << >> \o SubSeq(Data(b), b.position + 1, r.position)
      BY <1>2, FreshIs DEF Got
    <2>2. Data(r) = Data(b)
      BY <2>1 DEF Data, Cell
    <2>3. PICK p \in Nat, q \in Nat, s \in Nat :
            p = b.position /\ q = r.position /\ s = b.size /\ p <= q /\ q <= s
      <3>1. b.position \in Nat /\ r.position \in Nat /\ b.size \in Nat
        BY <2>1 DEF ByteArrays
      <3> QED BY <2>1, <3>1
    <2>4. PICK x \in Seq(Byte) : x = SubSeq(Data(b), p + 1, q)
      <3>1. Data(b) \in Seq(Byte) /\ q <= Len(Data(b))
        BY <2>3, DataIs
      <3>2. SubSeq(Data(b), p + 1, q) \in Seq(Byte)
        BY <2>3, <3>1, PartOf
      <3> QED BY <3>2
    <2>5. << >> \o x = x
      BY ConcatEmptySeq
    <2>6. r.io = SubSeq(Data(b), b.position + 1, r.position)
      BY <2>1, <2>3, <2>4, <2>5
    <2> QED BY <1>2, <2>1, <2>2, <2>6 DEF Moves
  <1> QED BY <1>1, <1>2

\* Nothing is moved, or a look is taken.
LEMMA PeekMoves ==
  ASSUME NEW b \in ByteArrays, Shape(b), ~b.crash, NEW r \in ByteArrays, Shape(r), ~r.crash,
         r.size = b.size, r.position = b.position, \A j \in Nat : j < b.size => Cell(r, j) = Cell(b, j),
         NEW q \in Nat, b.position <= q, q <= b.size, r.io = SubSeq(Data(b), b.position + 1, q)
  PROVE  Moves(b, r)
  <1>1. Data(r) = Data(b)
    <2>1. PICK s \in Nat : s = b.size
      BY DEF ByteArrays
    <2>2. \A i \in 1..s : i - 1 \in Nat /\ i - 1 < s
      OBVIOUS
    <2>3. \A i \in 1..s : Cell(r, i - 1) = Cell(b, i - 1)
      BY <2>1, <2>2
    <2> QED BY <2>1, <2>3 DEF Data
  <1>2. b.size \in Nat /\ b.position \in Nat
    BY DEF ByteArrays
  <1>3. q \in b.position..b.size
    BY <1>2
  <1> QED BY <1>1, <1>3 DEF Moves

\* The calls of a live array, one by one.
LEMMA FreshMoves ==
  ASSUME NEW b \in ByteArrays, Shape(b), ~b.crash
  PROVE  Moves(b, Fresh(b))
  <1>1. Got(Fresh(b), Fresh(b))
    <2>1. PICK f \in ByteArrays : f = Fresh(b) /\ Shape(f)
      BY FreshIs
    <2> QED BY <2>1, GotNothing
  <1> QED BY <1>1, GotMoves

LEMMA WriteMoves ==
  ASSUME NEW b \in ByteArrays, Shape(b), ~b.crash, NEW w \in Seq(Byte)
  PROVE  Moves(b, write(Fresh(b), w))
  <1>1. PICK f \in ByteArrays : f = Fresh(b) /\ Shape(f) /\ Alive(f)
    BY FreshIs DEF Alive
  <1>2. Wrote(f, w, write(f, w))
    BY <1>1, WriteIs
  <1> QED BY <1>1, <1>2, WroteMoves

LEMMA EncodeMoves ==
  ASSUME NEW b \in ByteArrays, Shape(b), ~b.crash, NEW s \in Samples
  PROVE  Moves(b, Encode(Fresh(b), s[1], s[2]))
  <1>1. PICK f \in ByteArrays : f = Fresh(b) /\ Shape(f) /\ Alive(f)
    BY FreshIs DEF Alive
  <1>2. PICK w \in Seq(Byte) : Wrote(f, w, Encode(f, s[1], s[2]))
    BY <1>1, EncodeIs
  <1> QED BY <1>1, <1>2, WroteMoves

LEMMA DecodeMoves ==
  ASSUME NEW b \in ByteArrays, Shape(b), ~b.crash, NEW t \in Types
  PROVE  Moves(b, Decode(Fresh(b), t))
  <1>1. PICK f \in ByteArrays : f = Fresh(b) /\ Shape(f)
    BY FreshIs
  <1>2. Got(f, Decode(f, t))
    BY <1>1, DecodeIs
  <1> QED BY <1>1, <1>2, GotMoves

LEMMA ReadMoves ==
  ASSUME NEW b \in ByteArrays, Shape(b), ~b.crash, NEW n
  PROVE  Moves(b, read(Fresh(b), n))
  <1>1. PICK f \in ByteArrays : f = Fresh(b) /\ Shape(f)
    BY FreshIs
  <1>2. Got(f, f)
    BY <1>1, GotNothing
  <1>3. Got(f, read(f, n))
    BY <1>1, <1>2, GotThen
  <1> QED BY <1>1, <1>3, GotMoves

LEMMA SetPostionMoves ==
  ASSUME NEW b \in ByteArrays, Shape(b), ~b.crash, NEW v \in Nat
  PROVE  Moves(b, setPostion(Fresh(b), v))
  <1>1. PICK f \in ByteArrays : f = Fresh(b)
    BY FreshIs
  <1>2. /\ Shape(f) /\ Data(f) = Data(b) /\ f.mem = b.mem /\ f.size = b.size /\ ~f.crash
        /\ f.position = b.position /\ f.capacity = b.capacity /\ f.io = << >>
    BY <1>1, FreshIs
  <1>3. PICK s \in Nat, c \in Nat, p \in Nat : s = b.size /\ c = b.capacity /\ p = b.position /\ p <= s /\ s <= c
    BY DEF ByteArrays, Shape
  <1>4. PICK r : r = setPostion(f, v)
    OBVIOUS
  <1>5. CASE v > c
    <2>1. r = [f EXCEPT !.threw = TRUE]
      BY <1>2, <1>3, <1>4, <1>5 DEF setPostion, Throw
    <2>2. /\ r \in ByteArrays /\ r.mem = f.mem /\ r.size = f.size /\ r.position = f.position
          /\ r.io = f.io /\ r.crash = f.crash /\ r.cur = f.cur /\ r.capacity = f.capacity
      BY <2>1 DEF ByteArrays
    <2>3. Shape(r)
      BY <1>2, <2>2 DEF Shape
    <2>4. Data(r) = Data(b)
      BY <1>2, <2>2 DEF Data, Cell
    <2> QED BY <1>1, <1>2, <1>3, <1>4, <2>2, <2>3, <2>4 DEF Moves
  <1>6. CASE v <= c
    <2>1. /\ r \in ByteArrays /\ Shape(r) /\ r.mem = b.mem /\ ~r.crash
          /\ r.position = v /\ r.io = << >>
          /\ r.size = IF v > b.size THEN v ELSE b.size
      BY <1>1, <1>2, <1>3, <1>4, <1>6, SetPostionIs DEF Moved
    <2>2. PICK t \in Nat : t = r.size /\ t >= s /\ v <= t /\ (t > s => v = t)
      BY <1>3, <2>1
    <2>3. ASSUME NEW i \in 1..s PROVE Data(r)[i] = Data(b)[i]
      <3>1. i \in 1..t
        BY <2>2
      <3> QED BY <1>3, <2>1, <2>2, <3>1 DEF Data, Cell
    <2> QED BY <1>1, <1>3, <1>4, <2>1, <2>2, <2>3 DEF Moves
  <1> QED BY <1>3, <1>5, <1>6

LEMMA ClearMoves ==
  ASSUME NEW b \in ByteArrays, Shape(b), ~b.crash
  PROVE  Moves(b, clear(Fresh(b)))
  <1>1. PICK f \in ByteArrays : f = Fresh(b) /\ ~f.crash /\ f.io = << >> /\ Shape(f)
    BY FreshIs
  <1>2. PICK l \in Nat : l = Len(f.mem) /\ l > 0 /\ f.mem \in Seq(Blocks)
    <2>1. f.mem \in Seq(Blocks)
      BY <1>1 DEF ByteArrays
    <2>2. Len(f.mem) \in Nat
      BY <2>1, LenProperties
    <2> QED BY <1>1, <2>1, <2>2 DEF Shape
  <1>3. PICK m : m = SubSeq(f.mem, 1, 1)
    OBVIOUS
  <1>4. m \in Seq(Blocks) /\ Len(m) = 1
    <2>1. SubSeq(f.mem, 0 + 1, 1) \in Seq(Blocks) /\ Len(SubSeq(f.mem, 0 + 1, 1)) = 1 - 0
      <3>1. 0 \in Nat /\ 1 \in Nat /\ 0 <= 1 /\ 1 <= Len(f.mem) /\ f.mem \in Seq(Blocks)
        BY <1>2
      <3> QED BY ONLY <3>1, PartOf, ZenonT(60)
    <2> QED BY <1>3, <2>1
  <1>5. PICK r : r = clear(f)
    OBVIOUS
  <1>6. r = [f EXCEPT !.position = 0, !.size = 0, !.capacity = BaseSize, !.mem = m, !.cur = 1]
    BY <1>3, <1>5 DEF clear
  <1>7. /\ r \in ByteArrays /\ r.mem = m /\ r.position = 0 /\ r.size = 0 /\ r.cur = 1
        /\ r.capacity = BaseSize /\ r.io = << >> /\ ~r.crash
    BY <1>1, <1>4, <1>6, ByteArrayAssumption DEF ByteArrays
  <1>8. Shape(r)
    <2>1. 0 \div BaseSize = 0
      BY ByteArrayAssumption
    <2>2. Len(r.mem) = 1 /\ 1 * BaseSize = BaseSize /\ 0 # BaseSize /\ 0 <= BaseSize
      BY <1>4, <1>7, ByteArrayAssumption
    <2>3. r.capacity = Len(r.mem) * BaseSize /\ Len(r.mem) > 0
      BY <1>7, <2>2
    <2> QED BY <1>7, <2>1, <2>2, <2>3 DEF Shape
  <1> QED BY <1>1, <1>5, <1>7, <1>8 DEF Moves

LEMMA SetEndianMoves ==
  ASSUME NEW b \in ByteArrays, Shape(b), ~b.crash
  PROVE  Moves(b, setLittleEndian(Fresh(b), ~b.little))
  <1>1. PICK f \in ByteArrays : f = Fresh(b)
    BY FreshIs
  <1>2. /\ Shape(f) /\ f.mem = b.mem /\ f.size = b.size /\ ~f.crash
        /\ f.position = b.position /\ f.io = << >>
    BY <1>1, FreshIs
  <1>3. PICK r : r = setLittleEndian(f, ~b.little)
    OBVIOUS
  <1>4. /\ r \in ByteArrays /\ r.mem = f.mem /\ r.size = f.size /\ r.position = f.position
        /\ r.io = f.io /\ r.crash = f.crash /\ r.cur = f.cur /\ r.capacity = f.capacity
    <2>1. PICK l \in BOOLEAN : l = (~b.little)
      <3>1. (~b.little) \in {TRUE, FALSE}
        OBVIOUS
      <3> QED BY <3>1
    <2>2. r = [f EXCEPT !.little = l]
      BY <1>3, <2>1 DEF setLittleEndian
    <2> QED BY <2>1, <2>2 DEF ByteArrays
  <1>5. Shape(r)
    BY <1>2, <1>4 DEF Shape
  <1>6. Data(r) = Data(b)
    BY <1>2, <1>4 DEF Data, Cell
  <1>7. b.size \in Nat /\ b.position \in Nat
    BY DEF ByteArrays
  <1> QED BY <1>1, <1>2, <1>3, <1>4, <1>5, <1>6, <1>7 DEF Moves, Shape

\* The looks.
LEMMA LookMoves ==
  ASSUME NEW b \in ByteArrays, Shape(b), ~b.crash, NEW P, P = b.position, NEW k \in Nat,
         P + k <= b.size, NEW r, r = [Fresh(b) EXCEPT !.io = SubSeq(Data(b), P + 1, P + k)]
  PROVE  Moves(b, r)
  <1>0. P \in Nat
    BY DEF ByteArrays
  <1>1. PICK f \in ByteArrays : f = Fresh(b)
    BY FreshIs
  <1>2. /\ Shape(f) /\ f.mem = b.mem /\ f.size = b.size /\ ~f.crash /\ f.position = b.position
    BY <1>1, FreshIs
  <1>3. PICK x \in Seq(Byte) : x = SubSeq(Data(b), P + 1, P + k)
    <2>1. SubSeq(Data(b), P + 1, P + k) \in Seq(Byte)
      <3>1. k > 0 => P \div BaseSize + 1 = P \div BaseSize + 1
        OBVIOUS
      <3> QED BY <1>0, <3>1, LookIs
    <2> QED BY <2>1
  <1>4. r = [f EXCEPT !.io = x]
    BY <1>1, <1>3
  <1>5. /\ r \in ByteArrays /\ r.mem = b.mem /\ r.size = b.size /\ r.position = b.position
        /\ r.io = x /\ ~r.crash /\ r.cur = f.cur /\ r.capacity = f.capacity
    BY <1>2, <1>4 DEF ByteArrays
  <1>6. Shape(r)
    BY <1>2, <1>5 DEF Shape
  <1>7. \A j \in Nat : j < b.size => Cell(r, j) = Cell(b, j)
    BY <1>5 DEF Cell
  <1>8. PICK Q \in Nat : Q = P + k /\ P <= Q /\ Q <= b.size
    BY <1>0
  <1>9. r.io = SubSeq(Data(b), P + 1, Q)
    BY <1>3, <1>5, <1>8
  <1> QED BY <1>5, <1>6, <1>7, <1>8, <1>9, PeekMoves

\* The first bytes that are left to read, by way of m_cur.
LEMMA CurLook ==
  ASSUME NEW b \in ByteArrays, Shape(b), ~b.crash, NEW k \in Nat, k <= getReadSize(b)
  PROVE  /\ b.position \in Nat /\ b.position + k <= b.size
         /\ k > 0 => b.cur = b.position \div BaseSize + 1
  <1>1. b.position \in Nat /\ b.size \in Nat /\ b.capacity \in Nat
    BY DEF ByteArrays
  <1>2. b.position + k <= b.size
    BY <1>1 DEF getReadSize
  <1>3. k > 0 => b.position # b.capacity
    BY <1>1, <1>2 DEF Shape
  <1> QED BY <1>1, <1>2, <1>3 DEF Shape

LEMMA LooksMove ==
  ASSUME NEW b \in ByteArrays, Shape(b), ~b.crash
  PROVE  /\ Moves(b, toString(Fresh(b))) /\ Moves(b, writeToFile(Fresh(b)))
         /\ \A n \in Nat : Moves(b, [Fresh(b) EXCEPT !.io = Gather(b, getReadBuffers(b, n))])
  <1>1. PICK f \in ByteArrays : f = Fresh(b)
    BY FreshIs
  <1>2. /\ Shape(f) /\ Data(f) = Data(b) /\ f.mem = b.mem /\ f.size = b.size /\ ~f.crash /\ ~f.threw
        /\ f.position = b.position /\ f.cur = b.cur /\ f.capacity = b.capacity /\ f.io = << >>
    BY <1>1, FreshIs
  <1>3. PICK p \in Nat, s \in Nat, k \in Nat : p = b.position /\ s = b.size /\ p + k = s /\ k = getReadSize(b)
    <2>1. b.position \in Nat /\ b.size \in Nat /\ b.position <= b.size
      BY DEF ByteArrays, Shape
    <2>2. b.size - b.position \in Nat /\ b.position + (b.size - b.position) = b.size
      BY <2>1
    <2> QED BY <2>1, <2>2 DEF getReadSize
  <1>4. /\ BytesAt(b, b.cur, p % BaseSize, k) = SubSeq(Data(b), p + 1, p + k)
        /\ BytesAt(f, f.cur, p % BaseSize, k) = SubSeq(Data(b), p + 1, p + k)
    <2>1. k > 0 => b.cur = p \div BaseSize + 1
      BY <1>3, CurLook
    <2>2. BytesAt(b, b.cur, p % BaseSize, k) = SubSeq(Data(b), p + 1, p + k)
      BY <1>3, <2>1, LookIs, SMTT(30)
    <2> QED BY <1>2, <2>2 DEF BytesAt
  <1>5. ASSUME NEW n \in Nat
        PROVE  \E x \in Nat : x = Min({n, k}) /\ x <= k
    BY <1>3, MinOfTwo
  <1>6. ASSUME NEW r, r = [f EXCEPT !.io = SubSeq(Data(b), p + 1, p + k)]
        PROVE  Moves(b, r)
    <2>1. p = b.position /\ k \in Nat /\ p + k <= b.size
      BY <1>3
    <2>2. r = [Fresh(b) EXCEPT !.io = SubSeq(Data(b), p + 1, p + k)]
      BY <1>1, <1>6
    <2> QED BY <2>1, <2>2, LookMoves
  <1>7. ASSUME NEW r, r = [f EXCEPT !.crash = TRUE]
        PROVE  Moves(b, r)
    <2>1. /\ r \in ByteArrays /\ r.mem = f.mem /\ r.size = f.size /\ r.position = f.position
          /\ r.crash /\ r.capacity = f.capacity
      BY <1>7 DEF ByteArrays
    <2>2. Shape(r)
      BY <1>2, <2>1 DEF Shape
    <2> QED BY <2>1, <2>2 DEF Moves
  <1>8. Moves(b, f)
    BY <1>1, FreshMoves
  <1>9. ASSUME NEW r, r = [f EXCEPT !.threw = TRUE]
        PROVE  Moves(b, r)
    <2>1. r = Throw(f)
      BY <1>9 DEF Throw
    <2>2. Got(f, r)
      BY <1>2, <2>1, GotNothing, GotThrow
    <2> QED BY <1>1, <2>2, GotMoves
  <1>10. getReadSize(f) = k
    BY <1>2, <1>3 DEF getReadSize
  <1>11. Moves(b, toString(f))
    <2>1. CASE k = 0
      BY <1>8, <1>10, <2>1 DEF toString
    <2>2. CASE k # 0
      <3>1. toString(f) = readAt(f, k, p)
        BY <1>2, <1>3, <1>10, <2>2 DEF toString
      <3>3. ~(k > f.size - p)
        BY <1>2, <1>3
      <3>2. \/ readAt(f, k, p) = [f EXCEPT !.threw = TRUE]
            \/ readAt(f, k, p) = [f EXCEPT !.crash = TRUE]
            \/ readAt(f, k, p) = [f EXCEPT !.io = SubSeq(Data(b), p + 1, p + k)]
        BY <1>4 DEF readAt, Throw, Crash
      <3> QED BY <1>6, <1>7, <1>9, <3>1, <3>2
    <2> QED BY <2>1, <2>2
  <1>12. Moves(b, writeToFile(f))
    <2>1. SubSeq(Data(b), p + 1, p + 0) = << >>
      <3>1. Data(b) \in Seq(Byte) /\ p + 1 > p + 0
        BY DataIs
      <3> QED BY <3>1
    <2>2. \/ writeToFile(f) = [f EXCEPT !.crash = TRUE]
          \/ writeToFile(f) = [f EXCEPT !.io = SubSeq(Data(b), p + 1, p + k)]
      <3>1. \/ writeToFile(f) = [f EXCEPT !.crash = TRUE]
            \/ writeToFile(f) = [f EXCEPT !.io = IF k = 0 THEN << >>
                                                 ELSE BytesAt(f, f.cur, p % BaseSize, k)]
        BY <1>2, <1>3, <1>10 DEF writeToFile, Crash
      <3> QED BY <1>4, <2>1, <3>1
    <2> QED BY <1>6, <1>7, <2>2
  <1>13. ASSUME NEW n \in Nat
         PROVE  Moves(b, [f EXCEPT !.io = Gather(b, getReadBuffers(b, n))])
    <2>1. PICK x \in Nat : x = Min({n, k}) /\ x <= k
      BY <1>5
    <2>2. p + x <= s /\ (x > 0 => b.cur = p \div BaseSize + 1)
      BY <1>3, <2>1, CurLook
    <2>3. Gather(b, Iovecs(b.cur, p % BaseSize, x)) = SubSeq(Data(b), p + 1, p + x)
      <3>1. p \in Nat /\ x \in Nat /\ p + x <= b.size
        BY <1>3, <2>1, <2>2
      <3> QED BY <2>2, <3>1, LookIs
    <2>4. getReadBuffers(b, n) = Iovecs(b.cur, p % BaseSize, x)
      BY <1>3, <2>1 DEF getReadBuffers
    <2> QED BY <1>1, <1>3, <2>1, <2>2, <2>3, <2>4, LookMoves
  <1> QED BY <1>1, <1>3, <1>11, <1>12, <1>13

\* A walk from offset o of block c on stays in the blocks.
LEMMA WalkIn ==
  ASSUME NEW b \in ByteArrays, NEW c \in Nat, c > 0, NEW o \in 0..(BaseSize - 1), NEW k \in Nat,
         k > 0 => o + k <= (Len(b.mem) - c + 1) * BaseSize
  PROVE  BytesAt(b, c, o, k) \in Seq(Byte) /\ Gather(b, Iovecs(c, o, k)) \in Seq(Byte)
  <1>1. PICK m \in Seq(Blocks), l \in Nat : m = b.mem /\ l = Len(m)
    BY LenProperties DEF ByteArrays
  <1>2. BaseSize \in Nat /\ BaseSize > 0 /\ o \in Nat
    BY ByteArrayAssumption
  <1>3. ASSUME NEW i \in 1..k
        PROVE  m[c + (o + i - 1) \div BaseSize][(o + i - 1) % BaseSize] \in Byte
    <2>1. PICK j \in Nat, z \in Int : j = o + i - 1 /\ z = l - c + 1
      BY <1>2
    <2>2. j < z * BaseSize
      BY <1>1, <1>2, <2>1
    <2>3. z >= 0
      <3> SUFFICES ASSUME z < 0 PROVE FALSE
        OBVIOUS
      <3>1. PICK d \in Nat : d = -z
        OBVIOUS
      <3>2. z * BaseSize = -(d * BaseSize) /\ d * BaseSize \in Nat
        BY <1>2, <3>1
      <3> QED BY <2>2, <3>2
    <2>4. PICK q \in Nat, r \in 0..(BaseSize - 1) : q = j \div BaseSize /\ r = j % BaseSize
      BY DivMod
    <2>5. q < z
      BY <2>2, <2>3, <2>4, DivLess
    <2>6. c + q \in 1..l
      BY <2>1, <2>5
    <2>7. m[c + q] \in Blocks
      BY <1>1, <2>6, ElementOfSeq
    <2> QED BY <2>1, <2>4, <2>7 DEF Blocks
  <1>4. BytesAt(b, c, o, k) \in Seq(Byte)
    <2>1. BytesAt(b, c, o, k) \in [1..k -> Byte]
      BY <1>1, <1>3 DEF BytesAt
    <2> QED BY <2>1
  <1>5. Gather(b, Iovecs(c, o, k)) = BytesAt(b, c, o, k)
    <2> DEFINE iovs == Iovecs(c, o, k)
    <2>1. Len(iovs) = k
      BY DEF Iovecs
    <2>2. PICK w : w = BytesAt(b, c, o, k) /\ w = [i \in 1..k |-> w[i]]
      BY DEF BytesAt
    <2>3. ASSUME NEW i \in 1..k
          PROVE  b.mem[iovs[i][1]][iovs[i][2]] = w[i]
      BY <2>2 DEF Iovecs, BytesAt
    <2> HIDE DEF iovs
    <2>4. Gather(b, iovs) = [i \in 1..k |-> b.mem[iovs[i][1]][iovs[i][2]]]
      BY <2>1 DEF Gather
    <2>5. Gather(b, iovs) = [i \in 1..k |-> w[i]]
      BY <2>3, <2>4
    <2> QED BY <2>2, <2>5 DEF iovs
  <1> QED BY <1>4, <1>5

\* From the array b, r is reached by a look at a position, with the reply y.
Looks(b, r, y) ==
    /\ r \in ByteArrays /\ Shape(r) /\ ~PlainReply(y)
    /\ ~r.crash => /\ Data(r) = Data(b) /\ r.position = b.position
                   /\ y.type = "look" =>
                        /\ y.at \in 0..b.size
                        /\ \E q \in y.at..b.size : r.io = SubSeq(Data(b), y.at + 1, q)

LEMMA LooksIs ==
  ASSUME ba \in ByteArrays, Shape(ba), ~ba.crash, NEW r, ba' = r, Looks(ba, r, reply')
  PROVE  Flat!Next
  <1>1. PICK b, y : b = ba /\ y = reply'
    OBVIOUS
  <1>2. /\ b \in ByteArrays /\ Shape(b) /\ ~b.crash /\ r \in ByteArrays /\ Looks(b, r, y)
    BY <1>1 DEF Looks
  <1>3. /\ Contents = Data(b) /\ Contents' = Data(r)
        /\ Seen' = (IF y.type = "astray" THEN << >> ELSE r.io)
        /\ Asked' = IF y.type = "look" THEN y.at ELSE r.position
    BY <1>1 DEF Contents, Data, Cell, Seen, Asked
  <1>4. /\ Data(b) \in Seq(Byte) /\ Len(Data(b)) = b.size
        /\ b.position \in Nat /\ b.size \in Nat /\ b.position <= b.size /\ r.crash \in BOOLEAN
    BY <1>2, DataIs DEF ByteArrays, Shape
  <1>5. CASE r.crash
    BY <1>1, <1>2, <1>5 DEF Flat!Next, Flat!Crash
  <1>6. CASE ~r.crash
    <2>1. Data(r) = Data(b) /\ r.position = b.position /\ ba'.crash = ba.crash
      BY <1>1, <1>2, <1>4, <1>6 DEF Looks, ByteArrays
    <2>2. Asked' \in 0..b.size /\ \E q \in Asked'..b.size : Seen' = SubSeq(Data(b), Asked' + 1, q)
      <3>1. CASE y.type = "look"
        BY <1>2, <1>3, <1>6, <3>1 DEF Looks
      <3>2. CASE y.type # "look"
        <4>1. y.type = "astray" /\ Asked' = b.position /\ Seen' = << >>
          BY <1>2, <1>3, <2>1, <3>2 DEF Looks, PlainReply
        <4>2. SubSeq(Data(b), b.position + 1, b.position) = << >>
          BY <1>4
        <4>3. b.position \in 0..b.size /\ b.position \in b.position..b.size
          BY <1>4
        <4> QED BY <4>1, <4>2, <4>3
      <3> QED BY <3>1, <3>2
    <2>3. Flat!Peek
      BY <1>1, <1>3, <1>4, <2>1, <2>2 DEF Flat!Peek
    <2> QED BY <1>1, <1>2, <2>3 DEF Flat!Next
  <1> QED BY <1>5, <1>6

\* What a look at a position does with the array, and its reply.
LEMMA LookLooks ==
  ASSUME NEW b \in ByteArrays, Shape(b), ~b.crash, NEW p \in Nat, NEW k \in Nat, NEW x \in Seq(Byte),
         NEW r, r = [Fresh(b) EXCEPT !.io = x] \/ r = Throw(Fresh(b)) \/ r = Crash(Fresh(b)),
         NEW y, \/ y = Astray
                \/ /\ y = LookedAt(p) /\ p <= b.size
                   /\ x = SubSeq(Data(b), p + 1, p + k) /\ (r.io = x => p + k <= b.size)
  PROVE  Looks(b, r, y)
  <1>1. PICK f \in ByteArrays : f = Fresh(b)
    BY FreshIs
  <1>2. /\ Shape(f) /\ Data(f) = Data(b) /\ f.mem = b.mem /\ f.size = b.size /\ ~f.crash
        /\ f.position = b.position /\ f.io = << >> /\ f.cur = b.cur
    BY <1>1, FreshIs
  <1>3. /\ r \in ByteArrays /\ r.mem = f.mem /\ r.size = f.size /\ r.position = f.position
        /\ r.cur = f.cur /\ r.capacity = f.capacity /\ (~r.crash => r.io = x \/ r.io = << >>)
    BY <1>1, <1>2 DEF ByteArrays, Throw, Crash
  <1>4. Shape(r)
    BY <1>2, <1>3 DEF Shape
  <1>5. Data(r) = Data(b)
    BY <1>2, <1>3 DEF Data, Cell
  <1>6. ~PlainReply(y) /\ (y.type = "look" => y = LookedAt(p) /\ y.at = p)
    BY DEF PlainReply, Astray, LookedAt, NoReply
  <1>7. ASSUME ~r.crash, y.type = "look"
        PROVE  p \in 0..b.size /\ \E q \in p..b.size : r.io = SubSeq(Data(b), p + 1, q)
    <2>1. /\ p <= b.size /\ b.size \in Nat /\ x = SubSeq(Data(b), p + 1, p + k)
          /\ r.io = x => p + k <= b.size
      BY <1>6, <1>7 DEF Astray, NoReply, ByteArrays
    <2>2. CASE r.io = x
      <3>1. PICK q \in p..b.size : q = p + k
        BY <2>1, <2>2, SMTT(20)
      <3>2. r.io = SubSeq(Data(b), p + 1, q)
        BY <2>1, <2>2, <3>1
      <3>3. p \in 0..b.size
        BY <2>1
      <3> QED BY <3>1, <3>2, <3>3, Zenon
    <2>3. CASE r.io = << >>
      <3>1. p \in p..b.size /\ p \in 0..b.size
        BY <2>1
      <3>2. SubSeq(Data(b), p + 1, p) = << >>
        <4>1. Data(b) \in Seq(Byte)
          BY DataIs
        <4> QED BY <4>1
      <3>3. r.io = SubSeq(Data(b), p + 1, p)
        BY <2>3, <3>2
      <3> QED BY <3>1, <3>3, Zenon
    <2> QED BY <1>3, <1>7, <2>2, <2>3
  <1> QED BY <1>2, <1>3, <1>4, <1>5, <1>6, <1>7 DEF Looks

\* A look that throws or crashes shows nothing.
LEMMA NoLook ==
  ASSUME NEW b \in ByteArrays, Shape(b), ~b.crash, NEW p \in Nat,
         NEW r, r = Throw(Fresh(b)) \/ r = Crash(Fresh(b)),
         NEW y, y = Astray \/ (y = LookedAt(p) /\ p <= b.size)
  PROVE  Looks(b, r, y)
  <1>1. PICK x \in Seq(Byte) : x = << >>
    BY EmptySeq
  <1>2. b.size \in Nat /\ p + 0 = p /\ 0 \in Nat
    BY DEF ByteArrays
  <1>3. x = SubSeq(Data(b), p + 1, p + 0)
    <2>1. Data(b) \in Seq(Byte)
      BY DataIs
    <2> QED BY <1>1, <2>1
  <1>4. y = LookedAt(p) => p <= b.size /\ p + 0 <= b.size
    BY <1>2 DEF LookedAt, Astray, NoReply
  <1> QED BY <1>2, <1>3, <1>4, LookLooks

\* read with a position: the bytes from there on, if they are in m_cur's block.
LEMMA ReadAtLooks ==
  ASSUME NEW b \in ByteArrays, Shape(b), ~b.crash, NEW n \in Nat, NEW p \in Nat,
         NEW y, y = IF p > b.size \/ p \div BaseSize + 1 # b.cur THEN Astray ELSE LookedAt(p)
  PROVE  Looks(b, readAt(Fresh(b), n, p), y)
  <1>1. PICK f \in ByteArrays : /\ f = Fresh(b) /\ f.mem = b.mem /\ f.size = b.size /\ f.cur = b.cur
    BY FreshIs
  <1>2. PICK r : r = readAt(f, n, p)
    OBVIOUS
  <1>3. y = Astray \/ (y = LookedAt(p) /\ p <= b.size /\ b.cur = p \div BaseSize + 1)
    BY DEF ByteArrays
  <1>4. CASE r = Throw(f) \/ r = Crash(f)
    BY <1>1, <1>2, <1>3, <1>4, NoLook
  <1>5. CASE ~(r = Throw(f) \/ r = Crash(f))
    <2>1. PICK c \in Nat, o \in 0..(BaseSize - 1) : c = f.cur /\ o = p % BaseSize
      BY DivMod DEF ByteArrays
    <2>2. /\ ~(p <= b.size /\ n > b.size - p) /\ c # NULL
          /\ o + n <= (Len(f.mem) - c + 1) * BaseSize
          /\ r = [f EXCEPT !.io = BytesAt(f, c, o, n)]
      BY <1>1, <1>2, <1>5, <2>1 DEF readAt
    <2>3. PICK x \in Seq(Byte) : x = BytesAt(f, c, o, n)
      <3>1. c > 0
        BY <2>2 DEF NULL
      <3> QED BY <2>2, <3>1, WalkIn
    <2>4. r = [f EXCEPT !.io = x]
      BY <2>2, <2>3
    <2>5. CASE y = Astray
      BY <1>1, <1>2, <2>4, <2>5, LookLooks
    <2>6. CASE y = LookedAt(p) /\ p <= b.size /\ b.cur = p \div BaseSize + 1
      <3>1. p + n <= b.size
        <4>1. PICK s \in Nat : s = b.size
          BY DEF ByteArrays
        <4>2. p <= s /\ ~(n > s - p)
          BY <2>2, <2>6, <4>1
        <4> QED BY <4>1, <4>2
      <3>2. BytesAt(b, c, o, n) = SubSeq(Data(b), p + 1, p + n)
        BY <1>1, <2>1, <2>6, <3>1, LookIs
      <3>3. x = SubSeq(Data(b), p + 1, p + n)
        BY <1>1, <2>3, <3>2 DEF BytesAt
      <3>4. y = LookedAt(p) /\ p <= b.size
        BY <2>6
      <3>5. readAt(Fresh(b), n, p) = [Fresh(b) EXCEPT !.io = x]
        BY <1>1, <1>2, <2>4
      <3> QED BY <3>1, <3>3, <3>4, <3>5, LookLooks
    <2> QED BY <1>3, <2>5, <2>6
  <1> QED BY <1>4, <1>5

\* The iovecs from a position on hold the bytes from there on, if they end before m_size.
LEMMA BuffersAtLooks ==
  ASSUME NEW b \in ByteArrays, Shape(b), ~b.crash, NEW n \in Nat, NEW p \in Nat,
         NEW y, y = IF p + Min({n, getReadSize(b)}) > b.size THEN Astray ELSE LookedAt(p)
  PROVE  Looks(b, getReadBuffersAt(Fresh(b), n, p), y)
  <1>1. PICK f \in ByteArrays : /\ f = Fresh(b) /\ f.mem = b.mem /\ f.size = b.size
                                /\ getReadSize(f) = getReadSize(b)
    BY FreshIs DEF getReadSize
  <1>2. PICK r : r = getReadBuffersAt(f, n, p)
    OBVIOUS
  <1>3. PICK k \in Nat : k = Min({n, getReadSize(b)})
    <2>1. getReadSize(b) \in Nat
      BY DEF getReadSize, ByteArrays, Shape
    <2> QED BY <2>1, MinOfTwo
  <1>4. y = Astray \/ (y = LookedAt(p) /\ p <= b.size /\ p + k <= b.size)
    BY <1>3, SMTT(20) DEF ByteArrays
  <1>5. PICK c \in Nat, o \in 0..(BaseSize - 1) : c = p \div BaseSize + 1 /\ o = p % BaseSize /\ c > 0
    <2>1. PICK q \in Nat, o \in 0..(BaseSize - 1) : q = p \div BaseSize /\ o = p % BaseSize
      BY DivMod
    <2> QED BY <2>1
  <1>6. r = IF k > 0 /\ o + k > (Len(f.mem) - c + 1) * BaseSize THEN Crash(f)
            ELSE [f EXCEPT !.io = Gather(f, Iovecs(c, o, k))]
    BY <1>1, <1>2, <1>3, <1>5 DEF getReadBuffersAt
  <1>7. CASE r = Crash(f)
    BY <1>1, <1>2, <1>4, <1>7, NoLook
  <1>8. CASE r # Crash(f)
    <2>1. /\ k > 0 => ~(o + k > (Len(f.mem) - c + 1) * BaseSize)
          /\ r = [f EXCEPT !.io = Gather(f, Iovecs(c, o, k))]
      BY <1>6, <1>8
    <2>2. k > 0 => o + k <= (Len(f.mem) - c + 1) * BaseSize
      <3>1. PICK l \in Int : l = (Len(f.mem) - c + 1) * BaseSize
        <4>1. f.mem \in Seq(Blocks)
          BY DEF ByteArrays
        <4>2. Len(f.mem) \in Nat /\ BaseSize \in Nat
          BY <4>1, LenProperties, ByteArrayAssumption
        <4> QED BY <4>2
      <3>2. o \in Nat
        BY ByteArrayAssumption
      <3> QED BY <2>1, <3>1, <3>2
    <2>3. PICK x \in Seq(Byte) : x = Gather(f, Iovecs(c, o, k))
      BY <1>5, <2>2, WalkIn
    <2>4. r = [f EXCEPT !.io = x]
      BY <2>1, <2>3
    <2>5. CASE y = Astray
      BY <1>1, <1>2, <2>4, <2>5, LookLooks
    <2>6. CASE y = LookedAt(p) /\ p <= b.size /\ p + k <= b.size
      <3>1. Gather(b, Iovecs(c, o, k)) = SubSeq(Data(b), p + 1, p + k)
        BY <1>5, <2>6, LookIs
      <3>2. x = SubSeq(Data(b), p + 1, p + k)
        BY <1>1, <2>3, <3>1 DEF Gather
      <3> QED BY <1>1, <1>2, <2>4, <2>6, <3>2, LookLooks
    <2> QED BY <1>4, <2>5, <2>6
  <1> QED BY <1>7, <1>8

(***************************************************************************)
(* The invariant                                                           *)
(***************************************************************************)
Calls == [op : {"none"} \cup Ops, length : Nat, offset : Int, left : Int, from : Nat,
          taken : Seq(Byte), errors : Int]

\* A call has moved what it has still not to move; each failure counts one back, and no
\* other result goes back.
CallOk(c) ==
    /\ c \in Calls
    /\ c.offset + c.left = c.length /\ c.left >= 0 /\ c.length \in 0..MaxFix
    /\ 0 <= c.errors /\ c.errors <= MaxErrors /\ c.offset >= -c.errors

\* The looks are calls of their own: while a file is read or a fixed-size call is in
\* progress, the last reply is not one of theirs.
StreamInv ==
    /\ call.left > 0 \/ file # << >> => PlainReply(reply)
    /\ ba \in ByteArrays /\ Shape(ba) /\ file \in Seq(Byte)
    /\ wire \in Seq(Byte) /\ peer \in Nat /\ sent \in Seq(Byte) /\ buffer \in [Cells -> Byte]
    /\ CallOk(call) /\ (ba.crash => call.left = 0)

\* The bytes of a program's own buffers and files are bytes.
LEMMA PayloadIs == ASSUME NEW n \in Nat PROVE Payload(n) \in Seq(Byte)
  <1>1. \A i \in 1..n : i % Radix \in Byte
    BY DEF Byte
  <1>2. Payload(n) \in [1..n -> Byte]
    BY <1>1 DEF Payload
  <1> QED BY <1>2

\* What is left of a sequence when some of it has been taken.
LEMMA RestOf ==
  ASSUME NEW S, NEW w \in Seq(S), NEW n \in Nat, n <= Len(w)
  PROVE  /\ SubSeq(w, 1, n) \in Seq(S) /\ Len(SubSeq(w, 1, n)) = n /\ SubSeq(w, n + 1, Len(w)) \in Seq(S)
         /\ \A x \in 1..n : SubSeq(w, 1, n)[x] = w[x]
  <1>1. PICK l \in Nat : l = Len(w)
    BY LenProperties
  <1>2. /\ SubSeq(w, 0 + 1, n) \in Seq(S) /\ Len(SubSeq(w, 0 + 1, n)) = n - 0
        /\ \A x \in 1..(n - 0) : SubSeq(w, 0 + 1, n)[x] = w[0 + x]
    <2>1. 0 \in Nat /\ 0 <= n /\ n \in Nat /\ n <= Len(w) /\ w \in Seq(S)
      OBVIOUS
    <2> QED BY ONLY <2>1, PartOf, ZenonT(60)
  <1>3. SubSeq(w, n + 1, l) \in Seq(S)
    <2>1. l \in Nat /\ n <= l /\ n \in Nat /\ l <= Len(w) /\ w \in Seq(S)
      BY <1>1
    <2> QED BY ONLY <2>1, PartOf, ZenonT(60)
  <1> QED BY <1>1, <1>2, <1>3

\* A step of the owner is a step of FlatBuffer, or a look at a position.
Steps(b, r, y) == (PlainReply(y) /\ Moves(b, r)) \/ Looks(b, r, y)

LEMMA PlainReplies ==
  /\ PlainReply(NoReply)
  /\ \A t \in Types : \A w, g : PlainReply([type |-> t, want |-> w, got |-> g, at |-> 0])
  BY DEF PlainReply, NoReply, Types, FixedWidth, FloatWidth, Strings

LEMMA BAMoves ==
  ASSUME StreamInv, BANext
  PROVE  /\ Steps(ba, ba', reply') /\ file' \in Seq(Byte) /\ ~ba.crash
         /\ file' # << >> => PlainReply(reply')
  <1>1. PICK b \in ByteArrays : b = ba /\ Shape(b)
    BY DEF StreamInv
  <1> DEFINE Simple == \/ \E s \in Samples : WriteValue(s[1], s[2])
                       \/ \E s \in Samples : ReadValue(s[1])
                       \/ \E n \in RawSizes : WriteRaw(n) \/ ReadRaw(n)
                       \/ \E v \in Positions : SetPostion(v)
                       \/ Clear \/ SetEndian \/ Look
  <1>2. ASSUME Simple PROVE Moves(ba, ba') /\ ~ba.crash
    <2>1. ASSUME NEW s \in Samples, WriteValue(s[1], s[2]) PROVE Moves(ba, ba') /\ ~ba.crash
      <3>1. ba' = Encode(Fresh(b), s[1], s[2]) /\ ~b.crash
        BY <1>1, <2>1 DEF WriteValue, Call
      <3> QED BY <1>1, <3>1, EncodeMoves
    <2>2. ASSUME NEW s \in Samples, ReadValue(s[1]) PROVE Moves(ba, ba') /\ ~ba.crash
      <3>1. ba' = Decode(Fresh(b), s[1]) /\ ~b.crash
        BY <1>1, <2>2 DEF ReadValue, Call
      <3>2. s[1] \in Types
        BY SamplesAssumption
      <3> QED BY <1>1, <3>1, <3>2, DecodeMoves
    <2>3. ASSUME NEW n \in RawSizes, WriteRaw(n) PROVE Moves(ba, ba') /\ ~ba.crash
      <3>1. ba' = write(Fresh(b), Payload(n)) /\ ~b.crash
        BY <1>1, <2>3 DEF WriteRaw, Call, writeString
      <3>2. PICK w \in Seq(Byte) : w = Payload(n)
        BY PayloadIs, ByteArrayAssumption
      <3> QED BY <1>1, <3>1, <3>2, WriteMoves
    <2>4. ASSUME NEW n \in RawSizes, ReadRaw(n) PROVE Moves(ba, ba') /\ ~ba.crash
      <3>1. ba' = read(Fresh(b), n) /\ ~b.crash
        BY <1>1, <2>4 DEF ReadRaw, Call
      <3> QED BY <1>1, <3>1, ReadMoves
    <2>5. ASSUME NEW v \in Positions, SetPostion(v) PROVE Moves(ba, ba') /\ ~ba.crash
      <3>1. ba' = setPostion(Fresh(b), v) /\ ~b.crash
        BY <1>1, <2>5 DEF SetPostion, Call
      <3>2. v \in Nat
        BY ByteArrayAssumption
      <3> QED BY <1>1, <3>1, <3>2, SetPostionMoves
    <2>6. ASSUME Clear PROVE Moves(ba, ba') /\ ~ba.crash
      <3>1. ba' = clear(Fresh(b)) /\ ~b.crash
        BY <1>1, <2>6 DEF Clear, Call
      <3> QED BY <1>1, <3>1, ClearMoves
    <2>7. ASSUME SetEndian PROVE Moves(ba, ba') /\ ~ba.crash
      <3>1. ba' = setLittleEndian(Fresh(b), ~b.little) /\ ~b.crash
        BY <1>1, <2>7 DEF SetEndian, Call
      <3> QED BY <1>1, <3>1, SetEndianMoves
    <2>8. ASSUME Look PROVE Moves(ba, ba') /\ ~ba.crash
      <3>1. /\ ~b.crash
            /\ \/ ba' = toString(Fresh(b))
               \/ ba' = writeToFile(Fresh(b))
               \/ \E n \in RawSizes : ba' = [Fresh(b) EXCEPT !.io = Gather(b, getReadBuffers(b, n))]
        BY <1>1, <2>8 DEF Look, Call
      <3>2. RawSizes \subseteq Nat
        BY ByteArrayAssumption
      <3> QED BY <1>1, <3>1, <3>2, LooksMove
    <2> QED BY <1>2, <2>1, <2>2, <2>3, <2>4, <2>5, <2>6, <2>7, <2>8
  <1>3. CASE \E n \in RawSizes : OpenFile(n)
    <2>1. PICK n \in RawSizes : ba' = Fresh(b) /\ ~b.crash /\ file' = Payload(n)
      BY <1>1, <1>3 DEF OpenFile, Call
    <2>2. n \in Nat
      BY <2>1, ByteArrayAssumption
    <2>3. reply' = NoReply
      BY <1>3 DEF OpenFile
    <2>4. Steps(ba, ba', reply')
      BY <1>1, <2>1, <2>3, FreshMoves, PlainReplies DEF Steps
    <2> QED BY <1>1, <2>1, <2>2, <2>3, <2>4, PayloadIs, PlainReplies
  <1>4. CASE ReadFile
    <2>1. PICK w \in Seq(Byte), l \in Nat : w = file /\ l = Len(w)
      BY LenProperties DEF StreamInv
    <2>2. PICK k \in Nat : k = Min({BaseSize, l}) /\ k <= l
      <3>1. BaseSize \in Nat
        BY ByteArrayAssumption
      <3> QED BY <2>1, <3>1, MinOfTwo
    <2>3. SubSeq(w, 1, k) \in Seq(Byte) /\ SubSeq(w, k + 1, Len(w)) \in Seq(Byte)
      BY <2>1, <2>2, RestOf
    <2>4. ba' = write(Fresh(b), SubSeq(w, 1, k)) /\ ~b.crash /\ file' = SubSeq(w, k + 1, Len(w))
      BY <1>1, <1>4, <2>1, <2>2 DEF ReadFile, readFromFile
    <2>5. PlainReply(reply')
      BY <1>4 DEF ReadFile, StreamInv
    <2>6. Moves(ba, ba')
      BY <1>1, <2>3, <2>4, WriteMoves
    <2> QED BY <1>1, <2>3, <2>4, <2>5, <2>6 DEF Steps
  <1>5. ASSUME Simple PROVE PlainReply(reply')
    <2>1. ASSUME NEW s \in Samples, WriteValue(s[1], s[2]) PROVE reply' = NoReply
      BY <2>1 DEF WriteValue
    <2>2. ASSUME NEW s \in Samples, ReadValue(s[1]) PROVE PlainReply(reply')
      <3>1. s[1] \in Types
        BY SamplesAssumption
      <3> QED BY <2>2, <3>1, PlainReplies DEF ReadValue
    <2>3. ASSUME \/ \E n \in RawSizes : WriteRaw(n) \/ ReadRaw(n)
                 \/ \E v \in Positions : SetPostion(v)
                 \/ Clear \/ SetEndian \/ Look
          PROVE  reply' = NoReply
      BY <2>3 DEF WriteRaw, ReadRaw, SetPostion, Clear, SetEndian, Look
    <2> QED BY <1>5, <2>1, <2>2, <2>3, PlainReplies
  <1>6. CASE Simple /\ UNCHANGED file
    <2>1. file' \in Seq(Byte)
      BY <1>6 DEF StreamInv
    <2> HIDE DEF Simple
    <2> QED BY <1>2, <1>5, <1>6, <2>1 DEF Steps
  <1>7. ASSUME NEW n \in RawSizes, NEW p \in Positions, ReadAt(n, p) \/ GetReadBuffersAt(n, p)
        PROVE  Looks(ba, ba', reply') /\ file = << >> /\ ~ba.crash
    <2>1. n \in Nat /\ p \in Nat
      BY ByteArrayAssumption
    <2>2. CASE ReadAt(n, p)
      <3>1. /\ ba' = readAt(Fresh(b), n, p) /\ ~b.crash /\ file = << >>
            /\ reply' = IF p > b.size \/ p \div BaseSize + 1 # b.cur THEN Astray ELSE LookedAt(p)
        BY <1>1, <2>2 DEF ReadAt, LookAt, Call
      <3> QED BY <1>1, <2>1, <3>1, ReadAtLooks
    <2>3. CASE GetReadBuffersAt(n, p)
      <3>1. /\ ba' = getReadBuffersAt(Fresh(b), n, p) /\ ~b.crash /\ file = << >>
            /\ reply' = IF p + Min({n, getReadSize(b)}) > b.size THEN Astray ELSE LookedAt(p)
        BY <1>1, <2>3 DEF GetReadBuffersAt, LookAt, Call
      <3> QED BY <1>1, <2>1, <3>1, BuffersAtLooks
    <2> QED BY <1>7, <2>2, <2>3
  <1>8. CASE /\ \E n \in RawSizes, p \in Positions : ReadAt(n, p) \/ GetReadBuffersAt(n, p)
             /\ UNCHANGED file
    BY <1>7, <1>8, EmptySeq DEF Steps
  <1> QED BY <1>3, <1>4, <1>6, <1>8 DEF BANext

LEMMA NoCallIs == CallOk(NoCall) /\ NoCall.left = 0
  <1>1. PICK t \in Seq(Byte) : t = << >>
    <2>1. << >> \in Seq(Byte)
      OBVIOUS
    <2> QED BY <2>1
  <1>2. PICK c : c = NoCall
    OBVIOUS
  <1>3. c = [op |-> "none", length |-> 0, offset |-> 0, left |-> 0, from |-> 0,
             taken |-> t, errors |-> 0]
    BY <1>1, <1>2 DEF NoCall
  <1>4. /\ c \in Calls /\ c.length = 0 /\ c.offset = 0 /\ c.left = 0 /\ c.errors = 0
    BY <1>1, <1>3 DEF Calls
  <1> QED BY <1>2, <1>4, StreamAssumption DEF CallOk

\* A result of the socket in the middle of a call, and the bytes that passed with it.
Result(rt) == rt \in Int /\ -1 <= rt /\ rt <= call.left /\ (rt = -1 => call.errors < MaxErrors)
Passed(rt, got) ==
    Result(rt) /\ got \in Seq(Byte) /\ (rt > 0 => Len(got) = rt) /\ After(rt, got)
Received(rt, got) ==
    Passed(rt, got) /\ (rt > 0 => ba'.io = got /\ ba'.position = ba.position + rt)
Sent(rt, out) ==
    /\ Passed(rt, out) /\ sent' = sent \o out
    /\ rt > 0 => Moves(ba, ba') /\ ba'.io = out /\ ba'.position = ba.position + rt

LEMMA Counts ==
  ASSUME NEW o \in Int, NEW l \in Int, NEW n \in Int, NEW e \in Int, NEW m \in Int, NEW rt,
         o + l = n /\ l >= 0 /\ 0 <= e /\ e <= m /\ o >= -e,
         rt \in Int /\ -1 <= rt /\ rt <= l /\ (rt = -1 => e < m),
         NEW f, NEW p, NEW k, f = (IF rt < 0 THEN e + 1 ELSE e) /\ p = o + rt /\ k = l - rt
  PROVE  p + k = n /\ k >= 0 /\ 0 <= f /\ f <= m /\ p >= -f
  OBVIOUS

\* Its bookkeeping.
LEMMA AfterTypes ==
  ASSUME CallOk(call), NEW rt, Result(rt), NEW got \in Seq(Byte), After(rt, got)
  PROVE  CallOk(call')
  <1>1. CASE rt = 0
    <2>1. call' = NoCall
      BY <1>1 DEF After
    <2> QED BY <2>1, NoCallIs
  <1>2. CASE rt # 0
    <2>1. PICK c \in Calls : c = call /\ CallOk(c)
      BY DEF CallOk
    <2>2. PICK t \in Seq(Byte) : t = c.taken \o got
      BY <2>1, ConcatProperties DEF Calls
    <2>3. PICK e \in Int, o \in Int, l \in Int :
            /\ e = (IF rt < 0 THEN c.errors + 1 ELSE c.errors)
            /\ o = c.offset + rt /\ l = c.left - rt
      BY <2>1 DEF Calls, Result
    <2>4. PICK r : r = [c EXCEPT !.offset = o, !.left = l, !.taken = t, !.errors = e]
      OBVIOUS
    <2>5. call' = r
      BY <1>2, <2>1, <2>2, <2>3, <2>4 DEF After, Calls
    <2>6. /\ r \in Calls /\ r.offset = o /\ r.left = l /\ r.errors = e /\ r.length = c.length
      BY <2>1, <2>2, <2>3, <2>4 DEF Calls
    <2>7. /\ o + l = c.length /\ l >= 0 /\ 0 <= e /\ e <= MaxErrors /\ o >= -e
          /\ c.length \in 0..MaxFix
      <3>1. PICK co \in Int, cl \in Int, cn \in Int, ce \in Int :
              co = c.offset /\ cl = c.left /\ cn = c.length /\ ce = c.errors
        BY <2>1 DEF Calls
      <3>2. /\ co + cl = cn /\ cl >= 0 /\ cn \in 0..MaxFix /\ 0 <= ce /\ ce <= MaxErrors /\ co >= -ce
        BY <2>1, <3>1 DEF CallOk
      <3>3. /\ rt \in Int /\ -1 <= rt /\ rt <= cl /\ (rt = -1 => ce < MaxErrors)
        BY <2>1, <3>1 DEF Result
      <3>4. e = (IF rt < 0 THEN ce + 1 ELSE ce) /\ o = co + rt /\ l = cl - rt
        BY <2>3, <3>1
      <3>5. /\ o + l = cn /\ l >= 0 /\ 0 <= e /\ e <= MaxErrors /\ o >= -e
        <4>1. MaxErrors \in Int
          BY StreamAssumption
        <4>2. co + cl = cn /\ cl >= 0 /\ 0 <= ce /\ ce <= MaxErrors /\ co >= -ce
          BY <3>2
        <4> QED BY ONLY <3>3, <3>4, <4>1, <4>2, co \in Int, cl \in Int, cn \in Int, ce \in Int, Counts
      <3> QED BY <3>1, <3>2, <3>5
    <2> QED BY <2>5, <2>6, <2>7 DEF CallOk
  <1> QED BY <1>1, <1>2

LEMMA BeginMoves ==
  ASSUME StreamInv, NEW op \in Ops, NEW n \in FixSizes, Begin(op, n)
  PROVE  /\ Moves(ba, ba') /\ ~ba.crash /\ CallOk(call') /\ (ba'.crash => call'.left = 0)
         /\ buffer' \in [Cells -> Byte] /\ sent' \in Seq(Byte)
  <1>1. PICK b \in ByteArrays : b = ba /\ Shape(b) /\ ~b.crash
    BY DEF StreamInv, Begin
  <1>2. ba' = Fresh(b)
    BY <1>1 DEF Begin
  <1>3. Moves(b, Fresh(b)) /\ ~Fresh(b).crash
    BY <1>1, FreshMoves, FreshIs
  <1>4. CallOk(call')
    <2>1. n \in Nat /\ b.position \in Nat /\ n \in 0..MaxFix
      BY <1>1, StreamAssumption DEF ByteArrays
    <2>2. PICK r : r = [NoCall EXCEPT !.op = op, !.length = n, !.left = n, !.from = b.position]
      OBVIOUS
    <2>3. n \in Int /\ op \in {"none"} \cup Ops
      BY <2>1
    <2>4. /\ r \in Calls /\ r.length = n /\ r.left = n /\ r.offset = 0 /\ r.errors = 0
      <3>1. NoCall \in Calls /\ NoCall.offset = 0 /\ NoCall.errors = 0
        BY NoCallIs DEF CallOk, NoCall
      <3> QED BY <2>1, <2>2, <2>3, <3>1 DEF Calls
    <2>5. CallOk(r)
      BY <2>1, <2>4, StreamAssumption DEF CallOk
    <2> QED BY <1>1, <2>2, <2>5 DEF Begin
  <1>5. buffer' \in [Cells -> Byte]
    <2>1. Untouched \in Byte
      <3>1. Radix \in Int
        BY ByteArrayAssumption DEF Radix
      <3> QED BY <3>1 DEF Untouched, Byte
    <2>2. \A i \in Cells : i % Radix \in Byte
      <3>1. \A i \in Cells : i \in Int
        BY DEF Cells
      <3> QED BY <3>1 DEF Byte
    <2> QED BY <2>1, <2>2 DEF Begin
  <1>6. sent' \in Seq(Byte)
    <2>1. << >> \in Seq(Byte)
      OBVIOUS
    <2> QED BY <2>1 DEF Begin
  <1> QED BY <1>1, <1>2, <1>3, <1>4, <1>5, <1>6

\* A step that carries the position over the bytes of w.
Carries(b, r, w) == Moves(b, r) /\ ~r.crash /\ r.io = w /\ r.position = b.position + Len(w)

\* What the kernel received is put into the array.
LEMMA ReceivedMoves ==
  ASSUME NEW b \in ByteArrays, Shape(b), ~b.crash, NEW left \in Nat, left > 0, BuffersFit(b, left),
         NEW got \in Seq(Byte), Len(got) > 0, Len(got) <= left,
         NEW a, a = addCapacity(b, left), NEW iovs, iovs = getWriteBuffers(b, left),
         NEW full, full = [a EXCEPT !.mem = Store(a, iovs[1][1], iovs[1][2], got)],
         NEW r, r = [setPostion(full, b.position + Len(got)) EXCEPT !.io = got]
  PROVE  Carries(b, r, got)
  <1>1. /\ a \in ByteArrays /\ Shape(a) /\ a.position = b.position /\ a.size = b.size
        /\ ~a.crash /\ a.capacity >= b.capacity /\ a.cur # NULL
        /\ \A j \in Nat : j < b.capacity => Cell(a, j) = Cell(b, j)
    BY AddCapacity
  <1>2. PICK p \in Nat, s \in Nat, n \in Nat, c \in Nat, d \in Nat :
          /\ p = b.position /\ s = b.size /\ n = Len(got) /\ c = a.capacity /\ d = b.capacity
          /\ p <= s /\ s <= d /\ d <= c
    <2>1. b.position \in Nat /\ b.size \in Nat /\ b.capacity \in Nat /\ a.capacity \in Nat
      BY <1>1 DEF ByteArrays
    <2>2. Len(got) \in Nat
      BY LenProperties
    <2> QED BY <1>1, <2>1, <2>2 DEF Shape
  <1>3. p + left <= c
    <2>1. OnList(a, left)
      BY DEF BuffersFit
    <2> QED BY <1>1, <1>2, <2>1, Walk
  <1>4. p < c /\ p + n <= c /\ a.cur = p \div BaseSize + 1
    BY <1>1, <1>2, <1>3 DEF Shape
  <1>5. PICK q \in Nat, o \in 0..(BaseSize - 1) : q = p \div BaseSize /\ o = p % BaseSize
    BY DivMod
  <1>6. iovs[1][1] = p \div BaseSize + 1 /\ iovs[1][2] = p % BaseSize
    <2>1. 1 \in 1..left
      OBVIOUS
    <2>2. iovs[1] = <<a.cur + (o + 1 - 1) \div BaseSize, (o + 1 - 1) % BaseSize>>
      BY <1>1, <1>2, <1>5, <2>1 DEF getWriteBuffers, Iovecs
    <2>3. o + 1 - 1 = o /\ o \div BaseSize = 0 /\ o % BaseSize = o
      <3>1. o = 0 * BaseSize + o /\ 0 \in Nat
        BY <1>5, ByteArrayAssumption
      <3>2. o \div BaseSize = 0 /\ o % BaseSize = o
        BY ONLY <3>1, o \in 0..(BaseSize - 1), DivUnique, ZenonT(60)
      <3> QED BY <1>5, <3>2, ByteArrayAssumption
    <2> QED BY <1>4, <1>5, <2>2, <2>3
  <1>7. PICK m : m = Store(a, p \div BaseSize + 1, p % BaseSize, got)
    OBVIOUS
  <1>8. /\ m \in Seq(Blocks) /\ Len(m) = Len(a.mem)
        /\ \A j \in Nat : j < c =>
             m[j \div BaseSize + 1][j % BaseSize]
               = IF j >= p /\ j < p + n THEN got[j - p + 1] ELSE Cell(a, j)
    <2>1. /\ a \in ByteArrays /\ Shape(a) /\ got \in Seq(Byte) /\ p \in Nat /\ p < a.capacity
          /\ m = Store(a, p \div BaseSize + 1, p % BaseSize, got)
      BY <1>1, <1>2, <1>4, <1>7
    <2>2. Stored(a, got, p, m)
      BY <2>1, StoreIs
    <2> QED BY <1>2, <2>2 DEF Stored
  <1>9. full = [a EXCEPT !.mem = m]
    BY <1>6, <1>7
  <1>10. /\ full \in ByteArrays /\ full.mem = m /\ full.position = p /\ full.size = s
         /\ ~full.crash /\ full.cur = a.cur /\ full.capacity = c
    BY <1>1, <1>2, <1>8, <1>9 DEF ByteArrays
  <1>11. Shape(full)
    BY <1>1, <1>2, <1>8, <1>10 DEF Shape
  <1>12. PICK v \in Nat : v = p + n
    OBVIOUS
  <1>13. PICK g : g = setPostion(full, v)
    OBVIOUS
  <1>14. /\ g \in ByteArrays /\ Shape(g) /\ g.mem = m /\ ~g.crash /\ g.position = v
         /\ g.capacity = c /\ g.size = IF v > s THEN v ELSE s
    <2>1. v <= full.capacity
      BY <1>4, <1>10, <1>12
    <2>2. Moved(full, v, g)
      BY <1>10, <1>11, <1>12, <1>13, <2>1, SetPostionIs
    <2> QED BY <1>10, <2>2 DEF Moved
  <1>15. r = [g EXCEPT !.io = got]
    BY <1>2, <1>12, <1>13
  <1>16. /\ r \in ByteArrays /\ r.mem = m /\ ~r.crash /\ r.position = v /\ r.io = got
         /\ r.cur = g.cur /\ r.capacity = c /\ r.size = g.size
         /\ r.size = IF p + n > s THEN p + n ELSE s
    BY <1>12, <1>14, <1>15 DEF ByteArrays
  <1>17. Shape(r)
    BY <1>14, <1>16 DEF Shape
  <1>18. PICK t \in Nat : t = r.size /\ t <= c /\ t = IF p + n > s THEN p + n ELSE s
    BY <1>2, <1>4, <1>16, SMTT(30)
  <1>19. ASSUME NEW j \in Nat, j < t
         PROVE  Cell(r, j) = IF j >= p /\ j < p + n THEN got[j - p + 1] ELSE Cell(b, j)
    <2>1. j < c
      BY <1>18, <1>19
    <2>2. Cell(r, j) = IF j >= p /\ j < p + n THEN got[j - p + 1] ELSE Cell(a, j)
      BY <1>8, <1>16, <2>1 DEF Cell
    <2>3. ~(j >= p /\ j < p + n) => j < d
      BY <1>2, <1>18, <1>19, SMTT(30)
    <2>4. ~(j >= p /\ j < p + n) => Cell(a, j) = Cell(b, j)
      BY <1>1, <1>2, <2>3
    <2> QED BY <2>2, <2>4
  <1>20. Data(r) = Flat!Overwrite(Data(b), b.position, got)
    <2>1. r.size = IF b.position + Len(got) > b.size THEN b.position + Len(got) ELSE b.size
      BY <1>2, <1>16
    <2>2. ASSUME NEW j \in Nat, j < r.size
          PROVE  Cell(r, j) = IF j >= b.position /\ j < b.position + Len(got)
                              THEN got[j - b.position + 1] ELSE Cell(b, j)
      BY <1>2, <1>18, <1>19, <2>2
    <2>3. r \in ByteArrays /\ Shape(r)
      BY <1>16, <1>17
    <2> QED BY <2>1, <2>2, <2>3, DataPut
  <1> QED BY <1>2, <1>12, <1>16, <1>17, <1>20 DEF Moves, Carries

\* What the socket returns when no more is asked for than is left.
LEMMA RecvIs ==
  ASSUME CallOk(call), wire \in Seq(Byte), NEW rt \in RecvResults(call.left)
  PROVE  /\ Result(rt) /\ rt <= Len(wire) /\ (rt > 0 => sock # "closed")
         /\ \E n \in Nat : n = Max({rt, 0}) /\ n <= Len(wire) /\ n <= call.left /\ (n # 0 => n = rt)
  <1>1. PICK l \in Nat, k \in Int : l = Len(wire) /\ k = call.left /\ k >= 0
    BY LenProperties DEF CallOk, Calls
  <1>2. /\ rt \in Int /\ -1 <= rt /\ rt <= k /\ rt <= l /\ (rt = -1 => call.errors < MaxErrors)
        /\ (rt > 0 => sock # "closed")
    BY <1>1 DEF RecvResults
  <1>3. PICK n \in Nat : n = IF 0 > rt THEN 0 ELSE rt
    BY <1>2
  <1>4. Max({rt, 0}) = n
    BY <1>2, <1>3, MaxOfTwo
  <1>5. n <= l /\ n <= k /\ (n # 0 => n = rt)
    BY <1>1, <1>2, <1>3
  <1> QED BY <1>1, <1>2, <1>4, <1>5 DEF Result

LEMMA SendIs ==
  ASSUME CallOk(call), NEW k \in Nat, k <= call.left, NEW rt \in SendResults(k)
  PROVE  /\ Result(rt) /\ rt <= k
         /\ \E n \in Nat : n = Max({rt, 0}) /\ n <= k /\ (rt > 0 => n = rt)
  <1>1. PICK m \in Int : m = call.left /\ k <= m
    BY DEF CallOk, Calls
  <1>2. rt \in Int /\ -1 <= rt /\ rt <= k /\ (rt = -1 => call.errors < MaxErrors)
    BY DEF SendResults
  <1>3. PICK n \in Nat : n = IF 0 > rt THEN 0 ELSE rt
    BY <1>2
  <1>4. Max({rt, 0}) = n
    BY <1>2, <1>3, MaxOfTwo
  <1>5. n <= k /\ (rt > 0 => n = rt)
    BY <1>2, <1>3
  <1> QED BY <1>1, <1>2, <1>4, <1>5 DEF Result

\* The position moves over bytes that have gone to the peer.
LEMMA SentMoves ==
  ASSUME NEW b \in ByteArrays, Shape(b), ~b.crash, NEW n \in Nat, b.position + n <= b.size,
         NEW r, r = [setPostion(b, b.position + n) EXCEPT !.io = SubSeq(Data(b), b.position + 1, b.position + n)]
  PROVE  Carries(b, r, SubSeq(Data(b), b.position + 1, b.position + n))
  <1>1. PICK p \in Nat, s \in Nat, c \in Nat, v \in Nat :
          p = b.position /\ s = b.size /\ c = b.capacity /\ v = p + n /\ p <= v /\ v <= s /\ s <= c
    <2>1. b.position \in Nat /\ b.size \in Nat /\ b.capacity \in Nat
      BY DEF ByteArrays
    <2>2. b.position + n \in Nat
      BY <2>1
    <2> QED BY <2>1, <2>2 DEF Shape
  <1>2. PICK g : g = setPostion(b, v)
    OBVIOUS
  <1>3. v <= b.capacity
    BY <1>1
  <1>4. Moved(b, v, g)
    BY <1>1, <1>2, <1>3, SetPostionIs
  <1>5. /\ g \in ByteArrays /\ Shape(g) /\ g.mem = b.mem /\ ~g.crash /\ g.position = v
        /\ g.capacity = c /\ g.size = s
    BY <1>1, <1>4 DEF Moved
  <1>6. PICK x \in Seq(Byte) : x = SubSeq(Data(b), p + 1, v) /\ Len(x) = v - p
    <2>1. Data(b) \in Seq(Byte) /\ v <= Len(Data(b))
      BY <1>1, DataIs
    <2>2. SubSeq(Data(b), p + 1, v) \in Seq(Byte) /\ Len(SubSeq(Data(b), p + 1, v)) = v - p
      BY <1>1, <2>1, PartOf
    <2> QED BY <2>2
  <1>7. r = [g EXCEPT !.io = x]
    BY <1>1, <1>2, <1>6
  <1>8. /\ r \in ByteArrays /\ r.mem = b.mem /\ ~r.crash /\ r.position = v /\ r.io = x
        /\ r.cur = g.cur /\ r.capacity = c /\ r.size = s
    BY <1>5, <1>6, <1>7 DEF ByteArrays
  <1>9. Shape(r)
    BY <1>5, <1>8 DEF Shape
  <1>10. Data(r) = Data(b)
    BY <1>1, <1>8 DEF Data, Cell
  <1>11. r.position \in b.position..b.size
    BY <1>1, <1>8
  <1>12. Moves(b, r)
    BY <1>1, <1>6, <1>8, <1>9, <1>10, <1>11 DEF Moves
  <1>13. x = SubSeq(Data(b), b.position + 1, b.position + n)
    BY <1>1, <1>6
  <1>14. r.position = b.position + Len(x)
    <2>1. v = p + (v - p)
      BY <1>1
    <2> QED BY <1>1, <1>6, <1>8, <2>1
  <1> QED BY <1>8, <1>12, <1>13, <1>14 DEF Carries

LEMMA ReadByteArrayMoves ==
  ASSUME StreamInv, ReadByteArray
  PROVE  /\ Moves(ba, ba') /\ ~ba.crash /\ wire' \in Seq(Byte) /\ CallOk(call')
         /\ ba'.crash => call'.left = 0
         /\ ~ba'.crash => \E rt, got : Received(rt, got)
  <1>1. PICK b \in ByteArrays, left \in Nat : b = ba /\ Shape(b) /\ ~b.crash /\ left = call.left /\ left > 0
    <2>1. call.left \in Int /\ call.left > 0
      BY DEF StreamInv, ReadByteArray, CallOk, Calls
    <2> QED BY <2>1 DEF StreamInv
  <1>2. CASE sock # "closed" /\ ~BuffersFit(ba, call.left)
    <2>1. ba' = Crash(b) /\ call' = NoCall /\ wire' = wire
      BY <1>1, <1>2 DEF ReadByteArray
    <2>2. PICK r : r = Crash(b)
      OBVIOUS
    <2>3. /\ r \in ByteArrays /\ r.mem = b.mem /\ r.size = b.size /\ r.position = b.position
          /\ r.crash /\ r.capacity = b.capacity
      BY <2>2 DEF ByteArrays, Crash
    <2>4. Shape(r)
      BY <1>1, <2>3 DEF Shape
    <2>5. Moves(b, r)
      BY <2>3, <2>4 DEF Moves
    <2>6. NoCall.left = 0
      BY DEF NoCall
    <2> QED BY <1>1, <2>1, <2>2, <2>3, <2>5, <2>6, NoCallIs DEF StreamInv
  <1>3. CASE ~(sock # "closed" /\ ~BuffersFit(ba, call.left))
    <2> DEFINE a == IF sock = "closed" THEN b ELSE addCapacity(b, left)
               iovs == getWriteBuffers(b, left)
    <2>1. PICK rt \in RecvResults(call.left) :
            LET n    == Max({rt, 0})
                got  == SubSeq(wire, 1, n)
                full == IF n = 0 THEN a
                        ELSE [a EXCEPT !.mem = Store(a, iovs[1][1], iovs[1][2], got)]
            IN  /\ ba' = IF n = 0 THEN [full EXCEPT !.io = << >>]
                         ELSE [setPostion(full, b.position + n) EXCEPT !.io = got]
                /\ wire' = SubSeq(wire, n + 1, Len(wire))
                /\ After(rt, got)
      BY <1>1, <1>3, Zenon DEF ReadByteArray
    <2>2. PICK w \in Seq(Byte), l \in Nat : w = wire /\ l = Len(w)
      BY LenProperties DEF StreamInv
    <2>3. Result(rt) /\ (rt > 0 => sock # "closed")
      BY RecvIs DEF StreamInv
    <2>4. PICK n \in Nat : n = Max({rt, 0}) /\ n <= l /\ n <= left /\ (n # 0 => n = rt)
      BY <1>1, <2>2, RecvIs DEF StreamInv
    <2>5. PICK got \in Seq(Byte) : got = SubSeq(w, 1, n) /\ Len(got) = n /\ SubSeq(w, n + 1, Len(w)) \in Seq(Byte)
      <3>1. n <= Len(w)
        BY <2>2, <2>4
      <3> QED BY <2>2, <3>1, RestOf
    <2>6. wire' \in Seq(Byte) /\ After(rt, got)
      BY <2>1, <2>2, <2>4, <2>5
    <2>7. CallOk(call')
      BY <2>3, <2>5, <2>6, AfterTypes DEF StreamInv
    <2>10. Passed(rt, got) /\ (rt > 0 => n # 0 /\ n = rt)
      <3>1. rt \in Int /\ (rt > 0 => n # 0 /\ n = rt)
        BY <2>3, <2>4, MaxOfTwo DEF Result
      <3> QED BY <2>3, <2>5, <2>6, <3>1 DEF Passed
    <2>8. CASE n = 0
      <3>1. ba' = [a EXCEPT !.io = << >>]
        BY <2>1, <2>4, <2>8
      <3>2. /\ a \in ByteArrays /\ Shape(a) /\ a.position = b.position /\ a.size = b.size /\ ~a.crash
            /\ \A j \in Nat : j < b.capacity => Cell(a, j) = Cell(b, j)
        BY <1>1, AddCapacity
      <3> HIDE DEF a
      <3>3. PICK x \in Seq(Byte) : x = << >>
        <4>1. << >> \in Seq(Byte)
          OBVIOUS
        <4> QED BY <4>1
      <3>4. PICK r : r = [a EXCEPT !.io = x]
        OBVIOUS
      <3>5. /\ r \in ByteArrays /\ r.mem = a.mem /\ r.size = a.size /\ r.position = a.position
            /\ ~r.crash /\ r.io = << >> /\ r.cur = a.cur /\ r.capacity = a.capacity
        BY <3>2, <3>3, <3>4 DEF ByteArrays
      <3>6. Shape(r)
        BY <3>2, <3>5 DEF Shape
      <3>7. b.size <= b.capacity /\ b.size \in Nat /\ b.capacity \in Nat
        BY <1>1 DEF Shape, ByteArrays
      <3>8. \A j \in Nat : j < b.size => Cell(r, j) = Cell(b, j)
        <4>1. \A j \in Nat : j < b.size => j < b.capacity
          BY <3>7
        <4> QED BY <3>2, <3>5, <4>1 DEF Cell
      <3>9. /\ b.position \in Nat /\ b.position <= b.position /\ b.position <= b.size
            /\ r.size = b.size /\ r.position = b.position
        BY <1>1, <3>2, <3>5, <3>7 DEF Shape, ByteArrays
      <3>10. r.io = SubSeq(Data(b), b.position + 1, b.position)
        <4>1. Data(b) \in Seq(Byte) /\ b.position + 1 > b.position
          BY <1>1, <3>9, DataIs
        <4>2. SubSeq(Data(b), b.position + 1, b.position) = << >>
          BY <3>9, <4>1
        <4> QED BY <3>5, <4>2
      <3>11. Moves(b, r)
        BY <1>1, <3>5, <3>6, <3>8, <3>9, <3>10, PeekMoves
      <3>12. ba' = r
        BY <3>1, <3>3, <3>4
      <3>13. Received(rt, got)
        BY <2>8, <2>10 DEF Received
      <3> QED BY <1>1, <2>6, <2>7, <3>5, <3>11, <3>12, <3>13
    <2>9. CASE n # 0
      <3>1. sock # "closed" /\ BuffersFit(b, left) /\ n <= left /\ n > 0
        BY <1>1, <1>3, <2>3, <2>4, <2>9
      <3>2. PICK full : full = [a EXCEPT !.mem = Store(a, iovs[1][1], iovs[1][2], got)]
        OBVIOUS
      <3>3. PICK r : r = [setPostion(full, b.position + n) EXCEPT !.io = got]
        OBVIOUS
      <3>4. ba' = r
        <4>1. ba' = [setPostion([a EXCEPT !.mem = Store(a, iovs[1][1], iovs[1][2], got)], b.position + n)
                       EXCEPT !.io = got]
          BY <2>1, <2>2, <2>4, <2>5, <2>9
        <4> QED BY <3>2, <3>3, <4>1
      <3>5. a = addCapacity(b, left)
        BY <3>1
      <3> HIDE DEF a
      <3>6. Moves(b, r) /\ ~r.crash /\ r.io = got /\ r.position = b.position + n
        <4>1. PICK aa, is : aa = a /\ is = iovs
          OBVIOUS
        <4>2. aa = addCapacity(b, left) /\ is = getWriteBuffers(b, left)
          BY <3>5, <4>1
        <4>3. full = [aa EXCEPT !.mem = Store(aa, is[1][1], is[1][2], got)]
          BY <3>2, <4>1
        <4>4. r = [setPostion(full, b.position + Len(got)) EXCEPT !.io = got]
          BY <2>5, <3>3
        <4>5. Len(got) > 0 /\ Len(got) <= left
          BY <2>5, <3>1
        <4> HIDE DEF iovs
        <4>6. Carries(b, r, got)
          BY <1>1, <2>5, <3>1, <4>2, <4>3, <4>4, <4>5, ReceivedMoves
        <4> QED BY <2>5, <4>6 DEF Carries
      <3>7. Received(rt, got)
        BY <1>1, <2>10, <3>4, <3>6 DEF Received
      <3> QED BY <1>1, <2>6, <2>7, <3>4, <3>6, <3>7
    <2> QED BY <2>8, <2>9
  <1> QED BY <1>2, <1>3

LEMMA WriteByteArrayMoves ==
  ASSUME StreamInv, WriteByteArray
  PROVE  /\ ba' = ba \/ Moves(ba, ba')
         /\ ~ba.crash /\ ba' \in ByteArrays /\ Shape(ba') /\ CallOk(call')
         /\ (ba'.crash => call'.left = 0) /\ sent' \in Seq(Byte)
         /\ \E rt, out : Sent(rt, out)
  <1>1. PICK b \in ByteArrays, left \in Nat : b = ba /\ Shape(b) /\ ~b.crash /\ left = call.left /\ left > 0
    <2>1. call.left \in Int /\ call.left > 0
      BY DEF StreamInv, WriteByteArray, CallOk, Calls
    <2> QED BY <2>1 DEF StreamInv
  <1>2. PICK p \in Nat, s \in Nat, k \in Nat :
          p = b.position /\ s = b.size /\ k = Min({left, getReadSize(b)}) /\ p + k <= s /\ k <= left /\ k <= getReadSize(b)
    <2>1. b.position \in Nat /\ b.size \in Nat /\ b.position <= b.size
      BY <1>1 DEF ByteArrays, Shape
    <2>2. PICK g \in Nat : g = getReadSize(b) /\ b.position + g = b.size
      <3>1. b.size - b.position \in Nat /\ b.position + (b.size - b.position) = b.size
        BY <2>1
      <3> QED BY <3>1 DEF getReadSize
    <2>3. PICK k \in Nat : k = Min({left, g}) /\ k <= g /\ k <= left
      BY <1>1, <2>2, MinOfTwo
    <2> QED BY <2>1, <2>2, <2>3
  <1>3. PICK all \in Seq(Byte) :
          all = Gather(b, getReadBuffers(b, left)) /\ all = SubSeq(Data(b), p + 1, p + k) /\ Len(all) = k
    <2>1. k > 0 => b.cur = p \div BaseSize + 1
      BY <1>1, <1>2, CurLook
    <2>2. p \in Nat /\ k \in Nat /\ p + k <= b.size
      BY <1>2
    <2>3. /\ Gather(b, Iovecs(b.cur, p % BaseSize, k)) = SubSeq(Data(b), p + 1, p + k)
          /\ Len(SubSeq(Data(b), p + 1, p + k)) = k
      BY <1>1, <2>1, <2>2, LookIs
    <2>4. SubSeq(Data(b), p + 1, p + k) \in Seq(Byte)
      BY <1>1, <2>1, <2>2, LookIs
    <2>5. getReadBuffers(b, left) = Iovecs(b.cur, p % BaseSize, k)
      BY <1>2 DEF getReadBuffers
    <2> QED BY <2>3, <2>4, <2>5
  <1>4. PICK rt \in SendResults(k) :
          LET out == SubSeq(all, 1, Max({rt, 0}))
          IN  /\ ba' = IF rt <= 0 THEN b
                       ELSE [setPostion(b, b.position + rt) EXCEPT !.io = out]
              /\ sent' = sent \o out
              /\ After(rt, out)
    BY <1>1, <1>3 DEF WriteByteArray
  <1>5. Result(rt) /\ rt <= k
    BY <1>1, <1>2, SendIs DEF StreamInv
  <1>6. PICK n \in Nat : n = Max({rt, 0}) /\ n <= k /\ (rt > 0 => n = rt)
    BY <1>1, <1>2, SendIs DEF StreamInv
  <1>7. PICK out \in Seq(Byte) : out = SubSeq(all, 1, n) /\ Len(out) = n
    <2>1. n <= Len(all)
      BY <1>3, <1>6
    <2> QED BY <1>3, <1>6, <2>1, RestOf, ZenonT(60)
  <1>8. CallOk(call')
    <2>1. After(rt, out)
      BY <1>4, <1>6, <1>7
    <2> QED BY <1>5, <1>7, <2>1, AfterTypes DEF StreamInv
  <1>12. Passed(rt, out) /\ sent' = sent \o out
    BY <1>4, <1>5, <1>6, <1>7 DEF Passed
  <1>11. sent' \in Seq(Byte)
    <2>1. sent' = sent \o out
      BY <1>4, <1>6, <1>7
    <2>2. PICK x \in Seq(Byte) : x = sent
      BY DEF StreamInv
    <2>3. x \o out \in Seq(Byte)
      BY <1>7, <2>2, ConcatProperties
    <2> QED BY <2>1, <2>2, <2>3
  <1>9. CASE rt <= 0
    <2>1. ba' = b
      BY <1>4, <1>9
    <2>2. Sent(rt, out)
      BY <1>5, <1>9, <1>12 DEF Sent, Result
    <2> QED BY <1>1, <1>8, <1>11, <2>1, <2>2
  <1>10. CASE rt > 0
    <2>1. out = SubSeq(Data(b), p + 1, p + n)
      <3>1. PICK D \in Seq(Byte) : D = Data(b) /\ Len(D) = s
        BY <1>1, <1>2, DataIs
      <3>2. PICK j \in Nat : j = p + k /\ p <= j /\ j <= Len(D) /\ n <= j - p
        <4>1. PICK j \in Nat : j = p + k /\ p <= j /\ j <= s /\ j - p = k
          BY <1>2, SMTT(30)
        <4>2. n <= j - p
          BY <1>6, <4>1
        <4> QED BY <3>1, <4>1, <4>2
      <3>3. SubSeq(SubSeq(D, p + 1, j), 1, n) = SubSeq(D, p + 1, p + n)
        <4>1. p \in Nat /\ j \in Nat /\ n \in Nat /\ p <= j /\ j <= Len(D) /\ n <= j - p /\ D \in Seq(Byte)
          BY <1>2, <1>6, <3>1, <3>2
        <4>2. \A x, y, z \in Nat : x <= y /\ y <= Len(D) /\ z <= y - x =>
                SubSeq(SubSeq(D, x + 1, y), 1, z) = SubSeq(D, x + 1, x + z)
          BY ONLY D \in Seq(Byte), BytesOfPart, Zenon
        <4> QED BY ONLY <4>1, <4>2, Zenon
      <3> QED BY <1>3, <1>7, <3>1, <3>2, <3>3
    <2>2. PICK r : r = [setPostion(b, b.position + n) EXCEPT !.io = SubSeq(Data(b), b.position + 1, b.position + n)]
      OBVIOUS
    <2>3. ba' = r
      <3>1. n = rt /\ ~(rt <= 0) /\ out = SubSeq(all, 1, Max({rt, 0}))
        BY <1>5, <1>6, <1>7, <1>10 DEF Result
      <3>2. ba' = [setPostion(b, b.position + n) EXCEPT !.io = out]
        BY <1>4, <3>1
      <3> QED BY <1>2, <2>1, <2>2, <3>2
    <2>4. b.position + n <= b.size
      BY <1>2, <1>6, SMTT(30)
    <2>5. Moves(b, r) /\ ~r.crash /\ r.io = out /\ r.position = b.position + rt
      <3>1. Carries(b, r, SubSeq(Data(b), b.position + 1, b.position + n))
        BY <1>1, <1>6, <2>2, <2>4, SentMoves
      <3>2. SubSeq(Data(b), b.position + 1, b.position + n) = out
        BY <1>2, <2>1
      <3> QED BY <1>6, <1>7, <1>10, <3>1, <3>2 DEF Carries
    <2>6. Sent(rt, out)
      BY <1>1, <1>12, <2>3, <2>5 DEF Sent
    <2> QED BY <1>1, <1>8, <1>11, <2>3, <2>5, <2>6 DEF Moves
  <1>13. rt <= 0 \/ rt > 0
    BY <1>5 DEF Result
  <1> QED BY <1>9, <1>10, <1>13


\* The loops over a plain buffer.
LEMMA ReadBufferKeeps ==
  ASSUME StreamInv, ReadBuffer
  PROVE  /\ wire' \in Seq(Byte) /\ CallOk(call') /\ buffer' \in [Cells -> Byte]
         /\ ~ba.crash /\ UNCHANGED <<ba, file, peer, sent>>
         /\ \E rt, got :
              /\ Passed(rt, got)
              /\ rt > 0 => buffer' = [i \in Cells |->
                                       IF i \in call.offset..(call.offset + rt - 1)
                                       THEN got[i - call.offset + 1] ELSE buffer[i]]
  <1>1. PICK rt \in RecvResults(call.left) :
          /\ buffer' = [i \in Cells |->
                          IF i \in call.offset..(call.offset + Max({rt, 0}) - 1)
                          THEN wire[i - call.offset + 1] ELSE buffer[i]]
          /\ wire' = SubSeq(wire, Max({rt, 0}) + 1, Len(wire))
          /\ After(rt, SubSeq(wire, 1, Max({rt, 0})))
    BY DEF ReadBuffer
  <1>2. PICK w \in Seq(Byte), l \in Nat : w = wire /\ l = Len(w)
    BY LenProperties DEF StreamInv
  <1>3. Result(rt)
    BY RecvIs DEF StreamInv
  <1>4. PICK n \in Nat : n = Max({rt, 0}) /\ n <= l /\ (n # 0 => n = rt)
    BY <1>2, RecvIs DEF StreamInv
  <1>5. PICK got \in Seq(Byte) :
          /\ got = SubSeq(w, 1, n) /\ Len(got) = n /\ SubSeq(w, n + 1, Len(w)) \in Seq(Byte)
          /\ \A x \in 1..n : got[x] = w[x]
    <2>1. /\ SubSeq(w, 1, n) \in Seq(Byte) /\ Len(SubSeq(w, 1, n)) = n
          /\ SubSeq(w, n + 1, Len(w)) \in Seq(Byte)
          /\ \A x \in 1..n : SubSeq(w, 1, n)[x] = w[x]
      BY <1>2, <1>4, RestOf
    <2> QED BY <2>1
  <1>6. CallOk(call')
    <2>1. After(rt, got)
      BY <1>1, <1>2, <1>4, <1>5
    <2> QED BY <1>3, <1>5, <2>1, AfterTypes DEF StreamInv
  <1>7. wire' \in Seq(Byte)
    BY <1>1, <1>2, <1>4, <1>5
  <1>8. buffer' \in [Cells -> Byte]
    <2>1. PICK o \in Int : o = call.offset
      BY DEF StreamInv, CallOk, Calls
    <2>2. ASSUME NEW i \in Cells, i \in o..(o + n - 1) PROVE w[i - o + 1] \in Byte
      <3>1. i - o + 1 \in 1..l
        BY <1>4, <2>2 DEF Cells
      <3> QED BY <1>2, <3>1, ElementOfSeq
    <2>3. \A i \in Cells : buffer[i] \in Byte
      BY DEF StreamInv
    <2>4. buffer' = [i \in Cells |-> IF i \in o..(o + n - 1) THEN w[i - o + 1] ELSE buffer[i]]
      BY <1>1, <1>2, <1>4, <2>1
    <2> QED BY <2>2, <2>3, <2>4
  <1>9. ~ba.crash /\ UNCHANGED <<ba, file, peer, sent>>
    BY DEF ReadBuffer, StreamInv, baVars
  <1>10. rt \in Int /\ (rt > 0 => n = rt)
    BY <1>3, <1>4, MaxOfTwo DEF Result
  <1>11. Passed(rt, got)
    BY <1>1, <1>2, <1>3, <1>4, <1>5, <1>10 DEF Passed
  <1>12. rt > 0 => buffer' = [i \in Cells |-> IF i \in call.offset..(call.offset + rt - 1)
                                             THEN got[i - call.offset + 1] ELSE buffer[i]]
    <2> SUFFICES ASSUME rt > 0
                 PROVE  buffer' = [i \in Cells |-> IF i \in call.offset..(call.offset + rt - 1)
                                                   THEN got[i - call.offset + 1] ELSE buffer[i]]
      OBVIOUS
    <2>1. PICK o \in Int : o = call.offset
      BY DEF StreamInv, CallOk, Calls
    <2>2. \A i \in Cells : i \in o..(o + n - 1) => got[i - o + 1] = w[i - o + 1]
      <3>1. \A i \in Cells : i \in o..(o + n - 1) => i - o + 1 \in 1..n
        BY DEF Cells
      <3> QED BY <1>5, <3>1
    <2>3. buffer' = [i \in Cells |-> IF i \in o..(o + n - 1) THEN w[i - o + 1] ELSE buffer[i]]
      BY <1>1, <1>2, <1>4, <2>1
    <2> QED BY <1>10, <2>1, <2>2, <2>3
  <1> QED BY <1>6, <1>7, <1>8, <1>9, <1>11, <1>12

LEMMA WriteBufferKeeps ==
  ASSUME StreamInv, WriteBuffer
  PROVE  /\ sent' \in Seq(Byte) /\ CallOk(call')
         /\ ~ba.crash /\ UNCHANGED <<ba, file, wire, peer, buffer>>
         /\ \E rt, out : /\ Passed(rt, out) /\ sent' = sent \o out
                        /\ \A i \in 1..rt : out[i] = buffer[call.offset + i - 1]
  <1>1. PICK rt \in SendResults(call.left) :
          LET out == [i \in 1..Max({rt, 0}) |-> buffer[call.offset + i - 1]]
          IN  sent' = sent \o out /\ After(rt, out)
    BY DEF WriteBuffer
  <1>2. PICK c \in Calls : c = call /\ CallOk(c)
    BY DEF StreamInv, CallOk
  <1>3. PICK o \in Int, k \in Nat, m \in Int, e \in Int :
          /\ o = c.offset /\ k = c.left /\ m = c.length /\ e = c.errors
          /\ o + k = m /\ m <= MaxFix /\ e <= MaxErrors /\ o >= -e
    <2>1. c.offset \in Int /\ c.left \in Int /\ c.length \in Nat /\ c.errors \in Int
      BY DEF Calls
    <2>2. c.left >= 0 /\ c.offset + c.left = c.length /\ c.length <= MaxFix
          /\ c.errors <= MaxErrors /\ c.offset >= -c.errors
      BY <1>2, <2>1, StreamAssumption DEF CallOk
    <2> QED BY <2>1, <2>2
  <1>4. k = call.left /\ k <= call.left /\ CallOk(call) /\ rt \in SendResults(k)
    BY <1>1, <1>2, <1>3
  <1>11. Result(rt)
    BY <1>4, SendIs
  <1>5. PICK n \in Nat : n = Max({rt, 0}) /\ n <= k /\ (rt > 0 => n = rt)
    BY <1>4, SendIs
  <1> DEFINE out == [i \in 1..n |-> buffer[o + i - 1]]
  <1>6. out \in Seq(Byte) /\ Len(out) = n
    <2>1. ASSUME NEW i \in 1..n PROVE buffer[o + i - 1] \in Byte
      <3>1. MaxErrors \in Int /\ MaxFix \in Int
        BY StreamAssumption
      <3>2. o + i - 1 \in Int /\ -MaxErrors <= o + i - 1 /\ o + i - 1 <= MaxFix + MaxErrors
        BY <1>3, <1>5, <3>1, StreamAssumption
      <3>3. o + i - 1 \in Cells
        BY <3>1, <3>2 DEF Cells
      <3> QED BY <3>3 DEF StreamInv
    <2>2. out \in [1..n -> Byte]
      BY <2>1
    <2> HIDE DEF out
    <2> QED BY <2>2
  <1>7. sent' = sent \o out /\ After(rt, out)
    BY <1>1, <1>2, <1>3, <1>5
  <1>12. \A i \in 1..rt : out[i] = buffer[call.offset + i - 1]
    <2>1. rt \in Int /\ \A i \in 1..rt : i \in 1..n
      BY <1>5, <1>11 DEF Result
    <2> QED BY <1>2, <1>3, <2>1
  <1> HIDE DEF out
  <1>8. CallOk(call')
    BY <1>2, <1>11, <1>6, <1>7, AfterTypes
  <1>9. sent' \in Seq(Byte)
    <2>1. PICK x \in Seq(Byte), y \in Seq(Byte) : x = sent /\ y = out
      BY <1>6 DEF StreamInv
    <2>2. x \o y \in Seq(Byte)
      BY <2>1, ConcatProperties
    <2> QED BY <1>7, <2>1, <2>2
  <1>10. ~ba.crash /\ UNCHANGED <<ba, file, wire, peer, buffer>>
    BY DEF WriteBuffer, StreamInv, baVars
  <1>13. Passed(rt, out)
    BY <1>5, <1>6, <1>7, <1>11 DEF Passed
  <1> QED BY <1>7, <1>8, <1>9, <1>10, <1>12, <1>13

\* A step leaves the array alone, or is a step of FlatBuffer.
LEMMA StepIs ==
  ASSUME StreamInv, [Next]_vars
  PROVE  /\ StreamInv'
         /\ (ba' = ba /\ reply' = reply) \/ (~ba.crash /\ Steps(ba, ba', reply'))
  <1>1. PICK b \in ByteArrays : b = ba /\ Shape(b)
    BY DEF StreamInv
  <1> DEFINE Array == (ba' = b /\ reply' = reply) \/ (~b.crash /\ Steps(b, ba', reply'))
             Reply == call'.left > 0 \/ file' # << >> => PlainReply(reply')
             Files == file' \in Seq(Byte) /\ wire' \in Seq(Byte) /\ peer' \in Nat
             Plain == sent' \in Seq(Byte) /\ buffer' \in [Cells -> Byte]
             Loop  == CallOk(call') /\ (ba'.crash => call'.left = 0)
  <1>2. ASSUME Array, Files, Plain, Loop, Reply
        PROVE  /\ StreamInv'
               /\ (ba' = ba /\ reply' = reply) \/ (~ba.crash /\ Steps(ba, ba', reply'))
    <2>1. PICK r : r = ba'
      OBVIOUS
    <2>2. r \in ByteArrays /\ Shape(r)
      BY <1>1, <1>2, <2>1 DEF Steps, Moves, Looks
    <2>3. (ba \in ByteArrays /\ Shape(ba))'
      BY <2>1, <2>2 DEF Shape
    <2>4. CallOk(call)'
      BY <1>2 DEF CallOk
    <2>5. (call.left > 0 \/ file # << >> => PlainReply(reply))'
      BY <1>2 DEF PlainReply
    <2>6. StreamInv'
      BY <1>2, <2>3, <2>4, <2>5 DEF StreamInv
    <2> QED BY <1>1, <1>2, <2>6
  <1>3. /\ file \in Seq(Byte) /\ wire \in Seq(Byte) /\ peer \in Nat
        /\ sent \in Seq(Byte) /\ buffer \in [Cells -> Byte]
        /\ CallOk(call) /\ (ba.crash => call.left = 0)
        /\ call.left > 0 \/ file # << >> => PlainReply(reply)
    BY DEF StreamInv
  <1>4. CASE UNCHANGED vars
    <2>1. Array /\ Files /\ Plain /\ Loop /\ Reply
      BY <1>1, <1>3, <1>4 DEF vars, baVars, streamVars
    <2> QED BY <1>2, <2>1
  <1>5. CASE call.left = 0 /\ BANext /\ call' = NoCall /\ ret' = 0 /\ UNCHANGED <<wire, peer, sent, sock, buffer>>
    <2>1. /\ Steps(ba, ba', reply') /\ file' \in Seq(Byte) /\ ~ba.crash
          /\ file' # << >> => PlainReply(reply')
      BY <1>5, BAMoves
    <2>2. Loop /\ Reply
      BY <1>5, <2>1, NoCallIs
    <2>3. Array /\ Files /\ Plain
      BY <1>1, <1>3, <1>5, <2>1
    <2> QED BY <1>2, <2>2, <2>3
  <1>6. CASE \E op \in Ops, n \in FixSizes : Begin(op, n)
    <2>1. PICK op \in Ops, n \in FixSizes : Begin(op, n)
      BY <1>6
    <2>2. reply' = NoReply
      BY <2>1 DEF Begin
    <2>3. Array /\ Plain /\ Loop /\ Reply
      BY <1>1, <2>1, <2>2, BeginMoves, PlainReplies DEF Steps
    <2>4. Files
      BY <1>3, <2>1 DEF Begin
    <2> QED BY <1>2, <2>3, <2>4
  <1>7. CASE ReadBuffer
    <2>1. reply' = reply /\ call.left > 0
      BY <1>7 DEF ReadBuffer, baVars
    <2>2. Array /\ Files /\ Plain /\ Loop /\ Reply
      BY <1>1, <1>3, <1>7, <2>1, ReadBufferKeeps
    <2> QED BY <1>2, <2>2
  <1>8. CASE WriteBuffer
    <2>1. reply' = reply /\ call.left > 0
      BY <1>8 DEF WriteBuffer, baVars
    <2>2. Array /\ Files /\ Plain /\ Loop /\ Reply
      BY <1>1, <1>3, <1>8, <2>1, WriteBufferKeeps
    <2> QED BY <1>2, <2>2
  <1>9. CASE ReadByteArray
    <2>1. UNCHANGED <<file, peer, sent, buffer, reply>> /\ call.left > 0
      BY <1>9 DEF ReadByteArray
    <2>2. PlainReply(reply')
      BY <1>3, <2>1
    <2>3. Array /\ Loop /\ wire' \in Seq(Byte)
      BY <1>1, <1>9, <2>1, <2>2, ReadByteArrayMoves DEF Steps
    <2> QED BY <1>2, <1>3, <2>1, <2>2, <2>3
  <1>10. CASE WriteByteArray
    <2>1. UNCHANGED <<file, wire, peer, buffer, reply>> /\ call.left > 0
      BY <1>10 DEF WriteByteArray
    <2>2. PlainReply(reply')
      BY <1>3, <2>1
    <2>3. Array /\ Loop /\ sent' \in Seq(Byte)
      BY <1>1, <1>10, <2>1, <2>2, WriteByteArrayMoves DEF Steps
    <2> QED BY <1>2, <1>3, <2>1, <2>2, <2>3
  <1>11. CASE PeerSend
    <2>1. PICK x \in Byte : x = WireByte(peer + 1)
      BY <1>3 DEF WireByte, Byte
    <2>2. wire' = Append(wire, x) /\ peer' = peer + 1 /\ UNCHANGED <<ba, reply, file, sent, call, buffer>>
      BY <1>11, <2>1 DEF PeerSend, baVars
    <2>3. wire' \in Seq(Byte)
      BY <1>3, <2>1, <2>2, AppendProperties
    <2>4. Array /\ Files /\ Plain /\ Loop /\ Reply
      BY <1>1, <1>3, <2>2, <2>3
    <2> QED BY <1>2, <2>4
  <1>12. CASE PeerClose \/ Close
    <2>1. UNCHANGED <<ba, reply, file, wire, peer, sent, call, buffer>>
      BY <1>12 DEF PeerClose, Close, baVars
    <2>2. Array /\ Files /\ Plain /\ Loop /\ Reply
      BY <1>1, <1>3, <2>1
    <2> QED BY <1>2, <2>2
  <1> QED BY <1>4, <1>5, <1>6, <1>7, <1>8, <1>9, <1>10, <1>11, <1>12 DEF Next, StreamStep

(***************************************************************************)
(* The fixed-size calls                                                    *)
(***************************************************************************)
\* A sequence that begins with x and goes on with y.
LEMMA Both ==
  ASSUME NEW S, NEW x \in Seq(S), NEW y \in Seq(S), NEW z \in Seq(S),
         NEW n \in Nat, NEW m \in Nat, Len(x) = n, Len(y) = m, Len(z) = n + m,
         \A a \in 1..n : z[a] = x[a], \A a \in 1..m : z[n + a] = y[a]
  PROVE  x \o y = z
  <1>1. /\ x \o y \in Seq(S) /\ Len(x \o y) = Len(x) + Len(y)
        /\ \A a \in 1..(Len(x) + Len(y)) : (x \o y)[a] = IF a <= Len(x) THEN x[a] ELSE y[a - Len(x)]
    BY ConcatProperties, Zenon
  <1>2. PICK o \in Seq(S) : o = x \o y
    BY <1>1
  <1>3. Len(o) = n + m /\ \A a \in 1..(n + m) : o[a] = IF a <= n THEN x[a] ELSE y[a - n]
    BY <1>1, <1>2
  <1>4. ASSUME NEW a \in 1..(n + m) PROVE o[a] = z[a]
    <2>1. CASE a <= n
      BY <1>3, <2>1
    <2>2. CASE ~(a <= n)
      <3>1. a - n \in 1..m /\ n + (a - n) = a
        BY <2>2
      <3> QED BY <1>3, <2>2, <3>1
    <2> QED BY <2>1, <2>2
  <1>5. Len(o) = Len(z) /\ \A a \in 1..Len(o) : o[a] = z[a]
    BY <1>3, <1>4
  <1>6. o = z
    BY <1>5, SeqEqual
  <1> QED BY <1>2, <1>6

\* What has passed the position since an earlier one is still there, the bytes of w behind it.
LEMMA Grown ==
  ASSUME NEW b \in ByteArrays, Shape(b), ~b.crash, NEW r, NEW w \in Seq(Byte), Len(w) > 0,
         Carries(b, r, w), NEW f \in Nat, f <= b.position
  PROVE  SubSeq(Data(b), f + 1, b.position) \o w = SubSeq(Data(r), f + 1, r.position)
  <1>1. r \in ByteArrays /\ Shape(r) /\ r.io = w /\ r.position = b.position + Len(w) /\ ~r.crash
    BY DEF Carries, Moves
  <1>2. PICK D \in Seq(Byte), E \in Seq(Byte) :
          D = Data(b) /\ Len(D) = b.size /\ E = Data(r) /\ Len(E) = r.size
    BY <1>1, DataIs
  <1>3. PICK p \in Nat, l \in Nat, s \in Nat, t \in Nat, q \in Nat :
          /\ p = b.position /\ l = Len(w) /\ s = b.size /\ t = r.size /\ q = r.position
          /\ q = p + l /\ p <= s /\ q <= t /\ l > 0 /\ f <= p
    <2>1. /\ b.position \in Nat /\ b.size \in Nat /\ r.size \in Nat /\ r.position \in Nat
          /\ Len(w) \in Nat
      BY <1>1, LenProperties DEF ByteArrays
    <2> QED BY <1>1, <2>1 DEF Shape
  <1>11. q = p + l /\ p <= s /\ q <= t /\ l > 0 /\ f <= p
    BY <1>3
  <1>4. (\A i \in 1..p : E[i] = D[i]) /\ (\A i \in 1..l : E[p + i] = w[i])
    <2>1. CASE E = Flat!Overwrite(D, p, w)
      <3>1. t = Len(E)
        BY <1>2, <1>3
      <3>2. E = [i \in 1..(IF p + l > s THEN p + l ELSE s) |->
                   IF i > p /\ i <= p + l THEN w[i - p] ELSE D[i]]
        BY <1>2, <1>3, <2>1 DEF Flat!Overwrite
      <3>3. ASSUME NEW i \in 1..p PROVE E[i] = D[i]
        BY <1>3, <3>2, SMTT(30)
      <3>4. ASSUME NEW i \in 1..l PROVE E[p + i] = w[i]
        <4>1. p + i \in 1..(IF p + l > s THEN p + l ELSE s) /\ p + i > p /\ p + i <= p + l
              /\ (p + i) - p = i
          BY <1>11
        <4> QED BY <3>2, <4>1
      <3> QED BY <3>3, <3>4
    <2>2. CASE E = D /\ w = SubSeq(D, p + 1, q)
      <3>1. q <= Len(D) /\ p <= q /\ q - p = l
        <4>1. Len(D) = t
          BY <1>2, <1>3, <2>2
        <4> QED BY <1>11, <4>1
      <3>2. /\ SubSeq(D, p + 1, q) \in Seq(Byte) /\ Len(SubSeq(D, p + 1, q)) = q - p
            /\ \A x \in 1..(q - p) : SubSeq(D, p + 1, q)[x] = D[p + x] /\ D[p + x] \in Byte
        BY ONLY <3>1, D \in Seq(Byte), p \in Nat, q \in Nat, PartOf, ZenonT(60)
      <3> QED BY <2>2, <3>1, <3>2
    <2>3. E = Flat!Overwrite(D, p, w) \/ (E = D /\ w = SubSeq(D, p + 1, q))
      <3>1. w # << >> /\ q # p
        BY <1>3
      <3>2. /\ ~r.crash /\ r.position # b.position /\ r.io # << >>
            /\ D = Data(b) /\ E = Data(r) /\ p = b.position /\ q = r.position /\ r.io = w
        BY <1>1, <1>2, <1>3, <3>1
      <3> QED BY ONLY <3>2, Carries(b, r, w), Zenon DEF Carries, Moves
    <2> QED BY <2>1, <2>2, <2>3
  <1> DEFINE x == SubSeq(D, f + 1, p)
             z == SubSeq(E, f + 1, q)
  <1>5. x \in Seq(Byte) /\ Len(x) = p - f /\ \A a \in 1..(p - f) : x[a] = D[f + a] /\ D[f + a] \in Byte
    <2>1. p <= Len(D) /\ f <= p
      BY <1>2, <1>3
    <2> QED BY ONLY <2>1, D \in Seq(Byte), f \in Nat, p \in Nat, PartOf, ZenonT(60)
  <1>6. z \in Seq(Byte) /\ Len(z) = q - f /\ \A a \in 1..(q - f) : z[a] = E[f + a] /\ E[f + a] \in Byte
    <2>1. q <= Len(E) /\ f <= q
      BY <1>2, <1>3
    <2> QED BY ONLY <2>1, E \in Seq(Byte), f \in Nat, q \in Nat, PartOf, ZenonT(60)
  <1> HIDE DEF x, z
  <1>7. PICK n \in Nat : n = p - f /\ n + l = q - f /\ f + n = p
    <2>1. p - f \in Nat
      BY <1>11
    <2> QED BY <1>11, <2>1
  <1>8. \A a \in 1..n : z[a] = x[a]
    <2>1. \A a \in 1..n : a \in 1..(q - f) /\ f + a \in 1..p
      BY <1>7, <1>11
    <2> QED BY <1>4, <1>5, <1>6, <1>7, <2>1
  <1>9. \A a \in 1..l : z[n + a] = w[a]
    <2>1. \A a \in 1..l : n + a \in 1..(q - f) /\ f + (n + a) = p + a
      BY <1>7, <1>11
    <2> QED BY <1>4, <1>6, <2>1
  <1>10. x \o w = z
    <2>1. Len(x) = n /\ Len(w) = l /\ Len(z) = n + l
      BY <1>3, <1>5, <1>6, <1>7
    <2>2. x \in Seq(Byte) /\ w \in Seq(Byte) /\ z \in Seq(Byte) /\ n \in Nat /\ l \in Nat
      BY <1>5, <1>6
    <2> QED BY ONLY <1>8, <1>9, <2>1, <2>2, Both, ZenonT(60)
  <1> QED BY <1>2, <1>3, <1>10 DEF x, z

\* FixSizeExact, for any state.
Clean(b, c) == c.errors = 0 /\ c.op # "none" /\ ~b.crash
Filled(c, f) ==
    \A i \in Cells : f[i] = IF i \in 0..(Len(c.taken) - 1) THEN c.taken[i + 1] ELSE Untouched
Window(b, c) == SubSeq(Data(b), c.from + 1, c.from + Len(c.taken))
Counted(c, t) == Len(c.taken) = c.length - c.left /\ (t = c.length <=> c.left = 0)
Exact(b, c, t, s, f) ==
    /\ Counted(c, t)
    /\ c.op = "read" => Filled(c, f)
    /\ c.op = "write" => s = [i \in 1..Len(c.taken) |-> f[i - 1]]
    /\ c.op = "readBA" => Window(b, c) = c.taken
    /\ c.op = "writeBA" => Window(b, c) = s
    /\ c.op \in {"readBA", "writeBA"} => b.position = c.from + Len(c.taken)

LEMMA ExactIs ==
  /\ FixSizeExact <=> (Clean(ba, call) => Exact(ba, call, ret, sent, buffer))
  /\ FixSizeExact' <=> (Clean(ba', call') => Exact(ba', call', ret', sent', buffer'))
  <1>1. Contents = Data(ba) /\ Contents' = Data(ba')
    BY DEF Contents, Data, Cell
  <1>2. FixSizeExact <=> (Clean(ba, call) => Exact(ba, call, ret, sent, buffer))
    BY <1>1 DEF FixSizeExact, Clean, Exact, Counted, Filled, Window
  <1>3. FixSizeExact' <=> (Clean(ba', call') => Exact(ba', call', ret', sent', buffer'))
    BY <1>1 DEF FixSizeExact, Clean, Exact, Counted, Filled, Window
  <1> QED BY <1>2, <1>3

\* A call that goes on without a failure has moved the bytes of this result.
LEMMA OneResult ==
  ASSUME CallOk(call), call.op # "none", call.left > 0, NEW rt, NEW got, Passed(rt, got),
         call'.errors = 0, call'.op # "none"
  PROVE  /\ rt \in Nat /\ rt > 0 /\ got \in Seq(Byte) /\ Len(got) = rt /\ call.errors = 0
         /\ call'.op = call.op /\ call'.from = call.from /\ call'.taken = call.taken \o got
         /\ Counted(call, ret) => Counted(call', ret')
  <1>1. PICK c \in Calls : c = call
    BY DEF CallOk
  <1>2. rt # 0
    BY DEF Passed, After, NoCall
  <1>3. PICK t \in Seq(Byte) : t = c.taken \o got /\ Len(t) = Len(c.taken) + Len(got)
    <2>1. c.taken \in Seq(Byte) /\ got \in Seq(Byte)
      BY DEF Calls, Passed
    <2> QED BY <2>1, ConcatProperties, ZenonT(60)
  <1>4. PICK e \in Int, o \in Int, l \in Int, ce \in Int, cl \in Int, co \in Int, n \in Int, k \in Int :
          /\ ce = c.errors /\ cl = c.left /\ co = c.offset /\ n = c.length /\ k = Len(c.taken)
          /\ e = (IF rt < 0 THEN ce + 1 ELSE ce) /\ o = co + rt /\ l = cl - rt
          /\ rt \in Int /\ ce >= 0 /\ cl > 0
    <2>1. /\ c.errors \in Int /\ c.left \in Int /\ c.offset \in Int /\ c.length \in Int
          /\ Len(c.taken) \in Int /\ rt \in Int
      BY LenProperties DEF Calls, Passed, Result
    <2>2. c.errors >= 0 /\ c.left > 0
      BY <1>1 DEF CallOk
    <2>3. PICK e \in Int, o \in Int, l \in Int :
            /\ e = (IF rt < 0 THEN c.errors + 1 ELSE c.errors)
            /\ o = c.offset + rt /\ l = c.left - rt
      BY <2>1
    <2> QED BY <2>1, <2>2, <2>3
  <1>5. PICK r : r = [c EXCEPT !.offset = o, !.left = l, !.taken = t, !.errors = e]
    OBVIOUS
  <1>6. call' = r /\ ret' = IF cl = rt THEN n ELSE ret
    BY <1>1, <1>2, <1>3, <1>4, <1>5 DEF Passed, After, Calls
  <1>7. /\ r.op = c.op /\ r.from = c.from /\ r.length = n /\ r.left = l /\ r.taken = t
        /\ r.errors = e
    BY <1>4, <1>5 DEF Calls
  <1>8. rt > 0 /\ ce = 0
    <2>1. e = 0 /\ rt # 0 /\ rt \in Int /\ ce >= 0
      BY <1>2, <1>4, <1>6, <1>7
    <2> QED BY <1>4, <2>1
  <1>9. rt \in Nat /\ got \in Seq(Byte) /\ Len(got) = rt
    BY <1>4, <1>8 DEF Passed
  <1>10. Counted(c, ret) => Counted(r, ret')
    <2> SUFFICES ASSUME k = n - cl, ret = n <=> cl = 0
                 PROVE  Len(t) = n - l /\ (ret' = n <=> l = 0)
      BY <1>4, <1>7 DEF Counted
    <2>1. Len(t) = k + rt
      BY <1>3, <1>4, <1>9
    <2>2. k + rt = n - l
      BY <1>4, SMTT(30)
    <2>3. l = 0 <=> cl = rt
      BY <1>4, SMTT(30)
    <2>4. ret # n
      BY <1>4
    <2> QED BY <1>6, <2>1, <2>2, <2>3, <2>4
  <1> QED BY <1>1, <1>3, <1>4, <1>6, <1>7, <1>8, <1>9, <1>10

\* Without failures, the next byte goes behind those that have been moved.
LEMMA OffsetIs ==
  ASSUME CallOk(call), Counted(call, ret)
  PROVE  \E c \in Calls, t \in Seq(Byte), n \in Nat :
           c = call /\ t = c.taken /\ n = Len(t) /\ n = call.offset
  <1>1. PICK c \in Calls : c = call
    BY DEF CallOk
  <1>2. /\ c.taken \in Seq(Byte) /\ Len(c.taken) \in Nat /\ c.offset \in Int /\ c.left \in Int
        /\ c.length \in Int
    BY LenProperties DEF Calls
  <1>3. Len(c.taken) = c.length - c.left /\ c.offset + c.left = c.length
    BY <1>1 DEF Counted, CallOk
  <1>4. Len(c.taken) = c.offset
    BY <1>2, <1>3
  <1> QED BY <1>1, <1>2, <1>4

LEMMA ReadBufferExact ==
  ASSUME StreamInv, ReadBuffer, FixSizeExact
  PROVE  FixSizeExact'
  <1> SUFFICES ASSUME Clean(ba', call') PROVE Exact(ba', call', ret', sent', buffer')
    BY ExactIs
  <1>1. PICK rt, got :
          /\ Passed(rt, got)
          /\ rt > 0 => buffer' = [i \in Cells |-> IF i \in call.offset..(call.offset + rt - 1)
                                                 THEN got[i - call.offset + 1] ELSE buffer[i]]
    BY ReadBufferKeeps
  <1>2. CallOk(call) /\ call.op = "read" /\ call.left > 0 /\ ~ba.crash
    BY ReadBufferKeeps DEF StreamInv, ReadBuffer
  <1>3. /\ rt \in Nat /\ rt > 0 /\ got \in Seq(Byte) /\ Len(got) = rt /\ call.errors = 0
        /\ call'.op = "read" /\ call'.taken = call.taken \o got
        /\ Counted(call, ret) => Counted(call', ret')
    BY <1>1, <1>2, OneResult DEF Clean
  <1>4. Counted(call, ret) /\ Filled(call, buffer)
    BY <1>2, <1>3, ExactIs DEF Clean, Exact
  <1>5. PICK c \in Calls, t \in Seq(Byte), n \in Nat :
          c = call /\ t = c.taken /\ n = Len(t) /\ n = call.offset
    BY <1>2, <1>4, OffsetIs
  <1>6. PICK u \in Seq(Byte) :
          /\ u = t \o got /\ Len(u) = n + rt
          /\ \A i \in 1..(n + rt) : u[i] = IF i <= n THEN t[i] ELSE got[i - n]
    <2>1. /\ t \o got \in Seq(Byte) /\ Len(t \o got) = Len(t) + Len(got)
          /\ \A i \in 1..(Len(t) + Len(got)) :
               (t \o got)[i] = IF i <= Len(t) THEN t[i] ELSE got[i - Len(t)]
      BY <1>3, ConcatProperties, Zenon
    <2>2. PICK u \in Seq(Byte) : u = t \o got
      BY <2>1
    <2>3. Len(t) = n /\ Len(got) = rt
      BY <1>3, <1>5
    <2>4. Len(u) = n + rt /\ \A i \in 1..(n + rt) : u[i] = IF i <= n THEN t[i] ELSE got[i - n]
      BY <2>1, <2>2, <2>3
    <2> QED BY <2>2, <2>4
  <1>7. buffer' = [i \in Cells |-> IF i \in n..(n + rt - 1) THEN got[i - n + 1] ELSE buffer[i]]
    BY <1>1, <1>3, <1>5
  <1>8. \A i \in Cells : buffer[i] = IF i \in 0..(n - 1) THEN t[i + 1] ELSE Untouched
    BY <1>4, <1>5 DEF Filled
  <1>9. ASSUME NEW i \in Cells
        PROVE  buffer'[i] = IF i \in 0..(n + rt - 1) THEN u[i + 1] ELSE Untouched
    <2>1. i \in Int
      BY DEF Cells
    <2>2. CASE i \in n..(n + rt - 1)
      <3>1. i + 1 \in 1..(n + rt) /\ ~(i + 1 <= n) /\ (i + 1) - n = i - n + 1 /\ i \in 0..(n + rt - 1)
        BY <1>3, <2>1, <2>2
      <3> QED BY <1>6, <1>7, <2>2, <3>1
    <2>3. CASE i \in 0..(n - 1)
      <3>1. i + 1 \in 1..(n + rt) /\ i + 1 <= n /\ i \in 0..(n + rt - 1) /\ i \notin n..(n + rt - 1)
        BY <1>3, <2>1, <2>3
      <3> QED BY <1>6, <1>7, <1>8, <2>3, <3>1
    <2>4. CASE i \notin 0..(n + rt - 1)
      <3>1. i \notin n..(n + rt - 1) /\ i \notin 0..(n - 1)
        BY <1>3, <2>1, <2>4
      <3> QED BY <1>7, <1>8, <2>4, <3>1
    <2>5. i \in n..(n + rt - 1) \/ i \in 0..(n - 1) \/ i \notin 0..(n + rt - 1)
      BY <1>3, <2>1
    <2> QED BY <2>2, <2>3, <2>4, <2>5
  <1>10. Filled(call', buffer')
    <2>1. call'.taken = u /\ Len(call'.taken) = n + rt
      BY <1>3, <1>5, <1>6
    <2>2. PICK d, f : d = call' /\ f = buffer'
      OBVIOUS
    <2>3. d.taken = u /\ Len(d.taken) - 1 = n + rt - 1
      BY <1>3, <2>1, <2>2
    <2>4. \A i \in Cells : f[i] = IF i \in 0..(n + rt - 1) THEN u[i + 1] ELSE Untouched
      BY <1>9, <2>2
    <2>5. Filled(d, f)
      BY <2>3, <2>4, Zenon DEF Filled
    <2> QED BY <2>2, <2>5
  <1> QED BY <1>3, <1>4, <1>10 DEF Exact

LEMMA WriteBufferExact ==
  ASSUME StreamInv, WriteBuffer, FixSizeExact
  PROVE  FixSizeExact'
  <1> SUFFICES ASSUME Clean(ba', call') PROVE Exact(ba', call', ret', sent', buffer')
    BY ExactIs
  <1>1. PICK rt, out : /\ Passed(rt, out) /\ sent' = sent \o out /\ buffer' = buffer
                       /\ \A i \in 1..rt : out[i] = buffer[call.offset + i - 1]
    BY WriteBufferKeeps
  <1>2. CallOk(call) /\ call.op = "write" /\ call.left > 0 /\ ~ba.crash /\ buffer \in [Cells -> Byte]
        /\ sent \in Seq(Byte) /\ sent' \in Seq(Byte)
    BY WriteBufferKeeps DEF StreamInv, WriteBuffer
  <1>3. /\ rt \in Nat /\ rt > 0 /\ out \in Seq(Byte) /\ Len(out) = rt /\ call.errors = 0
        /\ call'.op = "write" /\ call'.taken = call.taken \o out
        /\ Counted(call, ret) => Counted(call', ret')
    BY <1>1, <1>2, OneResult DEF Clean
  <1>4. Counted(call, ret) /\ sent = [i \in 1..Len(call.taken) |-> buffer[i - 1]]
    BY <1>2, <1>3, ExactIs DEF Clean, Exact
  <1>5. PICK c \in Calls, t \in Seq(Byte), n \in Nat :
          c = call /\ t = c.taken /\ n = Len(t) /\ n = call.offset
    BY <1>2, <1>4, OffsetIs
  <1>6. PICK u \in Seq(Byte) : u = t \o out /\ Len(u) = n + rt
    <2>1. t \o out \in Seq(Byte) /\ Len(t \o out) = Len(t) + Len(out)
      BY <1>3, ConcatProperties
    <2> QED BY <1>3, <1>5, <2>1
  <1>7. PICK x \in Seq(Byte), z \in Seq(Byte) :
          /\ x = sent /\ z = sent' /\ Len(x) = n
          /\ z = x \o out
    <2>1. sent = [i \in 1..n |-> buffer[i - 1]]
      BY <1>4, <1>5
    <2>2. Len(sent) = n
      BY <2>1
    <2> QED BY <1>1, <1>2, <2>2
  <1>8. \A i \in 1..n : x[i] = buffer[i - 1]
    BY <1>4, <1>5, <1>7
  <1>9. /\ Len(z) = n + rt
        /\ \A i \in 1..(n + rt) : z[i] = IF i <= n THEN x[i] ELSE out[i - n]
    <2>1. /\ x \o out \in Seq(Byte) /\ Len(x \o out) = Len(x) + Len(out)
          /\ \A i \in 1..(Len(x) + Len(out)) :
               (x \o out)[i] = IF i <= Len(x) THEN x[i] ELSE out[i - Len(x)]
      BY <1>3, ConcatProperties, Zenon
    <2> QED BY <1>3, <1>7, <2>1
  <1>10. ASSUME NEW i \in 1..(n + rt) PROVE z[i] = buffer[i - 1]
    <2>1. CASE i <= n
      <3>1. i \in 1..n
        BY <2>1
      <3> QED BY <1>8, <1>9, <2>1, <3>1
    <2>2. CASE ~(i <= n)
      <3>1. i - n \in 1..rt /\ n + (i - n) - 1 = i - 1
        BY <1>3, <2>2
      <3> QED BY <1>1, <1>5, <1>9, <2>2, <3>1
    <2> QED BY <2>1, <2>2
  <1>11. z = [i \in 1..(n + rt) |-> buffer[i - 1]]
    <2>1. z = [i \in 1..(n + rt) |-> z[i]]
      BY <1>9
    <2> QED BY <1>10, <2>1
  <1>12. sent' = [i \in 1..Len(call'.taken) |-> buffer'[i - 1]]
    BY <1>1, <1>3, <1>5, <1>6, <1>7, <1>11
  <1> QED BY <1>3, <1>4, <1>12 DEF Exact

\* The call is behind the bytes in the array that it has moved; more of them go there.
LEMMA WindowGrows ==
  ASSUME NEW b \in ByteArrays, Shape(b), ~b.crash, NEW r, NEW c \in Calls, NEW d,
         NEW w \in Seq(Byte), Len(w) > 0, Carries(b, r, w),
         d.from = c.from, d.taken = c.taken \o w, b.position = c.from + Len(c.taken)
  PROVE  /\ Window(r, d) = Window(b, c) \o w
         /\ r.position = d.from + Len(d.taken)
  <1>1. PICK f \in Nat, k \in Nat, t \in Seq(Byte), l \in Nat :
          f = c.from /\ k = Len(t) /\ t = c.taken /\ l = Len(w)
    BY LenProperties DEF Calls
  <1>2. PICK p \in Nat, q \in Nat : p = b.position /\ q = r.position /\ p = f + k /\ q = p + l
    <2>1. b.position \in Nat /\ r.position \in Nat /\ r.position = b.position + Len(w)
      BY DEF ByteArrays, Carries, Moves
    <2> QED BY <1>1, <2>1
  <1>3. Len(d.taken) = k + l
    <2>1. Len(t \o w) = Len(t) + Len(w)
      BY ConcatProperties
    <2> QED BY <1>1, <2>1
  <1>4. q = f + (k + l) /\ f <= b.position
    BY <1>2
  <1>5. SubSeq(Data(b), f + 1, b.position) \o w = SubSeq(Data(r), f + 1, r.position)
    BY <1>4, Grown
  <1>6. Window(b, c) = SubSeq(Data(b), f + 1, b.position)
    BY <1>1, <1>2 DEF Window
  <1>7. Window(r, d) = SubSeq(Data(r), f + 1, r.position)
    BY <1>1, <1>2, <1>3, <1>4 DEF Window
  <1> QED BY <1>1, <1>2, <1>3, <1>4, <1>5, <1>6, <1>7

LEMMA ReadByteArrayExact ==
  ASSUME StreamInv, ReadByteArray, FixSizeExact
  PROVE  FixSizeExact'
  <1> SUFFICES ASSUME Clean(ba', call') PROVE Exact(ba', call', ret', sent', buffer')
    BY ExactIs
  <1>1. PICK rt, got : Received(rt, got)
    BY ReadByteArrayMoves DEF Clean
  <1>2. /\ CallOk(call) /\ call.op = "readBA" /\ call.left > 0 /\ ~ba.crash /\ Moves(ba, ba')
        /\ ba \in ByteArrays /\ Shape(ba)
    BY ReadByteArrayMoves DEF StreamInv, ReadByteArray
  <1>3. /\ rt \in Nat /\ rt > 0 /\ got \in Seq(Byte) /\ Len(got) = rt /\ call.errors = 0
        /\ call'.op = "readBA" /\ call'.taken = call.taken \o got /\ call'.from = call.from
        /\ Counted(call, ret) => Counted(call', ret')
    BY <1>1, <1>2, OneResult DEF Clean, Received
  <1>4. /\ Counted(call, ret) /\ Window(ba, call) = call.taken
        /\ ba.position = call.from + Len(call.taken)
    BY <1>2, <1>3, ExactIs DEF Clean, Exact
  <1>5. PICK b, r, c, d : b = ba /\ r = ba' /\ c = call /\ d = call'
    OBVIOUS
  <1>6. Carries(b, r, got)
    BY <1>1, <1>2, <1>3, <1>5 DEF Carries, Clean, Received
  <1>7. /\ b \in ByteArrays /\ Shape(b) /\ ~b.crash /\ c \in Calls /\ Len(got) > 0
        /\ d.from = c.from /\ d.taken = c.taken \o got /\ b.position = c.from + Len(c.taken)
    BY <1>2, <1>3, <1>4, <1>5 DEF CallOk
  <1>8. Window(r, d) = Window(b, c) \o got /\ r.position = d.from + Len(d.taken)
    BY <1>3, <1>6, <1>7, WindowGrows
  <1>9. Window(ba', call') = call'.taken /\ ba'.position = call'.from + Len(call'.taken)
    BY <1>4, <1>5, <1>7, <1>8
  <1> QED BY <1>3, <1>4, <1>9 DEF Exact

LEMMA WriteByteArrayExact ==
  ASSUME StreamInv, WriteByteArray, FixSizeExact
  PROVE  FixSizeExact'
  <1> SUFFICES ASSUME Clean(ba', call') PROVE Exact(ba', call', ret', sent', buffer')
    BY ExactIs
  <1>1. PICK rt, out : Sent(rt, out)
    BY WriteByteArrayMoves
  <1>2. /\ CallOk(call) /\ call.op = "writeBA" /\ call.left > 0 /\ ~ba.crash
        /\ ba \in ByteArrays /\ Shape(ba)
    BY WriteByteArrayMoves DEF StreamInv, WriteByteArray
  <1>3. /\ rt \in Nat /\ rt > 0 /\ out \in Seq(Byte) /\ Len(out) = rt /\ call.errors = 0
        /\ call'.op = "writeBA" /\ call'.taken = call.taken \o out /\ call'.from = call.from
        /\ Counted(call, ret) => Counted(call', ret')
    BY <1>1, <1>2, OneResult DEF Clean, Sent
  <1>4. /\ Counted(call, ret) /\ Window(ba, call) = sent
        /\ ba.position = call.from + Len(call.taken)
    BY <1>2, <1>3, ExactIs DEF Clean, Exact
  <1>5. PICK b, r, c, d : b = ba /\ r = ba' /\ c = call /\ d = call'
    OBVIOUS
  <1>6. Carries(b, r, out)
    BY <1>1, <1>2, <1>3, <1>5 DEF Carries, Clean, Sent
  <1>7. /\ b \in ByteArrays /\ Shape(b) /\ ~b.crash /\ c \in Calls /\ Len(out) > 0
        /\ d.from = c.from /\ d.taken = c.taken \o out /\ b.position = c.from + Len(c.taken)
    BY <1>2, <1>3, <1>4, <1>5 DEF CallOk
  <1>8. Window(r, d) = Window(b, c) \o out /\ r.position = d.from + Len(d.taken)
    BY <1>3, <1>6, <1>7, WindowGrows
  <1>9. Window(ba', call') = sent' /\ ba'.position = call'.from + Len(call'.taken)
    BY <1>1, <1>4, <1>5, <1>8 DEF Sent
  <1> QED BY <1>3, <1>4, <1>9 DEF Exact

\* Nothing has been moved when a call begins.
LEMMA BeginExact ==
  ASSUME StreamInv, NEW op \in Ops, NEW n \in FixSizes, Begin(op, n)
  PROVE  FixSizeExact'
  <1> SUFFICES ASSUME Clean(ba', call') PROVE Exact(ba', call', ret', sent', buffer')
    BY ExactIs
  <1>1. PICK b \in ByteArrays : b = ba /\ Shape(b)
    BY DEF StreamInv
  <1>2. PICK p \in Nat : p = b.position /\ p <= b.size
    BY <1>1 DEF ByteArrays, Shape
  <1>3. PICK g : g = Fresh(b) /\ ba' = g
    BY <1>1 DEF Begin
  <1>4. g.position = p /\ Data(g) \in Seq(Byte)
    BY <1>1, <1>2, <1>3, FreshIs, DataIs
  <1>5. PICK c : c = [NoCall EXCEPT !.op = op, !.length = n, !.left = n, !.from = p] /\ call' = c
    BY <1>1, <1>2 DEF Begin
  <1>6. c.length = n /\ c.left = n /\ c.from = p /\ c.taken = << >> /\ c.op = op
    BY <1>5 DEF NoCall
  <1>7. n \in Nat /\ n > 0
    BY StreamAssumption
  <1>8. ret' = 0 /\ sent' = << >>
    BY DEF Begin
  <1>9. Counted(c, 0)
    BY <1>6, <1>7 DEF Counted
  <1>10. ASSUME op = "read" PROVE Filled(c, buffer')
    <2>1. \A i \in Cells : buffer'[i] = Untouched
      BY <1>10 DEF Begin
    <2>2. \A i \in Cells : i \notin 0..(Len(c.taken) - 1)
      BY <1>6 DEF Cells
    <2> QED BY <2>1, <2>2 DEF Filled
  <1>11. Window(g, c) = << >>
    <2>1. Window(g, c) = SubSeq(Data(g), p + 1, p)
      BY <1>6 DEF Window
    <2>2. PICK D \in Seq(Byte) : D = Data(g)
      BY <1>4
    <2>3. SubSeq(D, p + 1, p) = << >>
      OBVIOUS
    <2> QED BY <2>1, <2>2, <2>3
  <1>12. [i \in 1..Len(c.taken) |-> buffer'[i - 1]] = << >>
    BY <1>6
  <1>13. g.position = c.from + Len(c.taken)
    BY <1>4, <1>6
  <1> QED BY <1>3, <1>5, <1>6, <1>8, <1>9, <1>10, <1>11, <1>12, <1>13 DEF Exact

LEMMA ExactStep ==
  ASSUME StreamInv, [Next]_vars, FixSizeExact
  PROVE  FixSizeExact'
  <1>1. CASE UNCHANGED vars \/ PeerSend \/ PeerClose \/ Close
    <2>1. UNCHANGED <<ba, call, ret, sent, buffer>>
      BY <1>1 DEF vars, baVars, streamVars, PeerSend, PeerClose, Close
    <2> QED BY <2>1, ExactIs
  <1>2. CASE call' = NoCall
    <2>1. ~Clean(ba', call')
      BY <1>2 DEF Clean, NoCall
    <2> QED BY <2>1, ExactIs
  <1>3. CASE \E op \in Ops, n \in FixSizes : Begin(op, n)
    BY <1>3, BeginExact
  <1>4. CASE StreamStep
    BY <1>4, ReadBufferExact, WriteBufferExact, ReadByteArrayExact, WriteByteArrayExact
       DEF StreamStep
  <1> QED BY <1>1, <1>2, <1>3, <1>4 DEF Next

(***************************************************************************)
(* Values are read back                                                    *)
(***************************************************************************)
\* The bytes of a value: those of one number, and behind them those of a string.
Varints == {"Uint32", "Uint64", "Int32", "Int64", "Vint"}
Num(t, v) == IF t \in Strings THEN Len(v)
             ELSE IF t = "Int32" THEN EncodeZigzag32(v[1])
             ELSE IF t = "Int64" THEN EncodeZigzag64(v[1]) ELSE v[1]
Width(t) == IF t \in DOMAIN FixedWidth THEN FixedWidth[t]
            ELSE IF t \in DOMAIN FloatWidth THEN FloatWidth[t] ELSE LengthWidth[t]
Ordered(little, h) == IF little THEN h ELSE Reverse(h)
FrontBytes(t, v, little) == IF t \in Varints THEN VarintBytes(Num(t, v))
                       ELSE Ordered(little, HostBytes(Num(t, v), Width(t)))
Coded(t, v, little) == IF t \in Strings THEN FrontBytes(t, v, little) \o v ELSE FrontBytes(t, v, little)

\* How a value is written and read, in these terms.
LEMMA EncodeSplit ==
  ASSUME NEW b, NEW t \in Types, NEW v
  PROVE  LET a == IF t \in Varints THEN writeVarint(b, Num(t, v))
                  ELSE writeFixed(b, Num(t, v), Width(t))
         IN  Encode(b, t, v) = IF t \in Strings THEN write(a, v) ELSE a
  <1>1. CASE t \in DOMAIN FixedWidth
    <2>1. Encode(b, t, v) = writeFixed(b, v[1], FixedWidth[t])
      BY <1>1, TypesApart DEF Encode
    <2>2. t \notin Strings /\ t \notin {"Uint32", "Uint64", "Int32", "Int64"}
      BY <1>1, TypesApart
    <2>3. t \notin Varints /\ t # "Int32" /\ t # "Int64"
      BY <2>2 DEF Varints, Strings
    <2> QED BY <1>1, <2>1, <2>2, <2>3 DEF Num, Width
  <1>2. CASE t \in DOMAIN FloatWidth
    <2>1. Encode(b, t, v) = writeFixed(b, v[1], FloatWidth[t])
      BY <1>2, TypesApart DEF Encode
    <2>2. t \notin Strings /\ t \notin {"Uint32", "Uint64", "Int32", "Int64"}
          /\ t \notin DOMAIN FixedWidth
      BY <1>2, TypesApart
    <2>3. t \notin Varints /\ t # "Int32" /\ t # "Int64"
      BY <2>2 DEF Varints, Strings
    <2> QED BY <1>2, <2>1, <2>2, <2>3 DEF Num, Width
  <1>3. CASE t \in {"Uint32", "Uint64", "Int32", "Int64"}
    <2>1. t \notin DOMAIN FixedWidth /\ t \notin DOMAIN FloatWidth /\ t \notin Strings
      BY <1>3, TypesApart
    <2>2. Encode(b, t, v) = writeVarint(b, Num(t, v))
      BY <1>3, <2>1 DEF Encode, Num
    <2>3. t \in Varints
      BY <1>3 DEF Varints
    <2> QED BY <2>1, <2>2, <2>3
  <1>4. CASE t \in Strings
    <2>1. t \notin DOMAIN FixedWidth /\ t \notin DOMAIN FloatWidth
          /\ t \notin {"Uint32", "Uint64", "Int32", "Int64"}
      BY <1>4, TypesApart
    <2>2. Encode(b, t, v) = writeString(b, t, v)
      BY <1>4, <2>1 DEF Encode
    <2>3. Num(t, v) = Len(v) /\ Width(t) = LengthWidth[t]
      BY <1>4, <2>1 DEF Num, Width
    <2>4. t \in Varints <=> t = "Vint"
      BY <2>1 DEF Varints
    <2>5. CASE t = "Vint"
      BY <1>4, <2>2, <2>3, <2>4, <2>5 DEF writeString
    <2>6. CASE t # "Vint"
      <3>1. writeString(b, t, v) = write(writeFixed(b, Len(v), LengthWidth[t]), v)
        BY <1>4, <2>6 DEF writeString, Strings
      <3> QED BY <1>4, <2>2, <2>3, <2>4, <2>6, <3>1
    <2> QED BY <2>5, <2>6
  <1> QED BY <1>1, <1>2, <1>3, <1>4 DEF Types

LEMMA DecodeSplit ==
  ASSUME NEW b, NEW t \in Types
  PROVE  LET a == IF t \in Varints THEN readVarint(b) ELSE readFixed(b, Width(t))
             n == IF t \in Varints THEN VarintValue(a.io) ELSE FixedValue(a, a.io)
         IN  Decode(b, t) = IF t \in Strings /\ Alive(a) THEN read(a, n) ELSE a
  <1>1. CASE t \in DOMAIN FixedWidth
    <2>1. Decode(b, t) = readFixed(b, FixedWidth[t])
      BY <1>1, TypesApart DEF Decode
    <2>2. t \notin Strings /\ t \notin {"Uint32", "Uint64", "Int32", "Int64"}
      BY <1>1, TypesApart
    <2>3. t \notin Varints
      BY <2>2 DEF Varints, Strings
    <2> QED BY <1>1, <2>1, <2>2, <2>3 DEF Width
  <1>2. CASE t \in DOMAIN FloatWidth
    <2>1. Decode(b, t) = readFixed(b, FloatWidth[t])
      BY <1>2, TypesApart DEF Decode
    <2>2. t \notin Strings /\ t \notin {"Uint32", "Uint64", "Int32", "Int64"}
          /\ t \notin DOMAIN FixedWidth
      BY <1>2, TypesApart
    <2>3. t \notin Varints
      BY <2>2 DEF Varints, Strings
    <2> QED BY <1>2, <2>1, <2>2, <2>3 DEF Width
  <1>3. CASE t \in {"Uint32", "Uint64", "Int32", "Int64"}
    <2>1. t \notin DOMAIN FixedWidth /\ t \notin DOMAIN FloatWidth /\ t \notin Strings
      BY <1>3, TypesApart
    <2>2. Decode(b, t) = readVarint(b)
      BY <1>3, <2>1 DEF Decode
    <2>3. t \in Varints
      BY <1>3 DEF Varints
    <2> QED BY <2>1, <2>2, <2>3
  <1>4. CASE t \in Strings
    <2>1. t \notin DOMAIN FixedWidth /\ t \notin DOMAIN FloatWidth
          /\ t \notin {"Uint32", "Uint64", "Int32", "Int64"}
      BY <1>4, TypesApart
    <2>2. Decode(b, t) = readString(b, t)
      BY <1>4, <2>1 DEF Decode
    <2>3. Width(t) = LengthWidth[t]
      BY <1>4, <2>1 DEF Width
    <2>4. t \in Varints <=> t = "Vint"
      BY <2>1 DEF Varints
    <2> QED BY <1>4, <2>2, <2>3, <2>4 DEF readString
  <1> QED BY <1>1, <1>2, <1>3, <1>4 DEF Types

\* The parts of the bytes of a value are sequences of bytes.
LEMMA FrontIs ==
  ASSUME NEW s \in Samples
  PROVE  /\ s[1] \in Types /\ s[2] \in Seq(Byte) /\ Num(s[1], s[2]) \in Number
         /\ s[1] \notin Varints => Num(s[1], s[2]) \in Int /\ Width(s[1]) \in Nat
         /\ \A e : FrontBytes(s[1], s[2], e) \in Seq(Byte) /\ Coded(s[1], s[2], e) \in Seq(Byte)
  <1>1. PICK t \in Types, v \in Seq(Int) : t = s[1] /\ v = s[2] /\ (t \in Strings \/ Len(v) = 1)
    BY SamplesAssumption
  <1>2. v \in Seq(Byte)
    <2>1. Int \subseteq Byte
      BY DEF Byte
    <2> QED BY <2>1
  <1>3. t \notin Strings => v[1] \in Int
    BY <1>1
  <1>4. Len(v) \in Int
    BY LenProperties
  <1>5. Num(t, v) \in Number
    <2>1. Len(v) \in Number
      BY <1>4 DEF Number
    <2>2. t \notin Strings => /\ v[1] \in Number /\ EncodeZigzag32(v[1]) \in Number
                              /\ EncodeZigzag64(v[1]) \in Number
      BY <1>3 DEF Number
    <2> QED BY <2>1, <2>2 DEF Num
  <1>6. ASSUME t \notin Varints PROVE Num(t, v) \in Int /\ Width(t) \in Nat
    <2>1. t # "Int32" /\ t # "Int64" /\ t # "Uint32" /\ t # "Uint64" /\ t # "Vint"
      BY <1>6 DEF Varints
    <2>2. Num(t, v) \in Int
      BY <1>3, <1>4, <2>1 DEF Num
    <2>3. CASE t \in DOMAIN FixedWidth
      BY <2>2, <2>3, TypesApart DEF Width
    <2>4. CASE t \in DOMAIN FloatWidth /\ t \notin DOMAIN FixedWidth
      BY <2>2, <2>4, TypesApart DEF Width
    <2>5. CASE t \notin DOMAIN FloatWidth /\ t \notin DOMAIN FixedWidth
      <3>1. t \in {"F16", "F32", "F64"}
        BY <2>1, <2>5 DEF Types, Strings
      <3>2. LengthWidth[t] \in Nat
        BY <3>1 DEF LengthWidth
      <3> QED BY <2>2, <2>5, <3>2 DEF Width
    <2> QED BY <2>2, <2>3, <2>4, <2>5
  <1>7. ASSUME NEW e PROVE FrontBytes(t, v, e) \in Seq(Byte) /\ Coded(t, v, e) \in Seq(Byte)
    <2>1. CASE t \in Varints
      <3>1. FrontBytes(t, v, e) \in Seq(Byte)
        BY <1>5, <2>1, VarintBytesAre DEF FrontBytes
      <3> QED BY <1>2, <3>1, ConcatProperties DEF Coded
    <2>2. CASE t \notin Varints
      <3>1. PICK b : b = [little |-> e]
        OBVIOUS
      <3>2. InOrder(b, HostBytes(Num(t, v), Width(t))) \in Seq(Byte)
        BY <1>6, <2>2, HostBytesAre
      <3>3. FrontBytes(t, v, e) \in Seq(Byte)
        BY <2>2, <3>1, <3>2 DEF FrontBytes, Ordered, InOrder
      <3> QED BY <1>2, <3>3, ConcatProperties DEF Coded
    <2> QED BY <2>1, <2>2
  <1> QED BY <1>1, <1>2, <1>5, <1>6, <1>7

\* A write of a value writes its bytes, in the order of the array, or crashes.
LEMMA EncodeCoded ==
  ASSUME NEW b \in ByteArrays, Shape(b), Alive(b), NEW s \in Samples, NEW r,
         r = Encode(b, s[1], s[2])
  PROVE  Wrote(b, Coded(s[1], s[2], b.little), r)
  <1>1. PICK t, v, e : t = s[1] /\ v = s[2] /\ e = b.little
    OBVIOUS
  <1>2. t \in Types /\ v \in Seq(Byte)
    BY <1>1, FrontIs
  <1>3. PICK w \in Seq(Byte) : w = FrontBytes(t, v, e)
    BY <1>1, FrontIs
  <1>4. PICK a : a = IF t \in Varints THEN writeVarint(b, Num(t, v))
                     ELSE writeFixed(b, Num(t, v), Width(t))
    OBVIOUS
  <1>5. r = IF t \in Strings THEN write(a, v) ELSE a
    BY <1>1, <1>2, <1>4, EncodeSplit
  <1>6. a = write(b, w)
    BY <1>1, <1>3, <1>4 DEF writeVarint, writeFixed, FrontBytes, Ordered, InOrder
  <1>7. Wrote(b, w, a)
    BY <1>6, WriteIs
  <1>8. CASE t \in Strings
    <2>1. r = write(a, v)
      BY <1>5, <1>8
    <2>2. Wrote(b, w \o v, r)
      BY <1>2, <1>7, <2>1, WroteThen
    <2> QED BY <1>1, <1>3, <1>8, <2>2 DEF Coded
  <1>9. CASE t \notin Strings
    BY <1>1, <1>3, <1>5, <1>7, <1>9 DEF Coded
  <1> QED BY <1>8, <1>9

\* The array holds w from offset p on.
Holds(b, p, w) == p + Len(w) <= b.size /\ \A i \in 1..Len(w) : Data(b)[p + i] = w[i]

\* A read of k bytes of the array: they are returned behind what was, or it crashes.
Took(b, k, r) ==
    /\ r \in ByteArrays /\ Shape(r) /\ r.mem = b.mem /\ r.size = b.size
    /\ ~r.crash => /\ ~r.threw /\ r.little = b.little /\ r.position = b.position + k
                   /\ r.io = b.io \o SubSeq(Data(b), b.position + 1, b.position + k)

LEMMA TookIs ==
  ASSUME NEW b \in ByteArrays, Shape(b), Alive(b), NEW k \in Nat, b.position + k <= b.size,
         NEW r, r = read(b, k)
  PROVE  Took(b, k, r)
  <1>1. k \in 0..getReadSize(b)
    <2>1. b.position \in Nat /\ b.size \in Nat
      BY DEF ByteArrays
    <2> QED BY <2>1 DEF getReadSize
  <1>2. ~b.crash /\ ~b.threw
    BY DEF Alive
  <1>3. r.crash \/ (r.little = b.little /\ ~r.threw)
    <2>1. CASE ~OnList(b, k)
      BY <1>1, <2>1 DEF read, Alive, Crash, ByteArrays
    <2>2. CASE OnList(b, k)
      <3>1. PICK c, p, io : r = [b EXCEPT !.cur = c, !.position = p, !.io = io]
        BY <1>1, <2>2 DEF read, Alive
      <3> QED BY <1>2, <3>1 DEF ByteArrays
    <2> QED BY <2>1, <2>2
  <1>4. /\ r \in ByteArrays /\ Shape(r) /\ r.mem = b.mem /\ r.size = b.size
        /\ \/ r.crash
           \/ /\ ~r.crash /\ r.threw /\ r.position = b.position /\ r.io = b.io
           \/ /\ ~r.crash /\ ~r.threw /\ k \in 0..(b.size - b.position)
              /\ r.position = b.position + k
              /\ r.io = b.io \o SubSeq(Data(b), b.position + 1, b.position + k)
    BY ReadIs, ZenonT(60)
  <1> QED BY <1>3, <1>4 DEF Took

\* A read behind a read is a read of the bytes of both.
LEMMA TookThen ==
  ASSUME NEW b \in ByteArrays, Shape(b), NEW k \in Nat, NEW a, Took(b, k, a), ~a.crash,
         NEW n \in Nat, b.position + k + n <= b.size, NEW r, r = read(a, n)
  PROVE  Took(b, k + n, r)
  <1>1. /\ a \in ByteArrays /\ Shape(a) /\ Alive(a) /\ a.size = b.size /\ a.mem = b.mem
        /\ a.position = b.position + k /\ a.little = b.little
        /\ a.io = b.io \o SubSeq(Data(b), b.position + 1, b.position + k)
    BY DEF Took, Alive
  <1>2. Took(a, n, r)
    BY <1>1, TookIs
  <1>3. Got(b, a)
    <2>1. a.position \in b.position..b.size
      <3>1. b.position \in Nat /\ b.size \in Nat
        BY DEF ByteArrays
      <3> QED BY <1>1, <3>1, SMTT(30)
    <2> QED BY <1>1, <2>1 DEF Got
  <1>4. Got(b, r)
    BY <1>3, GotThen
  <1>5. ASSUME ~r.crash PROVE r.position = b.position + (k + n)
    <2>1. b.position \in Nat
      BY DEF ByteArrays
    <2> QED BY <1>1, <1>2, <1>5, <2>1 DEF Took
  <1>6. ASSUME ~r.crash PROVE ~r.threw /\ r.little = b.little
    BY <1>1, <1>2, <1>6 DEF Took
  <1> QED BY <1>4, <1>5, <1>6 DEF Got, Took

\* What is held is what is read.
LEMMA HeldPart ==
  ASSUME NEW b \in ByteArrays, Shape(b), NEW w \in Seq(Byte), NEW p \in Nat, Holds(b, p, w)
  PROVE  SubSeq(Data(b), p + 1, p + Len(w)) = w
  <1>1. PICK D \in Seq(Byte), s \in Nat, n \in Nat, q \in Nat :
          D = Data(b) /\ s = Len(D) /\ s = b.size /\ n = Len(w) /\ q = p + n /\ p <= q /\ q <= s
    <2>1. Data(b) \in Seq(Byte) /\ Len(Data(b)) = b.size /\ b.size \in Nat
      BY DataIs DEF ByteArrays
    <2>2. Len(w) \in Nat
      BY LenProperties
    <2>3. p + Len(w) \in Nat /\ p <= p + Len(w) /\ p + Len(w) <= b.size
      BY <2>2 DEF Holds
    <2> QED BY <2>1, <2>2, <2>3
  <1>2. PICK x : x = SubSeq(D, p + 1, q)
    OBVIOUS
  <1>3. x \in Seq(Byte) /\ Len(x) = q - p /\ \A i \in 1..(q - p) : x[i] = D[p + i]
    <2>1. D \in Seq(Byte) /\ p \in Nat /\ q \in Nat /\ p <= q /\ q <= Len(D)
      BY <1>1
    <2>2. /\ SubSeq(D, p + 1, q) \in Seq(Byte) /\ Len(SubSeq(D, p + 1, q)) = q - p
          /\ \A i \in 1..(q - p) : SubSeq(D, p + 1, q)[i] = D[p + i]
      BY ONLY <2>1, PartOf, ZenonT(60)
    <2> QED BY <1>2, <2>2
  <1>4. q - p = n
    BY <1>1
  <1>5. ASSUME NEW i \in 1..n PROVE x[i] = w[i]
    BY <1>1, <1>3, <1>4 DEF Holds
  <1>6. x = [i \in 1..n |-> x[i]]
    BY <1>3, <1>4
  <1>7. w = [i \in 1..n |-> w[i]]
    BY <1>1
  <1>8. x = w
    BY <1>5, <1>6, <1>7
  <1> QED BY <1>1, <1>2, <1>8

\* A varint has the continuation bit in all its bytes but the last.
LEMMA VarintEnds ==
  ASSUME NEW x \in Number, NEW w, w = VarintBytes(x), NEW n, n = Len(w)
  PROVE  n \in Nat /\ n > 0 /\ w[n] < More /\ \A i \in 1..(n - 1) : ~(w[i] < More)
  <1> DEFINE S == {k \in 1..AllGroups : x < More ^ k} \cup {AllGroups}
  <1>1. x \in Int
    <2>1. \A v \in Int : EncodeZigzag32(v) \in Int /\ EncodeZigzag64(v) \in Int
      BY PowerAssumption DEF EncodeZigzag32, EncodeZigzag64
    <2> QED BY <2>1 DEF Number
  <1>2. AllGroups \in Nat \ {0}
    BY ByteArrayAssumption DEF AllGroups
  <1>3. PICK m : m = Min(S)
    OBVIOUS
  <1>4. m \in 1..AllGroups
    <2>1. S \subseteq 1..AllGroups /\ S # {} /\ S \subseteq Nat
      BY <1>2
    <2> HIDE DEF S
    <2> QED BY <1>3, <2>1, MinIn
  <1> DEFINE y(i) == x \div More ^ (i - 1)
  <1>5. w = [i \in 1..m |-> (y(i) % More) + (IF i < m THEN More ELSE 0)]
    BY <1>3 DEF VarintBytes
  <1>6. ASSUME NEW i \in 1..m PROVE y(i) % More \in 0..(More - 1)
    <2>1. PICK k \in 0..AllGroups : k = i - 1
      BY <1>2, <1>4
    <2>2. PICK d \in Nat \ {0} : d = More ^ k
      BY PowerAssumption
    <2>3. x \div d \in Int
      BY <1>1
    <2>4. y(i) \in Int
      BY <2>1, <2>2, <2>3
    <2> HIDE DEF y
    <2> QED BY <2>4, PowerAssumption
  <1> HIDE DEF y
  <1>7. n = m
    BY <1>4, <1>5
  <1>8. w[m] = y(m) % More
    BY <1>4, <1>5, <1>6
  <1>9. ASSUME NEW i \in 1..(m - 1) PROVE w[i] = (y(i) % More) + More
    BY <1>4, <1>5
  <1>10. ASSUME NEW i \in 1..(m - 1) PROVE ~(w[i] < More)
    <2>1. i \in 1..m
      BY <1>4
    <2> QED BY <1>6, <1>9, <2>1, PowerAssumption
  <1>11. w[m] < More
    <2>1. m \in 1..m
      BY <1>4
    <2> QED BY <1>6, <1>8, <2>1, PowerAssumption
  <1> QED BY <1>4, <1>7, <1>10, <1>11

\* The least of a set with an end.
LEMMA MinIs ==
  ASSUME NEW S, S \subseteq Nat, NEW n \in S, \A i \in S : n <= i
  PROVE  Min(S) = n
  <1>1. PICK m : m = Min(S)
    OBVIOUS
  <1>2. m \in S /\ m <= n
    BY <1>1, MinIn
  <1>3. m \in Nat /\ n \in Nat /\ n <= m
    BY <1>2
  <1> QED BY <1>1, <1>2, <1>3

\* So readVarint stops where the varint ends.
LEMMA VarintRead ==
  ASSUME NEW b \in ByteArrays, Shape(b), Alive(b), NEW x \in Number, NEW w \in Seq(Byte),
         w = VarintBytes(x), Len(w) <= MaxGroups, Holds(b, b.position, w)
  PROVE  Took(b, Len(w), readVarint(b))
  <1>1. PICK n \in Nat : /\ n = Len(w) /\ n > 0 /\ w[n] < More
                         /\ \A i \in 1..(n - 1) : ~(w[i] < More)
    BY VarintEnds
  <1>2. PICK p \in Nat, s \in Nat : p = b.position /\ s = b.size /\ p + n <= s
    BY <1>1 DEF ByteArrays, Holds
  <1>3. MaxGroups \in Nat
    BY ByteArrayAssumption DEF MaxGroups
  <1>4. PICK most \in Nat : most = Min({MaxGroups, getReadSize(b)}) /\ n <= most /\ p + most <= s
    <2>1. getReadSize(b) = s - p /\ s - p \in Nat /\ n <= s - p /\ n <= MaxGroups
      BY <1>1, <1>2 DEF getReadSize
    <2>2. Min({MaxGroups, s - p}) = IF MaxGroups <= s - p THEN MaxGroups ELSE s - p
      BY <1>3, <2>1, MinOfTwo
    <2> QED BY <1>2, <1>3, <2>1, <2>2
  <1>5. PICK a : a = BytesAt(b, b.cur, b.position % BaseSize, most)
    OBVIOUS
  <1>6. ASSUME NEW i \in 1..n PROVE a[i] = w[i]
    <2>1. b.cur = p \div BaseSize + 1
      <3>1. n <= getReadSize(b) /\ ~b.crash
        BY <1>2 DEF getReadSize, Alive
      <3> QED BY <1>1, <1>2, <3>1, CurLook
    <2>2. a = SubSeq(Data(b), p + 1, p + most)
      <3>1. p + most <= b.size /\ (most > 0 => b.cur = p \div BaseSize + 1)
        BY <1>2, <1>4, <2>1
      <3>2. BytesAt(b, b.cur, p % BaseSize, most) = SubSeq(Data(b), p + 1, p + most)
        BY ONLY <3>1, b \in ByteArrays, Shape(b), p \in Nat, most \in Nat, LookIs, SMTT(30)
      <3> QED BY <1>2, <1>5, <3>2
    <2>3. PICK D \in Seq(Byte), q \in Nat : D = Data(b) /\ q = p + most /\ p <= q /\ q <= Len(D) /\ q - p = most
      <3>1. Data(b) \in Seq(Byte) /\ Len(Data(b)) = s
        BY <1>2, DataIs
      <3>2. p + most \in Nat /\ p <= p + most /\ (p + most) - p = most
        OBVIOUS
      <3> QED BY <1>4, <3>1, <3>2
    <2>4. \A z \in 1..(q - p) : SubSeq(D, p + 1, q)[z] = D[p + z]
      <3>1. D \in Seq(Byte) /\ p \in Nat /\ q \in Nat /\ p <= q /\ q <= Len(D)
        BY <2>3
      <3> QED BY ONLY <3>1, PartAt, ZenonT(60)
    <2>5. i \in 1..(q - p)
      BY <1>4, <2>3
    <2>6. a[i] = Data(b)[p + i]
      BY <2>2, <2>3, <2>4, <2>5
    <2>7. Data(b)[p + i] = w[i]
      BY <1>1, <1>2 DEF Holds
    <2> QED BY <2>6, <2>7
  <1>7. PICK ends : ends = {i \in 1..most : a[i] < More}
    OBVIOUS
  <1>8. n \in ends /\ \A i \in ends : n <= i
    <2>1. n \in 1..n /\ n \in 1..most
      BY <1>1, <1>4
    <2>2. n \in ends
      BY <1>1, <1>6, <1>7, <2>1
    <2>3. ASSUME NEW i \in ends, i < n PROVE FALSE
      <3>1. i \in 1..(n - 1) /\ i \in 1..n
        BY <1>7, <2>3
      <3> QED BY <1>1, <1>6, <1>7, <3>1
    <2>4. ends \subseteq Nat
      BY <1>7
    <2> QED BY <2>2, <2>3, <2>4
  <1>9. Min(ends \cup {most}) = n
    <2>1. ends \cup {most} \subseteq Nat /\ n \in ends \cup {most}
      BY <1>7, <1>8
    <2>2. \A i \in ends \cup {most} : n <= i
      BY <1>4, <1>8
    <2> QED BY <2>1, <2>2, MinIs
  <1>10. readVarint(b) = read(b, n)
    <2>1. most # 0 /\ ends # {}
      BY <1>1, <1>4, <1>8
    <2> QED BY <1>4, <1>5, <1>7, <1>9, <2>1 DEF readVarint
  <1>11. b.position + n <= b.size
    BY <1>2
  <1> QED BY <1>1, <1>10, <1>11, TookIs

\* The bytes of a fixed number are put in the order of the array and taken out of it again.
LEMMA OrderedTwice ==
  ASSUME NEW x \in Int, NEW n \in Nat, NEW e
  PROVE  /\ Len(Ordered(e, HostBytes(x, n))) = n
         /\ Ordered(e, Ordered(e, HostBytes(x, n))) = HostBytes(x, n)
  <1>1. PICK h \in Seq(Byte) : h = HostBytes(x, n)
    <2>1. PICK b : b = [little |-> TRUE]
      OBVIOUS
    <2>2. InOrder(b, HostBytes(x, n)) = HostBytes(x, n)
      BY <2>1 DEF InOrder
    <2> QED BY <2>2, HostBytesAre
  <1>2. Len(h) = n
    BY <1>1 DEF HostBytes
  <1>3. PICK r : r = Reverse(h)
    OBVIOUS
  <1>4. r = [i \in 1..n |-> h[(n - i) + 1]]
    BY <1>2, <1>3 DEF Reverse
  <1>5. r \in Seq(Byte) /\ Len(r) = n
    <2>1. \A i \in 1..n : h[(n - i) + 1] \in Byte
      BY <1>2, ElementOfSeq
    <2> QED BY <1>4, <2>1
  <1>6. Reverse(r) = [i \in 1..n |-> r[(n - i) + 1]]
    BY <1>5 DEF Reverse
  <1>7. ASSUME NEW i \in 1..n PROVE r[(n - i) + 1] = h[i]
    <2>1. (n - i) + 1 \in 1..n /\ (n - ((n - i) + 1)) + 1 = i
      OBVIOUS
    <2> QED BY <1>4, <2>1
  <1>8. h = [i \in 1..n |-> h[i]]
    BY <1>2
  <1>9. Reverse(r) = h
    BY <1>6, <1>7, <1>8
  <1> QED BY <1>1, <1>2, <1>3, <1>5, <1>9 DEF Ordered

\* Only the fixed types of a number have a sign bit to find.
LEMMA Unsigned ==
  ASSUME NEW t, t \notin DOMAIN FixedWidth
  PROVE  /\ t \notin Signed
         /\ \A x, w : FixedExact(x, w) => Returned(t, HostValue(HostBytes(x, w))) = x
  <1>1. t \notin Signed
    BY DEF Signed, FixedWidth
  <1> QED BY <1>1 DEF Returned, FixedExact

\* What NumbersExact says of one value.
LEMMA NumIs ==
  ASSUME NumbersExact, NEW s \in Samples, Faithful(s[1], s[2])
  PROVE  /\ s[1] \in Varints => VarintExact(Num(s[1], s[2]))
         /\ s[1] \notin Varints => Returned(s[1], HostValue(HostBytes(Num(s[1], s[2]), Width(s[1]))))
                                     = Num(s[1], s[2])
         /\ s[1] \notin Varints /\ s[1] \notin Signed => FixedExact(Num(s[1], s[2]), Width(s[1]))
  <1>1. PICK t, v : t \in Types /\ t = s[1] /\ v = s[2]
    BY FrontIs
  <1>2. CASE t \in DOMAIN FixedWidth
    <2>2. t \notin Strings /\ t \notin {"Uint32", "Uint64", "Int32", "Int64"}
          /\ t \notin DOMAIN FloatWidth
      BY <1>2, TypesApart
    <2>3. t \notin Varints /\ t # "Int32" /\ t # "Int64" /\ t # "Uint32" /\ t # "Uint64" /\ t # "Vint"
      BY <2>2 DEF Varints, Strings
    <2>1. Returned(t, HostValue(HostBytes(v[1], FixedWidth[t]))) = v[1]
      BY <1>1, <1>2, <2>2, <2>3 DEF NumbersExact
    <2>4. Num(t, v) = v[1] /\ Width(t) = FixedWidth[t]
      BY <1>2, <2>2, <2>3 DEF Num, Width
    <2>5. t \notin Signed => FixedExact(v[1], FixedWidth[t])
      BY <2>1 DEF Returned, FixedExact
    <2> QED BY <1>1, <2>1, <2>3, <2>4, <2>5
  <1>3. CASE t \in DOMAIN FloatWidth
    <2>2. t \notin Strings /\ t \notin {"Uint32", "Uint64", "Int32", "Int64"}
          /\ t \notin DOMAIN FixedWidth
      BY <1>3, TypesApart
    <2>3. t \notin Varints /\ t # "Int32" /\ t # "Int64" /\ t # "Uint32" /\ t # "Uint64" /\ t # "Vint"
      BY <2>2 DEF Varints, Strings
    <2>1. FixedExact(v[1], FloatWidth[t])
      BY <1>1, <1>3, <2>2, <2>3 DEF NumbersExact
    <2>4. Num(t, v) = v[1] /\ Width(t) = FloatWidth[t]
      BY <1>3, <2>2, <2>3 DEF Num, Width
    <2> QED BY <1>1, <2>1, <2>2, <2>3, <2>4, Unsigned
  <1>4. CASE t \in {"Uint32", "Uint64", "Int32", "Int64"}
    <2>1. t \notin DOMAIN FixedWidth /\ t \notin DOMAIN FloatWidth /\ t \notin Strings
      BY <1>4, TypesApart
    <2>2. t \in Varints
      BY <1>4 DEF Varints
    <2>3. VarintExact(Num(t, v))
      <3>1. CASE t \in {"Uint32", "Uint64"}
        BY <1>1, <2>1, <3>1 DEF NumbersExact, Num
      <3>2. CASE t = "Int32"
        BY <1>1, <2>1, <3>2 DEF NumbersExact, Num
      <3>3. CASE t = "Int64"
        BY <1>1, <2>1, <3>3 DEF NumbersExact, Num
      <3> QED BY <1>4, <3>1, <3>2, <3>3
    <2> QED BY <1>1, <2>2, <2>3
  <1>5. CASE t \in Strings
    <2>1. t \notin DOMAIN FixedWidth /\ t \notin DOMAIN FloatWidth
          /\ t \notin {"Uint32", "Uint64", "Int32", "Int64"}
      BY <1>5, TypesApart
    <2>2. Num(t, v) = Len(v) /\ Width(t) = LengthWidth[t] /\ (t \in Varints <=> t = "Vint")
      BY <1>5, <2>1 DEF Num, Width, Varints
    <2>3. CASE t = "Vint"
      <3>1. VarintExact(Len(v))
        BY <1>1, <2>1, <2>3 DEF NumbersExact
      <3> QED BY <1>1, <2>2, <2>3, <3>1
    <2>4. CASE t # "Vint"
      <3>1. FixedExact(Len(v), LengthWidth[t])
        BY <1>1, <2>1, <2>4 DEF NumbersExact
      <3> QED BY <1>1, <2>1, <2>2, <2>4, <3>1, Unsigned
    <2> QED BY <2>3, <2>4
  <1> QED BY <1>1, <1>2, <1>3, <1>4, <1>5 DEF Types

\* A read of the number at the position: its bytes, and the number.
LEMMA FrontRead ==
  ASSUME NumbersExact, NEW b \in ByteArrays, Shape(b), Alive(b), b.io = << >>,
         NEW s \in Samples, Faithful(s[1], s[2]), NEW t, t = s[1], NEW w,
         w = FrontBytes(t, s[2], b.little), Holds(b, b.position, w), NEW a,
         a = IF t \in Varints THEN readVarint(b) ELSE readFixed(b, Width(t))
  PROVE  /\ w \in Seq(Byte) /\ Took(b, Len(w), a)
         /\ ~a.crash => /\ a.io = w
                        /\ t \notin Signed => Num(t, s[2]) = IF t \in Varints THEN VarintValue(a.io)
                                                            ELSE FixedValue(a, a.io)
  <1>1. PICK u \in Seq(Byte), x \in Number, n \in Nat : u = w /\ x = Num(t, s[2]) /\ n = Len(u)
    BY FrontIs, LenProperties
  <1>2. ASSUME Took(b, n, a), ~a.crash PROVE a.io = u /\ a.little = b.little
    <2>1. PICK p \in Nat : p = b.position
      BY DEF ByteArrays
    <2>2. SubSeq(Data(b), p + 1, p + n) = u
      BY <1>1, <2>1, HeldPart
    <2>3. << >> \o u = u
      BY ConcatEmptySeq
    <2> QED BY <1>2, <2>1, <2>2, <2>3 DEF Took
  <1>3. CASE t \in Varints
    <2>1. u = VarintBytes(x) /\ Len(u) <= MaxGroups /\ VarintValue(u) = x
      BY <1>1, <1>3, NumIs DEF FrontBytes, VarintExact
    <2>2. Took(b, n, a)
      BY <1>1, <1>3, <2>1, VarintRead
    <2> QED BY <1>1, <1>2, <1>3, <2>1, <2>2
  <1>4. CASE t \notin Varints
    <2>1. PICK k \in Nat, y \in Int : k = Width(t) /\ y = x
      BY <1>1, <1>4, FrontIs
    <2>2. /\ u = Ordered(b.little, HostBytes(y, k))
          /\ t \notin Signed => HostValue(HostBytes(y, k)) = y
      BY <1>1, <1>4, <2>1, NumIs DEF FrontBytes, FixedExact
    <2>3. n = k /\ Ordered(b.little, u) = HostBytes(y, k)
      BY <1>1, <2>2, OrderedTwice
    <2>4. b.position + k <= b.size
      BY <1>1, <2>3 DEF Holds
    <2>5. Took(b, n, a)
      BY <1>4, <2>1, <2>3, <2>4, TookIs DEF readFixed
    <2>6. a.little = b.little /\ t \notin Signed => FixedValue(a, u) = y
      BY <2>2, <2>3 DEF FixedValue, InOrder, Ordered
    <2> QED BY <1>1, <1>2, <1>4, <2>1, <2>5, <2>6
  <1> QED BY <1>3, <1>4

\* A read of a value where the array holds it takes all its bytes, or crashes.
LEMMA DecodeCoded ==
  ASSUME NumbersExact, NEW b \in ByteArrays, Shape(b), Alive(b), b.io = << >>,
         NEW s \in Samples, Faithful(s[1], s[2]),
         Holds(b, b.position, Coded(s[1], s[2], b.little)), NEW r, r = Decode(b, s[1]), ~r.crash
  PROVE  r.io = Coded(s[1], s[2], b.little) /\ r.little = b.little /\ ~r.threw
  <1>1. PICK t \in Types, v \in Seq(Byte), u \in Seq(Byte), w \in Seq(Byte) :
          /\ t = s[1] /\ v = s[2] /\ u = FrontBytes(t, v, b.little) /\ w = Coded(t, v, b.little)
    BY FrontIs
  <1>2. PICK a : a = IF t \in Varints THEN readVarint(b) ELSE readFixed(b, Width(t))
    OBVIOUS
  <1>3. PICK n : n = IF t \in Varints THEN VarintValue(a.io) ELSE FixedValue(a, a.io)
    OBVIOUS
  <1>4. r = IF t \in Strings /\ Alive(a) THEN read(a, n) ELSE a
    BY <1>1, <1>2, <1>3, DecodeSplit
  <1>5. PICK p \in Nat, k \in Nat, m \in Nat : p = b.position /\ k = Len(u) /\ m = Len(v)
    BY LenProperties DEF ByteArrays
  <1>6. ASSUME Holds(b, p, u)
        PROVE  Took(b, k, a) /\ (~a.crash => a.io = u /\ (t \notin Signed => n = Num(t, v)))
    BY <1>1, <1>2, <1>3, <1>5, <1>6, FrontRead
  <1>7. CASE t \notin Strings
    <2>1. w = u /\ r = a
      BY <1>1, <1>4, <1>7 DEF Coded
    <2>2. Holds(b, p, u)
      BY <1>1, <1>5, <2>1
    <2> QED BY <1>1, <1>6, <2>1, <2>2 DEF Took
  <1>8. CASE t \in Strings
    <2>1. w = u \o v
      BY <1>1, <1>8 DEF Coded
    <2>2. Len(w) = k + m /\ \A i \in 1..k : w[i] = u[i]
      BY <1>5, <2>1, ConcatProperties
    <2>3. Holds(b, p, w)
      BY <1>1, <1>5
    <2>4. Holds(b, p, u)
      <3>1. p + (k + m) <= b.size /\ b.size \in Nat
        BY <2>2, <2>3 DEF Holds, ByteArrays
      <3>2. p + k <= b.size
        BY <3>1
      <3>3. \A i \in 1..k : i \in 1..(k + m)
        OBVIOUS
      <3>4. ASSUME NEW i \in 1..k PROVE Data(b)[p + i] = u[i]
        BY <2>2, <2>3, <3>3 DEF Holds
      <3> QED BY <1>5, <3>2, <3>4 DEF Holds
    <2>5. Took(b, k, a) /\ (~a.crash => a.io = u /\ n = Num(t, v))
      BY <1>6, <1>8, <2>4, TypesApart, Unsigned
    <2>6. Alive(a)
      BY <1>4, <2>5 DEF Took, Alive
    <2>7. r = read(a, m)
      BY <1>4, <1>5, <1>8, <2>5, <2>6 DEF Num, Alive
    <2>8. p + k + m <= b.size
      BY <2>2, <2>3 DEF Holds
    <2>9. Took(b, k + m, r)
      <3>1. ~a.crash
        BY <2>6 DEF Alive
      <3> QED BY <1>5, <2>5, <2>7, <2>8, <3>1, TookThen
    <2>10. r.io = w
      <3>1. SubSeq(Data(b), p + 1, p + (k + m)) = w
        BY <2>2, <2>3, HeldPart
      <3>2. << >> \o w = w
        BY ConcatEmptySeq
      <3> QED BY <1>5, <2>9, <3>1, <3>2 DEF Took
    <2> QED BY <1>1, <2>9, <2>10 DEF Took
  <1> QED BY <1>7, <1>8

\* What comes behind the first part.
LEMMA Behind ==
  ASSUME NEW u \in Seq(Byte), NEW v \in Seq(Byte), NEW k, k = Len(u)
  PROVE  SubSeq(u \o v, k + 1, Len(u \o v)) = v
  <1>1. PICK m \in Nat, n \in Nat : m = Len(v) /\ n = k + m /\ k \in Nat
    BY LenProperties
  <1>2. PICK w \in Seq(Byte) : /\ w = u \o v /\ Len(w) = n
                               /\ \A i \in 1..n : w[i] = IF i <= k THEN u[i] ELSE v[i - k]
    <2>1. /\ u \o v \in Seq(Byte) /\ Len(u \o v) = Len(u) + Len(v)
          /\ \A i \in 1..(Len(u) + Len(v)) :
               (u \o v)[i] = IF i <= Len(u) THEN u[i] ELSE v[i - Len(u)]
      BY ConcatProperties, Zenon
    <2> QED BY <1>1, <2>1
  <1>3. PICK x : x = SubSeq(w, k + 1, n)
    OBVIOUS
  <1>4. x \in Seq(Byte) /\ Len(x) = m /\ \A i \in 1..m : x[i] = w[k + i]
    <2>1. w \in Seq(Byte) /\ k \in Nat /\ n \in Nat /\ k <= n /\ n <= Len(w) /\ n - k = m
      BY <1>1, <1>2
    <2>2. /\ SubSeq(w, k + 1, n) \in Seq(Byte) /\ Len(SubSeq(w, k + 1, n)) = n - k
          /\ \A i \in 1..(n - k) : SubSeq(w, k + 1, n)[i] = w[k + i]
      BY <2>1, PartOf
    <2> QED BY <1>3, <2>1, <2>2
  <1>5. ASSUME NEW i \in 1..m PROVE x[i] = v[i]
    <2>1. k + i \in 1..n /\ ~(k + i <= k) /\ (k + i) - k = i
      BY <1>1
    <2> QED BY <1>2, <1>4, <2>1
  <1>6. x = [i \in 1..m |-> x[i]]
    BY <1>4
  <1>7. v = [i \in 1..m |-> v[i]]
    BY <1>1
  <1>8. x = v
    BY <1>5, <1>6, <1>7
  <1> QED BY <1>2, <1>3, <1>8

\* The value of these bytes is the one that was written.
LEMMA ValueIs ==
  ASSUME NumbersExact, NEW s \in Samples, Faithful(s[1], s[2]), NEW r,
         r.io = Coded(s[1], s[2], r.little)
  PROVE  ValueOf(r, s[1]) = s[2]
  <1>1. PICK t \in Types, v \in Seq(Int) : t = s[1] /\ v = s[2] /\ (t \in Strings \/ Len(v) = 1)
    BY SamplesAssumption
  <1>2. PICK u \in Seq(Byte) : u = FrontBytes(t, v, r.little)
    BY <1>1, FrontIs
  <1>3. t \notin Strings => v[1] \in Int /\ v = <<v[1]>> /\ r.io = u
    <2>1. t \notin Strings => r.io = u
      BY <1>1, <1>2 DEF Coded
    <2> QED BY <1>1, <2>1
  <1>4. t \in Varints => u = VarintBytes(Num(t, v)) /\ VarintValue(u) = Num(t, v)
    BY <1>1, <1>2, NumIs DEF FrontBytes, VarintExact
  <1>5. t \notin Varints =>
            Returned(t, HostValue(Ordered(r.little, u))) = Num(t, v) /\ Len(u) = Width(t)
    <2> SUFFICES ASSUME t \notin Varints
                 PROVE  /\ Returned(t, HostValue(Ordered(r.little, u))) = Num(t, v)
                        /\ Len(u) = Width(t)
      OBVIOUS
    <2>1. PICK x \in Int, k \in Nat : x = Num(t, v) /\ k = Width(t)
      BY <1>1, FrontIs
    <2>2. /\ u = Ordered(r.little, HostBytes(x, k))
          /\ Returned(t, HostValue(HostBytes(x, k))) = x
      BY <1>1, <1>2, <2>1, NumIs DEF FrontBytes, FixedExact
    <2> QED BY <2>1, <2>2, OrderedTwice
  <1>6. CASE t \in DOMAIN FixedWidth \cup DOMAIN FloatWidth
    <2>1. t \notin Strings /\ t \notin {"Uint32", "Uint64", "Int32", "Int64"}
      BY <1>6, TypesApart
    <2>2. t \notin Varints /\ t # "Int32" /\ t # "Int64" /\ t # "Uint32" /\ t # "Uint64" /\ t # "Vint"
      BY <2>1 DEF Varints, Strings
    <2>3. ValueOf(r, t) = <<Returned(t, FixedValue(r, r.io))>>
      BY <1>6, <2>2 DEF ValueOf
    <2>4. Returned(t, FixedValue(r, r.io)) = v[1]
      BY <1>3, <1>5, <2>1, <2>2 DEF FixedValue, InOrder, Ordered, Num
    <2> QED BY <1>1, <1>3, <2>1, <2>3, <2>4
  <1>7. CASE t \in {"Uint32", "Uint64", "Int32", "Int64"}
    <2>1. t \notin DOMAIN FixedWidth /\ t \notin DOMAIN FloatWidth /\ t \notin Strings
      BY <1>7, TypesApart
    <2>2. t \in Varints
      BY <1>7 DEF Varints
    <2>3. VarintValue(r.io) = Num(t, v)
      BY <1>3, <1>4, <2>1, <2>2
    <2>4. CASE t = "Uint32"
      <3>1. v[1] % Range32 = v[1] /\ Num(t, v) = v[1]
        BY <1>1, <2>1, <2>4 DEF NumbersExact, Num
      <3>2. ValueOf(r, t) = <<VarintValue(r.io) % Range32>>
        BY <2>1, <2>4 DEF ValueOf
      <3> QED BY <1>1, <1>3, <2>1, <2>3, <3>1, <3>2
    <2>5. CASE t = "Uint64"
      <3>1. v[1] % Range64 = v[1] /\ Num(t, v) = v[1]
        BY <1>1, <2>1, <2>5 DEF NumbersExact, Num
      <3>2. ValueOf(r, t) = <<VarintValue(r.io) % Range64>>
        BY <2>1, <2>5 DEF ValueOf
      <3> QED BY <1>1, <1>3, <2>1, <2>3, <3>1, <3>2
    <2>6. CASE t = "Int32"
      <3>1. DecodeZigzag(Num(t, v) % Range32) = v[1]
        BY <1>1, <2>1, <2>6 DEF NumbersExact, Num
      <3>2. ValueOf(r, t) = <<DecodeZigzag(VarintValue(r.io) % Range32)>>
        BY <2>1, <2>6 DEF ValueOf
      <3> QED BY <1>1, <1>3, <2>1, <2>3, <3>1, <3>2
    <2>7. CASE t = "Int64"
      <3>1. DecodeZigzag(Num(t, v)) = v[1]
        BY <1>1, <2>1, <2>7 DEF NumbersExact, Num
      <3>2. ValueOf(r, t) = <<DecodeZigzag(VarintValue(r.io))>>
        BY <2>1, <2>7 DEF ValueOf
      <3> QED BY <1>1, <1>3, <2>1, <2>3, <3>1, <3>2
    <2> QED BY <1>7, <2>4, <2>5, <2>6, <2>7
  <1>8. CASE t \in Strings
    <2>1. t \notin DOMAIN FixedWidth /\ t \notin DOMAIN FloatWidth
          /\ t \notin {"Uint32", "Uint64", "Int32", "Int64"}
      BY <1>8, TypesApart
    <2>2. v \in Seq(Byte)
      BY <1>1, FrontIs
    <2>3. r.io = u \o v
      BY <1>1, <1>2, <1>8 DEF Coded
    <2>4. SubSeq(u \o v, Len(u) + 1, Len(u \o v)) = v
      BY <2>2, Behind
    <2>5. CASE t = "Vint"
      <3>1. PICK n \in Nat : /\ n = Len(u) /\ n > 0 /\ u[n] < More
                             /\ \A i \in 1..(n - 1) : ~(u[i] < More)
        <4>1. t \in Varints /\ Num(t, v) \in Number
          BY <1>1, <2>5, FrontIs DEF Varints
        <4> QED BY <1>4, <4>1, VarintEnds
      <3>2. PICK io \in Seq(Byte) : io = r.io /\ n <= Len(io) /\ \A i \in 1..n : io[i] = u[i]
        <4>1. /\ u \o v \in Seq(Byte) /\ Len(u \o v) = Len(u) + Len(v)
              /\ \A i \in 1..(Len(u) + Len(v)) :
                   (u \o v)[i] = IF i <= Len(u) THEN u[i] ELSE v[i - Len(u)]
          BY <2>2, ConcatProperties, Zenon
        <4>2. Len(u) \in Nat /\ Len(v) \in Nat
          BY <2>2, LenProperties
        <4>3. \A i \in 1..n : i \in 1..(Len(u) + Len(v)) /\ i <= Len(u)
          BY <3>1, <4>2
        <4>4. \A i \in 1..n : (u \o v)[i] = u[i]
          BY <4>1, <4>3
        <4>5. n <= Len(u \o v)
          BY <3>1, <4>1, <4>2
        <4> QED BY <2>3, <4>1, <4>4, <4>5
      <3>3. PICK S : S = {i \in 1..Len(io) : io[i] < More}
        OBVIOUS
      <3>4. Min(S) = n
        <4>1. n \in 1..n /\ n \in 1..Len(io) /\ Len(io) \in Nat
          BY <3>1, <3>2, LenProperties
        <4>2. n \in S /\ S \subseteq Nat
          BY <3>1, <3>2, <3>3, <4>1
        <4>3. ASSUME NEW i \in S, i < n PROVE FALSE
          <5>1. i \in 1..(n - 1) /\ i \in 1..n
            BY <3>3, <4>3
          <5> QED BY <3>1, <3>2, <3>3, <5>1
        <4>4. \A i \in S : n <= i
          BY <4>2, <4>3
        <4> QED BY <4>2, <4>4, MinIs
      <3>5. ValueOf(r, t) = SubSeq(r.io, n + 1, Len(r.io))
        BY <2>1, <2>5, <3>2, <3>3, <3>4 DEF ValueOf
      <3> QED BY <1>1, <2>3, <2>4, <3>1, <3>5
    <2>6. CASE t # "Vint"
      <3>1. t \notin Varints /\ Width(t) = LengthWidth[t]
        BY <2>1, <2>6 DEF Varints, Width
      <3>2. ValueOf(r, t) = SubSeq(r.io, LengthWidth[t] + 1, Len(r.io))
        BY <2>1, <2>6 DEF ValueOf
      <3> QED BY <1>1, <1>5, <2>3, <2>4, <3>1, <3>2
    <2> QED BY <2>5, <2>6
  <1> QED BY <1>6, <1>7, <1>8 DEF Types

\* A record of a written value says where its bytes are, and they are there.
RecordOk(b, r) ==
    /\ r.from \in Nat
    /\ \E s \in Samples : r.type = s[1] /\ r.value = s[2]
    /\ r.to = r.from + Len(Coded(r.type, r.value, r.little))
    /\ Holds(b, r.from, Coded(r.type, r.value, r.little))
RecordsOk(b, R) == ~b.crash => \A r \in R : RecordOk(b, r)

\* The records outlive every step that leaves their bytes alone.
Keeps(b, c) == c.crash \/ (c.mem = b.mem /\ c.size >= b.size)

LEMMA RecordsKept ==
  ASSUME NEW b \in ByteArrays, Shape(b), ~b.crash, NEW c \in ByteArrays, Shape(c), Keeps(b, c),
         NEW R, RecordsOk(b, R), NEW Q \in SUBSET R
  PROVE  RecordsOk(c, Q)
  <1> SUFFICES ASSUME ~c.crash, NEW r \in Q PROVE RecordOk(c, r)
    BY DEF RecordsOk
  <1>1. RecordOk(b, r)
    BY DEF RecordsOk
  <1>2. PICK w : w = Coded(r.type, r.value, r.little)
    OBVIOUS
  <1>3. w \in Seq(Byte)
    BY <1>1, <1>2, FrontIs DEF RecordOk
  <1>4. PICK p \in Nat, k \in Nat, m \in Nat, n \in Nat :
          p = r.from /\ k = Len(w) /\ m = b.size /\ n = c.size /\ p + k <= m /\ m <= n
    <2>1. b.size \in Nat /\ c.size \in Nat /\ Len(w) \in Nat
      BY <1>3, LenProperties DEF ByteArrays
    <2> QED BY <1>1, <1>2, <2>1 DEF RecordOk, Holds, Keeps
  <1>5. ASSUME NEW i \in 1..k PROVE Data(c)[p + i] = w[i]
    <2>1. p + i \in 1..m /\ p + i \in 1..n
      BY <1>4
    <2>2. Data(c)[p + i] = Cell(c, (p + i) - 1) /\ Data(b)[p + i] = Cell(b, (p + i) - 1)
      BY <1>4, <2>1 DEF Data
    <2>3. Cell(c, (p + i) - 1) = Cell(b, (p + i) - 1)
      BY DEF Keeps, Cell
    <2> QED BY <1>1, <1>2, <1>4, <2>2, <2>3 DEF RecordOk, Holds
  <1>6. Holds(c, p, w)
    BY <1>4, <1>5 DEF Holds
  <1> QED BY <1>1, <1>2, <1>4, <1>6 DEF RecordOk

\* And every write, if they are before its bytes or behind them; and the bytes written are
\* there.
LEMMA HoldsWrote ==
  ASSUME NEW b \in ByteArrays, Shape(b), NEW f \in ByteArrays, Shape(f),
         f.position = b.position, f.size = b.size, Data(f) = Data(b),
         NEW w \in Seq(Byte), NEW c, Wrote(f, w, c), ~c.crash
  PROVE  /\ c.position = b.position + Len(w)
         /\ Holds(c, b.position, w)
         /\ \A p \in Nat : \A v \in Seq(Byte) :
              Holds(b, p, v) /\ (p + Len(v) <= b.position \/ p >= b.position + Len(w))
                => Holds(c, p, v)
  <1>1. PICK q \in Nat, m \in Nat, k \in Nat, n \in Nat, D \in Seq(Byte) :
          /\ q = b.position /\ m = b.size /\ k = Len(w) /\ n = c.size /\ D = Data(b)
          /\ Len(D) = m /\ q <= m
    <2>1. b.position \in Nat /\ b.size \in Nat /\ c.size \in Nat /\ Len(w) \in Nat
      BY LenProperties DEF ByteArrays, Wrote
    <2>2. Data(b) \in Seq(Byte) /\ Len(Data(b)) = b.size
      BY DataIs
    <2> QED BY <2>1, <2>2 DEF Shape
  <1>2. c.position = q + k /\ Data(c) = Flat!Overwrite(D, q, w)
    BY <1>1 DEF Wrote
  <1>3. Len(Data(c)) = n
    <2>1. c \in ByteArrays /\ Shape(c)
      BY DEF Wrote
    <2> QED BY <1>1, <2>1, DataIs
  <1>4. PICK E : E = Data(c)
    OBVIOUS
  <1>5. /\ n = IF q + k > m THEN q + k ELSE m
        /\ \A i \in 1..n : E[i] = IF i > q /\ i <= q + k THEN w[i - q] ELSE D[i]
    <2>1. q <= Len(D)
      BY <1>1
    <2>2. /\ Len(Flat!Overwrite(D, q, w)) = IF q + Len(w) > Len(D) THEN q + Len(w) ELSE Len(D)
          /\ \A i \in 1..Len(Flat!Overwrite(D, q, w)) :
               Flat!Overwrite(D, q, w)[i] = IF i > q /\ i <= q + Len(w) THEN w[i - q] ELSE D[i]
      BY <2>1, OverwriteIs, Zenon
    <2>3. E = Flat!Overwrite(D, q, w) /\ Len(E) = n
      BY <1>2, <1>3, <1>4
    <2> QED BY <1>1, <2>2, <2>3
  <1>6. Holds(c, q, w)
    <2>1. q + k <= n
      BY <1>5
    <2>2. ASSUME NEW i \in 1..k PROVE E[q + i] = w[i]
      <3>1. q + i \in 1..n /\ q + i > q /\ q + i <= q + k /\ (q + i) - q = i
        BY <2>1
      <3> QED BY <1>5, <3>1
    <2> QED BY <1>1, <1>4, <2>1, <2>2 DEF Holds
  <1>7. ASSUME NEW p \in Nat, NEW v \in Seq(Byte), Holds(b, p, v),
               p + Len(v) <= q \/ p >= q + k
        PROVE  Holds(c, p, v)
    <2>1. PICK l \in Nat : l = Len(v) /\ p + l <= m /\ (p + l <= q \/ p >= q + k)
      BY <1>1, <1>7, LenProperties DEF Holds
    <2>2. p + l <= n
      BY <1>5, <2>1
    <2>3. ASSUME NEW i \in 1..l PROVE E[p + i] = v[i]
      <3>1. p + i \in 1..n /\ ~(p + i > q /\ p + i <= q + k)
        BY <2>1, <2>2
      <3>2. E[p + i] = D[p + i]
        BY <1>5, <3>1
      <3>3. D[p + i] = v[i]
        BY <1>1, <1>7, <2>1 DEF Holds
      <3> QED BY <3>2, <3>3
    <2> QED BY <1>1, <1>4, <2>1, <2>2, <2>3 DEF Holds
  <1> QED BY <1>1, <1>2, <1>6, <1>7

LEMMA RecordsWrote ==
  ASSUME NEW b \in ByteArrays, Shape(b), ~b.crash, NEW w \in Seq(Byte), NEW c,
         Wrote(Fresh(b), w, c), ~c.crash, NEW R, RecordsOk(b, R)
  PROVE  \A r \in R : r.to <= b.position \/ r.from >= c.position => RecordOk(c, r)
  <1> SUFFICES ASSUME NEW r \in R, r.to <= b.position \/ r.from >= c.position
               PROVE  RecordOk(c, r)
    OBVIOUS
  <1>1. RecordOk(b, r)
    BY DEF RecordsOk
  <1>2. PICK v : v = Coded(r.type, r.value, r.little)
    OBVIOUS
  <1>3. v \in Seq(Byte)
    BY <1>1, <1>2, FrontIs DEF RecordOk
  <1>4. PICK f \in ByteArrays : f = Fresh(b) /\ Shape(f) /\ Data(f) = Data(b)
                                /\ f.position = b.position /\ f.size = b.size
    BY FreshIs
  <1>5. /\ c.position = b.position + Len(w)
        /\ \A p \in Nat : \A x \in Seq(Byte) :
              Holds(b, p, x) /\ (p + Len(x) <= b.position \/ p >= b.position + Len(w))
                => Holds(c, p, x)
    BY <1>4, HoldsWrote
  <1>6. r.from \in Nat /\ r.to = r.from + Len(v) /\ Holds(b, r.from, v)
    BY <1>1, <1>2 DEF RecordOk
  <1>7. Holds(c, r.from, v)
    BY <1>3, <1>5, <1>6
  <1> QED BY <1>1, <1>2, <1>7 DEF RecordOk

\* Reading, moving and looking keep the blocks.
LEMMA SetKeeps ==
  ASSUME NEW b \in ByteArrays, NEW v \in Nat, NEW r, r = setPostion(b, v)
  PROVE  Keeps(b, r) /\ \A x : Keeps(b, [r EXCEPT !.io = x])
  <1>1. PICK s \in Nat : s = b.size
    BY DEF ByteArrays
  <1>2. PICK z \in Nat : z = Max({s, v}) /\ z >= s
    <2>1. PICK y \in Nat : y = (IF v > s THEN v ELSE s) /\ y >= s
      OBVIOUS
    <2> QED BY <2>1, MaxOfTwo
  <1>3. CASE v > b.capacity
    <2>1. r = [b EXCEPT !.threw = TRUE]
      BY <1>3 DEF setPostion, Throw
    <2>2. r.mem = b.mem /\ r.size = s
      BY <1>1, <2>1 DEF ByteArrays
    <2>3. \A x : [r EXCEPT !.io = x].mem = b.mem /\ [r EXCEPT !.io = x].size = s
      BY <1>1, <2>1 DEF ByteArrays
    <2> QED BY <1>1, <2>2, <2>3 DEF Keeps
  <1>4. CASE ~(v > b.capacity)
    <2>1. PICK c : r = [b EXCEPT !.position = v, !.size = z, !.cur = c]
      BY <1>1, <1>2, <1>4 DEF setPostion, ByteArrays
    <2>2. r.mem = b.mem /\ r.size = z
      BY <2>1 DEF ByteArrays
    <2>3. \A x : [r EXCEPT !.io = x].mem = b.mem /\ [r EXCEPT !.io = x].size = z
      BY <2>1 DEF ByteArrays
    <2> QED BY <1>1, <1>2, <2>2, <2>3 DEF Keeps
  <1> QED BY <1>3, <1>4

LEMMA LookKeeps ==
  ASSUME NEW b \in ByteArrays
  PROVE  /\ Keeps(b, toString(b)) /\ Keeps(b, writeToFile(b)) /\ Keeps(b, b)
         /\ Keeps(b, setLittleEndian(b, ~b.little)) /\ \A x : Keeps(b, [b EXCEPT !.io = x])
         /\ \A n, p : Keeps(b, readAt(b, n, p)) /\ Keeps(b, getReadBuffersAt(b, n, p))
  <1>1. b.size \in Nat
    BY DEF ByteArrays
  <1>2. \A x : Keeps(b, [b EXCEPT !.io = x])
    BY <1>1 DEF ByteArrays, Keeps
  <1>3. Keeps(b, b)
    BY <1>1 DEF Keeps
  <1>4. Keeps(b, Throw(b)) /\ Keeps(b, Crash(b))
    BY <1>1 DEF ByteArrays, Keeps, Throw, Crash
  <1>5. Keeps(b, toString(b))
    BY <1>2, <1>3, <1>4 DEF toString, readAt
  <1>6. Keeps(b, writeToFile(b))
    BY <1>2, <1>4 DEF writeToFile
  <1>7. Keeps(b, setLittleEndian(b, ~b.little))
    BY <1>1 DEF ByteArrays, Keeps, setLittleEndian
  <1>8. ASSUME NEW n, NEW p PROVE Keeps(b, readAt(b, n, p)) /\ Keeps(b, getReadBuffersAt(b, n, p))
    BY <1>2, <1>4 DEF readAt, getReadBuffersAt
  <1> QED BY <1>2, <1>3, <1>5, <1>6, <1>7, <1>8

\* The calls of the program, by what becomes of the records.
LEMMA CallKeeps ==
  ASSUME StreamInv, BANext
  PROVE  \/ \E s \in Samples : WriteValue(s[1], s[2])
         \/ Keeps(ba, ba') /\ recs' = recs
         \/ \E w \in Seq(Byte) : /\ ba' = write(Fresh(ba), w) /\ ~ba.crash
                                 /\ recs' = IF ba'.crash THEN {} ELSE Kept(ba.position, ba'.position)
         \/ recs' = {}
  <1>1. PICK b \in ByteArrays : b = ba /\ Shape(b)
    BY DEF StreamInv
  <1>2. PICK f \in ByteArrays : f = Fresh(b) /\ Shape(f)
    BY <1>1, FreshIs
  <1>3. f.mem = b.mem /\ f.size = b.size
    BY <1>1, <1>2, FreshIs
  <1>4. ASSUME NEW c, Keeps(f, c) PROVE Keeps(b, c)
    BY <1>3, <1>4 DEF Keeps
  <1>5. ASSUME NEW c, Got(f, c) PROVE Keeps(b, c)
    <2>1. b.size \in Nat
      BY DEF ByteArrays
    <2> QED BY <1>3, <1>5, <2>1 DEF Got, Keeps
  <1>6. ASSUME NEW s \in Samples, ReadValue(s[1]) PROVE Keeps(ba, ba') /\ recs' = recs
    <2>1. ba' = Decode(f, s[1]) /\ recs' = recs
      BY <1>1, <1>2, <1>6 DEF ReadValue, Call
    <2>2. s[1] \in Types
      BY SamplesAssumption
    <2> QED BY <1>1, <1>2, <1>5, <2>1, <2>2, DecodeIs
  <1>7. ASSUME NEW n \in RawSizes, ReadRaw(n) PROVE Keeps(ba, ba') /\ recs' = recs
    <2>1. ba' = read(f, n) /\ recs' = recs
      BY <1>1, <1>2, <1>7 DEF ReadRaw, Call
    <2>2. Got(f, f)
      BY <1>2, GotNothing
    <2>3. Got(f, read(f, n))
      BY <1>2, <2>2, GotThen
    <2> QED BY <1>1, <1>5, <2>1, <2>3
  <1>8. ASSUME NEW v \in Positions, SetPostion(v) PROVE Keeps(ba, ba') /\ recs' = recs
    <2>1. ba' = setPostion(f, v) /\ recs' = recs /\ v \in Nat
      BY <1>1, <1>2, <1>8, ByteArrayAssumption DEF SetPostion, Call
    <2> QED BY <1>1, <1>2, <1>4, <2>1, SetKeeps
  <1>9. ASSUME SetEndian PROVE Keeps(ba, ba') /\ recs' = recs
    <2>1. ba' = setLittleEndian(f, ~b.little) /\ recs' = recs
      BY <1>1, <1>2, <1>9 DEF SetEndian, Call
    <2>2. f.little = b.little
      BY <1>2 DEF Fresh, ByteArrays
    <2> QED BY <1>1, <1>2, <1>4, <2>1, <2>2, LookKeeps
  <1>10. ASSUME Look PROVE Keeps(ba, ba') /\ recs' = recs
    <2>1. /\ recs' = recs
          /\ \/ ba' = toString(f) \/ ba' = writeToFile(f)
             \/ \E x : ba' = [f EXCEPT !.io = x]
      BY <1>1, <1>2, <1>10 DEF Look, Call
    <2> QED BY <1>1, <1>2, <1>4, <2>1, LookKeeps
  <1>11. ASSUME NEW n, NEW p, ReadAt(n, p) \/ GetReadBuffersAt(n, p)
         PROVE  Keeps(ba, ba') /\ recs' = recs
    <2>1. recs' = recs /\ (ba' = readAt(f, n, p) \/ ba' = getReadBuffersAt(f, n, p))
      BY <1>1, <1>2, <1>11 DEF ReadAt, GetReadBuffersAt, LookAt, Call
    <2> QED BY <1>1, <1>2, <1>4, <2>1, LookKeeps
  <1>12. ASSUME NEW n \in RawSizes, OpenFile(n) PROVE Keeps(ba, ba') /\ recs' = recs
    <2>1. ba' = f /\ recs' = recs
      BY <1>1, <1>2, <1>12 DEF OpenFile, Call
    <2> QED BY <1>1, <1>2, <1>4, <2>1, LookKeeps
  <1>13. ASSUME Clear PROVE recs' = {}
    BY <1>13 DEF Clear
  <1>14. ASSUME NEW n \in RawSizes, WriteRaw(n)
         PROVE  \E w \in Seq(Byte) : /\ ba' = write(Fresh(ba), w) /\ ~ba.crash
                                     /\ recs' = IF ba'.crash THEN {} ELSE Kept(ba.position, ba'.position)
    <2>1. PICK w \in Seq(Byte) : w = Payload(n)
      BY PayloadIs, ByteArrayAssumption
    <2>2. /\ ba' = write(Fresh(ba), w) /\ ~ba.crash
          /\ recs' = IF ba'.crash THEN {} ELSE Kept(ba.position, ba'.position)
      BY <1>14, <2>1 DEF WriteRaw, Call, writeString
    <2> QED BY <2>1, <2>2
  <1>15. ASSUME ReadFile
         PROVE  \E w \in Seq(Byte) : /\ ba' = write(Fresh(ba), w) /\ ~ba.crash
                                     /\ recs' = IF ba'.crash THEN {} ELSE Kept(ba.position, ba'.position)
    <2>1. PICK w \in Seq(Byte), l \in Nat : w = file /\ l = Len(w)
      BY LenProperties DEF StreamInv
    <2>2. PICK k \in Nat : k = Min({BaseSize, l}) /\ k <= l
      <3>1. BaseSize \in Nat
        BY ByteArrayAssumption
      <3> QED BY <2>1, <3>1, MinOfTwo
    <2>3. PICK x \in Seq(Byte) : x = SubSeq(w, 1, k)
      BY <2>1, <2>2, RestOf
    <2>4. /\ ba' = write(Fresh(ba), x) /\ ~ba.crash
          /\ recs' = IF ba'.crash THEN {} ELSE Kept(ba.position, ba'.position)
      BY <1>15, <2>1, <2>2, <2>3 DEF ReadFile, readFromFile
    <2> QED BY <2>3, <2>4
  <1> QED BY <1>6, <1>7, <1>8, <1>9, <1>10, <1>11, <1>12, <1>13, <1>14, <1>15 DEF BANext

\* While the socket fills the array there are no records: those it would overwrite were
\* dropped when the call began.
ReadInv ==
    /\ RecordsOk(ba, recs)
    /\ call.op = "readBA" /\ call.left > 0 => recs = {}

\* A value written is a record of its own; those it was not written over stay.
LEMMA WriteValueRecords ==
  ASSUME StreamInv, RecordsOk(ba, recs), NEW s \in Samples, WriteValue(s[1], s[2])
  PROVE  RecordsOk(ba', recs')
  <1>1. PICK b \in ByteArrays : b = ba /\ Shape(b) /\ ~b.crash
    BY DEF StreamInv, WriteValue, Call
  <1>2. PICK f \in ByteArrays : /\ f = Fresh(b) /\ Shape(f) /\ Alive(f) /\ Data(f) = Data(b)
                                /\ f.position = b.position /\ f.size = b.size /\ f.little = b.little
    <2>1. Fresh(b).little = b.little
      BY DEF Fresh, ByteArrays
    <2> QED BY <1>1, <2>1, FreshIs DEF Alive
  <1>3. PICK c : c = Encode(f, s[1], s[2])
    OBVIOUS
  <1>4. /\ ba' = c
        /\ recs' = IF c.crash THEN {}
                   ELSE Kept(b.position, c.position) \cup
                        {[from |-> b.position, to |-> c.position, type |-> s[1],
                          value |-> s[2], little |-> b.little]}
    BY <1>1, <1>2, <1>3 DEF WriteValue, Call
  <1>5. PICK w \in Seq(Byte) : w = Coded(s[1], s[2], b.little)
    BY FrontIs
  <1>6. Wrote(f, w, c)
    BY <1>2, <1>3, <1>5, EncodeCoded
  <1> SUFFICES ASSUME ~c.crash, NEW r \in recs' PROVE RecordOk(c, r)
    BY <1>4 DEF RecordsOk
  <1>7. CASE r \in Kept(b.position, c.position)
    <2>1. r \in recs /\ (r.to <= b.position \/ r.from >= c.position)
      BY <1>7 DEF Kept
    <2>2. Wrote(Fresh(b), w, c) /\ RecordsOk(b, recs)
      BY <1>1, <1>2, <1>6
    <2> QED BY <1>1, <2>1, <2>2, RecordsWrote
  <1>8. CASE r = [from |-> b.position, to |-> c.position, type |-> s[1],
                  value |-> s[2], little |-> b.little]
    <2>1. c.position = b.position + Len(w) /\ Holds(c, b.position, w)
      BY <1>1, <1>2, <1>6, HoldsWrote
    <2>2. b.position \in Nat
      BY DEF ByteArrays
    <2> QED BY <1>5, <1>8, <2>1, <2>2 DEF RecordOk
  <1> QED BY <1>4, <1>7, <1>8

\* The records after a call of the program.
LEMMA BARecords ==
  ASSUME StreamInv, StreamInv', RecordsOk(ba, recs), BANext
  PROVE  RecordsOk(ba', recs')
  <1>1. PICK b \in ByteArrays : b = ba /\ Shape(b)
    BY DEF StreamInv
  <1>2. PICK c \in ByteArrays : c = ba' /\ Shape(c)
    BY DEF StreamInv, Shape
  <1>3. CASE \E s \in Samples : WriteValue(s[1], s[2])
    BY <1>3, WriteValueRecords
  <1>4. CASE Keeps(ba, ba') /\ recs' = recs
    <2>1. ~b.crash
      BY <1>1, BAMoves
    <2> QED BY <1>1, <1>2, <1>4, <2>1, RecordsKept
  <1>5. ASSUME NEW w \in Seq(Byte), ba' = write(Fresh(ba), w), ~ba.crash,
               recs' = IF ba'.crash THEN {} ELSE Kept(ba.position, ba'.position)
        PROVE  RecordsOk(ba', recs')
    <2>1. PICK f \in ByteArrays : f = Fresh(b) /\ Shape(f) /\ Alive(f)
      BY <1>1, <1>5, FreshIs DEF Alive
    <2>2. Wrote(f, w, c)
      <3>1. c = write(f, w)
        BY <1>1, <1>2, <1>5, <2>1
      <3> QED BY <2>1, <3>1, WriteIs
    <2> SUFFICES ASSUME ~c.crash, NEW r \in Kept(b.position, c.position) PROVE RecordOk(c, r)
      BY <1>1, <1>2, <1>5 DEF RecordsOk
    <2>3. r \in recs /\ (r.to <= b.position \/ r.from >= c.position)
      BY DEF Kept
    <2> QED BY <1>1, <1>5, <2>1, <2>2, <2>3, RecordsWrote
  <1>6. CASE recs' = {}
    BY <1>6 DEF RecordsOk
  <1> QED BY <1>3, <1>4, <1>5, <1>6, CallKeeps

\* The results of the socket change neither the op of a call nor the records.
LEMMA AfterOp ==
  ASSUME CallOk(call), NEW rt, NEW got, After(rt, got)
  PROVE  call' = NoCall \/ call'.op = call.op
  BY DEF After, CallOk, Calls

LEMMA ReadInvStep ==
  ASSUME StreamInv, ReadInv, [Next]_vars
  PROVE  ReadInv'
  <1>1. StreamInv'
    BY StepIs
  <1>2. PICK b \in ByteArrays, c \in ByteArrays : b = ba /\ Shape(b) /\ c = ba' /\ Shape(c)
    BY <1>1 DEF StreamInv, Shape
  <1>3. CallOk(call) /\ NoCall.op = "none"
    BY DEF StreamInv, NoCall
  <1>4. ASSUME RecordsOk(ba', recs'), call'.op = "readBA" /\ call'.left > 0 => recs' = {}
        PROVE  ReadInv'
    BY <1>4 DEF ReadInv, RecordsOk, RecordOk, Holds, Data, Cell
  <1>5. ASSUME UNCHANGED <<ba, recs>>, call' = NoCall \/ call'.op # "readBA" \/ call' = call
        PROVE  ReadInv'
    <2>1. call'.op = "readBA" => call' = call
      BY <1>3, <1>5
    <2> QED BY <1>4, <1>5, <2>1 DEF ReadInv
  <1>6. CASE UNCHANGED vars \/ PeerSend \/ PeerClose \/ Close
    <2>1. UNCHANGED <<ba, recs, call>>
      BY <1>6 DEF vars, baVars, streamVars, PeerSend, PeerClose, Close
    <2> QED BY <1>5, <2>1
  <1>7. CASE call.left = 0 /\ BANext /\ call' = NoCall
    <2>1. RecordsOk(ba', recs')
      BY <1>1, <1>7, BARecords DEF ReadInv
    <2> QED BY <1>3, <1>4, <1>7, <2>1
  <1>8. CASE \E op \in Ops, n \in FixSizes : Begin(op, n)
    <2>1. PICK op \in Ops, n \in FixSizes : Begin(op, n)
      BY <1>8
    <2>2. ~b.crash /\ c = Fresh(b) /\ recs' = IF op = "readBA" THEN {} ELSE recs
      BY <1>2, <2>1 DEF Begin
    <2>3. Keeps(b, c)
      <3>1. b.size \in Nat
        BY DEF ByteArrays
      <3> QED BY <1>2, <2>2, <3>1, FreshIs DEF Keeps
    <2>4. RecordsOk(c, recs')
      <3>1. RecordsOk(b, recs) /\ recs' \in SUBSET recs
        BY <1>2, <2>2 DEF ReadInv
      <3> QED BY <1>2, <2>2, <2>3, <3>1, RecordsKept
    <2>5. call'.op = op
      <3>1. call' = [NoCall EXCEPT !.op = op, !.length = n, !.left = n, !.from = ba.position]
        BY <2>1 DEF Begin
      <3> QED BY <3>1 DEF NoCall
    <2> QED BY <1>2, <1>4, <2>2, <2>4, <2>5
  <1>9. CASE ReadBuffer \/ WriteBuffer
    <2>1. UNCHANGED <<ba, recs>> /\ call.op # "readBA" /\ \E rt, got : After(rt, got)
      BY <1>9 DEF ReadBuffer, WriteBuffer, baVars
    <2> QED BY <1>3, <1>5, <2>1, AfterOp
  <1>10. CASE ReadByteArray
    <2>1. recs' = {}
      BY <1>10 DEF ReadByteArray, ReadInv
    <2> QED BY <1>4, <2>1 DEF RecordsOk
  <1>11. CASE WriteByteArray
    <2>1. PICK rt, out : ba' = ba \/ \E v \in Nat : ba' = [setPostion(b, v) EXCEPT !.io = out]
      <3>1. PICK rt, out :
              /\ rt \in SendResults(Len(Gather(ba, getReadBuffers(ba, call.left))))
              /\ ba' = IF rt <= 0 THEN b ELSE [setPostion(b, b.position + rt) EXCEPT !.io = out]
        BY <1>2, <1>11, Zenon DEF WriteByteArray
      <3>2. rt \in Int
        BY <3>1 DEF SendResults
      <3>3. b.position \in Nat
        BY DEF ByteArrays
      <3>4. CASE rt <= 0
        BY <1>2, <3>1, <3>4
      <3>5. CASE ~(rt <= 0)
        <4>1. b.position + rt \in Nat
          BY <3>2, <3>3, <3>5
        <4>2. ba' = [setPostion(b, b.position + rt) EXCEPT !.io = out]
          BY <3>1, <3>5
        <4> QED BY <4>1, <4>2
      <3> QED BY <3>4, <3>5
    <2>2. recs' = recs /\ call.op = "writeBA" /\ \E n, got : After(n, got)
      BY <1>11, Zenon DEF WriteByteArray
    <2>3. Keeps(b, c)
      <3>1. CASE ba' = ba
        BY <1>2, <3>1, LookKeeps
      <3>2. ASSUME NEW v \in Nat, ba' = [setPostion(b, v) EXCEPT !.io = out] PROVE Keeps(b, c)
        BY <1>2, <3>2, SetKeeps
      <3> QED BY <2>1, <3>1, <3>2
    <2>4. ~b.crash
      BY <1>2, <1>11, WriteByteArrayMoves
    <2>5. RecordsOk(c, recs')
      BY <1>2, <2>2, <2>3, <2>4, RecordsKept DEF ReadInv
    <2>6. call'.op # "readBA"
      BY <1>3, <2>2, AfterOp
    <2> QED BY <1>2, <1>4, <2>5, <2>6
  <1> QED BY <1>6, <1>7, <1>8, <1>9, <1>10, <1>11 DEF Next, StreamStep

\* A read where a value is recorded decodes the bytes that are there.
LEMMA ReadValueBack ==
  ASSUME NumbersExact, StreamInv, ReadInv, NEW z \in Samples, ReadValue(z[1])
  PROVE  ReadBack'
  <1>1. PICK b \in ByteArrays : b = ba /\ Shape(b) /\ ~b.crash
    BY DEF StreamInv, ReadValue, Call
  <1>2. PICK f \in ByteArrays : /\ f = Fresh(b) /\ Shape(f) /\ Alive(f) /\ Data(f) = Data(b)
                                /\ f.position = b.position /\ f.size = b.size /\ f.little = b.little
                                /\ f.io = << >>
    <2>1. Fresh(b).little = b.little
      BY DEF Fresh, ByteArrays
    <2> QED BY <1>1, <2>1, FreshIs DEF Alive
  <1>3. PICK t, c : t = z[1] /\ c = Decode(f, t)
    OBVIOUS
  <1>4. PICK H : H = {r \in recs : r.from = b.position /\ r.type = t /\ r.little = b.little}
    OBVIOUS
  <1>5. reply' = IF c.crash THEN NoReply
                 ELSE [type |-> t, want |-> {r.value : r \in H},
                       got |-> IF c.threw THEN {} ELSE {ValueOf(c, t)}, at |-> 0]
    BY <1>1, <1>2, <1>3, <1>4 DEF ReadValue
  <1>6. CASE c.crash
    BY <1>5, <1>6 DEF ReadBack, NoReply
  <1>7. CASE ~c.crash
    <2>1. ASSUME NEW r \in H, Faithful(t, r.value) PROVE ~c.threw /\ ValueOf(c, t) = r.value
      <3>1. r \in recs /\ r.from = b.position /\ r.type = t /\ r.little = b.little
        BY <1>4
      <3>2. RecordOk(b, r)
        BY <1>1, <3>1 DEF ReadInv, RecordsOk
      <3>3. PICK s \in Samples : t = s[1] /\ r.value = s[2]
        BY <3>1, <3>2 DEF RecordOk
      <3>4. PICK w \in Seq(Byte) : w = Coded(s[1], s[2], f.little)
        BY FrontIs
      <3>5. Holds(f, f.position, w)
        <4>1. Coded(r.type, r.value, r.little) = w
          BY <1>2, <3>1, <3>3, <3>4
        <4>2. Holds(b, b.position, w)
          BY <3>1, <3>2, <4>1 DEF RecordOk
        <4> QED BY <1>2, <4>2 DEF Holds
      <3>6. Faithful(s[1], s[2])
        BY <2>1, <3>3
      <3>7. c.io = w /\ c.little = f.little /\ ~c.threw
        BY <1>2, <1>3, <1>7, <3>3, <3>4, <3>5, <3>6, DecodeCoded
      <3>8. c.io = Coded(s[1], s[2], c.little)
        BY <3>4, <3>7
      <3>9. ValueOf(c, s[1]) = s[2]
        BY <3>6, <3>8, ValueIs
      <3> QED BY <3>3, <3>7, <3>9
    <2>2. reply' = [type |-> t, want |-> {r.value : r \in H},
                    got |-> IF c.threw THEN {} ELSE {ValueOf(c, t)}, at |-> 0]
      BY <1>5, <1>7
    <2>3. PICK y : y = reply'
      OBVIOUS
    <2>4. ASSUME NEW v \in y.want, Faithful(y.type, v) PROVE y.got = {v}
      <3>1. PICK r \in H : v = r.value
        BY <2>2, <2>3
      <3>2. y.type = t /\ y.got = IF c.threw THEN {} ELSE {ValueOf(c, t)}
        BY <2>2, <2>3
      <3> QED BY <2>1, <2>4, <3>1, <3>2
    <2> QED BY <2>3, <2>4 DEF ReadBack, Faithful
  <1> QED BY <1>6, <1>7

\* No other call says anything.
LEMMA ReadBackStep ==
  ASSUME NumbersExact, StreamInv, ReadInv, [Next]_vars, ReadBack
  PROVE  ReadBack'
  <1>1. CASE reply' = NoReply
    BY <1>1 DEF ReadBack, NoReply
  <1>2. CASE reply' = reply
    BY <1>2 DEF ReadBack, Faithful
  <1>3. CASE UNCHANGED vars \/ PeerSend \/ PeerClose \/ Close
    <2>1. reply' = reply
      BY <1>3 DEF vars, baVars, PeerSend, PeerClose, Close
    <2> QED BY <1>2, <2>1
  <1>4. CASE \E op \in Ops, n \in FixSizes : Begin(op, n)
    <2>1. reply' = NoReply
      BY <1>4 DEF Begin
    <2> QED BY <1>1, <2>1
  <1>5. CASE StreamStep
    <2>1. CASE ReadBuffer
      BY <1>2, <2>1 DEF ReadBuffer, baVars
    <2>2. CASE WriteBuffer
      BY <1>2, <2>2 DEF WriteBuffer, baVars
    <2>3. CASE ReadByteArray
      BY <1>2, <2>3 DEF ReadByteArray
    <2>4. CASE WriteByteArray
      BY <1>2, <2>4 DEF WriteByteArray
    <2> QED BY <1>5, <2>1, <2>2, <2>3, <2>4 DEF StreamStep
  <1>6. CASE BANext
    <2>1. CASE \E s \in Samples : ReadValue(s[1])
      BY <2>1, ReadValueBack
    <2>2. CASE \E s \in Samples : WriteValue(s[1], s[2])
      <3>1. reply' = NoReply
        BY <2>2 DEF WriteValue
      <3> QED BY <1>1, <3>1
    <2>3. CASE \E n \in RawSizes : WriteRaw(n) \/ ReadRaw(n) \/ OpenFile(n)
      <3>1. reply' = NoReply
        BY <2>3 DEF WriteRaw, ReadRaw, OpenFile
      <3> QED BY <1>1, <3>1
    <2>4. CASE \E v \in Positions : SetPostion(v)
      <3>1. reply' = NoReply
        BY <2>4 DEF SetPostion
      <3> QED BY <1>1, <3>1
    <2>5. CASE Clear \/ SetEndian \/ Look
      <3>1. reply' = NoReply
        BY <2>5 DEF Clear, SetEndian, Look
      <3> QED BY <1>1, <3>1
    <2>6. CASE ReadFile
      <3>1. reply' = reply
        BY <2>6 DEF ReadFile
      <3> QED BY <1>2, <3>1
    <2>7. CASE \E n \in RawSizes, p \in Positions : ReadAt(n, p) \/ GetReadBuffersAt(n, p)
      <3>1. reply' = Astray \/ \E p : reply' = LookedAt(p)
        BY <2>7 DEF ReadAt, GetReadBuffersAt, LookAt
      <3> QED BY <3>1 DEF ReadBack, Astray, LookedAt, NoReply
    <2> QED BY <1>6, <2>1, <2>2, <2>3, <2>4, <2>5, <2>6, <2>7 DEF BANext
  <1> QED BY <1>3, <1>4, <1>5, <1>6 DEF Next

(***************************************************************************)
(* Theorems                                                                *)
(***************************************************************************)
\* The array, the socket and the buffers of the beginning.
LEMMA InitIs == Init => StreamInv /\ Flat!Init
  <1> SUFFICES ASSUME Init PROVE StreamInv /\ Flat!Init
    OBVIOUS
  <1>1. PICK junk \in JunkBytes : ba = NewByteArray(junk)
    BY DEF Init, BAInit
  <1>2. PICK x \in Byte : x = junk
    BY DEF Byte
  <1>3. PICK k \in Blocks : k = Block(junk)
    BY <1>2 DEF Block, Blocks
  <1>4. PICK z \in Nat : z = BaseSize /\ z > 0
    BY ByteArrayAssumption
  <1>5. <<k>> \in Seq(Blocks) /\ Len(<<k>>) = 1
    <2>1. k \in Blocks
      BY <1>3
    <2>2. <<k>> \in Seq(Blocks)
      BY ONLY <2>1
    <2> QED BY <2>2
  <1>6. PICK m \in Seq(Blocks) : m = <<k>> /\ Len(m) = 1
    BY <1>5
  <1>7. PICK e \in Seq(Byte) : e = << >>
    BY EmptySeq
  <1>8. ba = [mem |-> m, cur |-> 1, position |-> 0, size |-> 0, capacity |-> z,
              little |-> FALSE, junk |-> x, io |-> e, threw |-> FALSE, crash |-> FALSE]
    BY <1>1, <1>2, <1>3, <1>4, <1>6, <1>7 DEF NewByteArray
  <1>9. ba \in ByteArrays
    BY <1>4, <1>8 DEF ByteArrays
  <1>10. Shape(ba)
    <2>1. 0 \div BaseSize = 0
      BY <1>4
    <2>2. /\ ba.capacity = z /\ ba.mem = m /\ ba.position = 0 /\ ba.size = 0 /\ ba.cur = 1
      BY <1>8
    <2>3. ba.capacity = Len(ba.mem) * BaseSize
      BY <1>4, <1>6, <2>2
    <2> QED BY <1>4, <1>6, <2>1, <2>2, <2>3 DEF Shape
  <1>11. CallOk(call)
    BY StreamAssumption DEF Init, NoCall, CallOk, Calls
  <1>12. buffer \in [Cells -> Byte]
    <2>1. Radix \in Int
      BY ByteArrayAssumption DEF Radix
    <2>2. Untouched \in Byte
      BY <2>1 DEF Untouched, Byte
    <2> QED BY <2>2 DEF Init
  <1>13. file \in Seq(Byte) /\ wire \in Seq(Byte) /\ sent \in Seq(Byte) /\ peer \in Nat
    BY <1>7 DEF Init, BAInit
  <1>14. ba.crash = FALSE /\ ba.size = 0 /\ ba.position = 0 /\ ba.io = << >>
    BY <1>7, <1>8
  <1>15. reply = NoReply /\ PlainReply(reply) /\ Seen = ba.io /\ Asked = ba.position
    BY PlainReplies DEF Init, BAInit, Seen, Asked, NoReply
  <1>16. StreamInv
    BY <1>9, <1>10, <1>11, <1>12, <1>13, <1>14, <1>15 DEF StreamInv
  <1>17. Contents = << >>
    BY <1>14 DEF Contents
  <1>18. Flat!Init
    BY <1>14, <1>17, <1>15 DEF Flat!Init
  <1> QED BY <1>16, <1>18

\* The types, and the shape of the array and of a call in progress: whatever the encodings,
\* the block size, the lengths and the results of the socket.
THEOREM SocketStreamType == Spec => []StreamInv
  <1>1. StreamInv /\ [Next]_vars => StreamInv'
    BY StepIs
  <1> QED BY InitIs, <1>1, PTL DEF Spec

\* write, read, setPostion and addCapacity each move m_cur and m_position on their own, and
\* they always agree: m_cur is the block that holds m_position, null exactly when it is
\* behind the last block, and there are m_capacity / m_baseSize blocks.
THEOREM ByteArrayCurMatches == Spec => []CurMatches
  <1>1. StreamInv => CurMatches
    <2> SUFFICES ASSUME StreamInv PROVE CurMatches
      OBVIOUS
    <2>1. PICK b \in ByteArrays : b = ba /\ Shape(b)
      BY DEF StreamInv
    <2>2. b.position \in Nat
      BY DEF ByteArrays
    <2> QED BY <2>1, <2>2 DEF Shape, CurMatches
  <1> QED BY SocketStreamType, <1>1, PTL

\* The ByteArray implements FlatBuffer: every sequence of reads, writes, moves, buffers and
\* fixed-size calls of a stream, over blocks of any size and values of any encoding, moves
\* the bytes of one contiguous array, each exactly where and as an array would have it.
\* Excepted are the bytes returned by a read with a position that is not in m_position's
\* block, or is behind m_size, and by a getReadBuffers with a position whose range passes
\* m_size: the code takes them from elsewhere. Such a call too changes nothing, or crashes.
THEOREM ByteArrayIsFlat == Spec => FlatBufferSpec
  <1>1. StreamInv /\ [Next]_vars => [Flat!Next]_(Flat!vars)
    <2> SUFFICES ASSUME StreamInv, [Next]_vars PROVE [Flat!Next]_(Flat!vars)
      OBVIOUS
    <2>1. CASE ba' = ba /\ reply' = reply
      BY <2>1 DEF Flat!vars, Contents, Asked, Seen
    <2>2. CASE ~ba.crash /\ Steps(ba, ba', reply')
      <3>1. PICK r : r = ba'
        OBVIOUS
      <3>2. ba \in ByteArrays /\ Shape(ba) /\ ~ba.crash /\ ba' = r
        BY <2>2, <3>1 DEF StreamInv
      <3>3. (PlainReply(reply') /\ Moves(ba, r)) \/ Looks(ba, r, reply')
        BY <2>2, <3>1 DEF Steps
      <3> QED BY <3>2, <3>3, MovesIs, LooksIs
    <2> QED BY <2>1, <2>2, StepIs
  <1> QED BY InitIs, SocketStreamType, <1>1, PTL DEF Spec, FlatBufferSpec, Flat!Spec

\* readFixSize and writeFixSize repeat short reads and writes from where the last one ended.
\* As long as none fails, they have moved length - left bytes, one behind the other and
\* nowhere else, of the buffer or of the ByteArray, and return length when they moved all.
THEOREM StreamFixSizeExact == Spec => []FixSizeExact
  <1>1. Init => FixSizeExact
    BY DEF Init, NoCall, FixSizeExact
  <1>2. StreamInv /\ FixSizeExact /\ [Next]_vars => FixSizeExact'
    BY ExactStep
  <1> QED BY SocketStreamType, <1>1, <1>2, PTL DEF Spec

\* A value is read back where it was written: whatever the block size, the encodings, the
\* calls in between and the results of the socket, as long as nothing has overwritten its
\* bytes. The hypothesis is about the constants only: the loops over the digits of a number
\* give the number back (for a varint, within the groups that the reader takes).
THEOREM StreamReadBack == ASSUME NumbersExact PROVE Spec => []ReadBack
  <1>1. Init => ReadInv /\ ReadBack
    BY DEF Init, BAInit, NoCall, NoReply, ReadInv, RecordsOk, ReadBack
  <1>2. StreamInv /\ ReadInv /\ [Next]_vars => ReadInv'
    BY ReadInvStep
  <1>3. StreamInv /\ ReadInv /\ ReadBack /\ [Next]_vars => ReadBack'
    BY ReadBackStep
  <1> QED BY SocketStreamType, <1>1, <1>2, <1>3, PTL DEF Spec
=============================================================================
