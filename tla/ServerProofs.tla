---------------------------- MODULE ServerProofs ----------------------------
(***************************************************************************)
(* Theorems about the server of Application, for every set of addresses,   *)
(* clients, paths and patterns, every script of the clients and every      *)
(* launch of the program.                                                  *)
(***************************************************************************)
EXTENDS Application, FiniteSetTheorems, SequenceTheorems, TLAPS

(***************************************************************************)
(* Least and greatest numbers                                              *)
(***************************************************************************)
LEMMA NatMin ==
  ASSUME NEW S, S \subseteq Nat, S # {}
  PROVE  \E m \in S : \A n \in S : m <= n
  <1> PICK k \in S : TRUE
    OBVIOUS
  <1> DEFINE B == 0..k
             T == {0..m : m \in S \cap B}
  <1>1. IsFiniteSet(B)
    BY FS_Interval
  <1>2. \A m \in S \cap B : 0..m \in SUBSET B /\ IsFiniteSet(0..m)
    BY FS_Interval
  <1>3. T \subseteq FiniteSubsetsOf(B) /\ T # {}
    BY <1>2 DEF FiniteSubsetsOf
  <1>4. IsWellFoundedOn(StrictSubsetOrdering(B), FiniteSubsetsOf(B))
    BY FS_StrictSubsetOrderingWellFounded
  <1> HIDE DEF T
  <1>5. PICK x \in T : \A y \in T : ~(<<y, x>> \in StrictSubsetOrdering(B))
    BY <1>3, <1>4, WFMin
  <1> USE DEF T
  <1>6. PICK m \in S \cap B : x = 0..m
    OBVIOUS
  <1>7. ASSUME NEW n \in S, n < m PROVE FALSE
    <2>1. 0..n \in T /\ 0..n \subseteq x /\ 0..n # x
      BY <1>7, <1>6
    <2> QED BY <2>1, <1>5, <1>3 DEF StrictSubsetOrdering, FiniteSubsetsOf
  <1> QED BY <1>7, <1>6

\* The least of a set of numbers.
LEMMA MinIn == ASSUME NEW S, S \subseteq Nat, S # {} PROVE Min(S) \in S /\ \A n \in S : Min(S) <= n
  BY NatMin DEF Min

\* A finite set of numbers has a greatest one: the smallest subset without one would have
\* one when an element is taken away.
LEMMA NatMax ==
  ASSUME NEW S, S \subseteq Nat, S # {}, IsFiniteSet(S)
  PROVE  Max(S) \in S /\ \A n \in S : n <= Max(S)
  <1> DEFINE Top(X) == \E m \in X : \A n \in X : n <= m
             Bad == {X \in FiniteSubsetsOf(S) : X # {} /\ ~Top(X)}
  <1>1. IsWellFoundedOn(StrictSubsetOrdering(S), FiniteSubsetsOf(S))
    BY FS_StrictSubsetOrderingWellFounded
  <1>2. ASSUME Bad # {} PROVE FALSE
    <2>1. Bad \subseteq FiniteSubsetsOf(S)
      OBVIOUS
    <2> HIDE DEF Bad
    <2>2. PICK X \in Bad : \A Y \in Bad : ~(<<Y, X>> \in StrictSubsetOrdering(S))
      BY <1>1, <1>2, <2>1, WFMin
    <2> USE DEF Bad
    <2>3. X \subseteq S /\ IsFiniteSet(X) /\ X # {} /\ ~Top(X)
      BY DEF FiniteSubsetsOf
    <2>4. PICK x \in X : TRUE
      BY <2>3
    <2> DEFINE Y == X \ {x}
    <2>5. IsFiniteSet(Y) /\ Y \in FiniteSubsetsOf(S) /\ <<Y, X>> \in StrictSubsetOrdering(S)
      BY <2>3, <2>4, FS_RemoveElement DEF FiniteSubsetsOf, StrictSubsetOrdering
    <2>6. Y = {} \/ Top(Y)
      BY <2>2, <2>5
    <2>7. CASE Y = {}
      BY <2>3, <2>4, <2>7
    <2>8. CASE Top(Y)
      <3>1. PICK m \in Y : \A n \in Y : n <= m
        BY <2>8
      <3>2. CASE m <= x
        <4>1. \A n \in X : n <= x
          BY <2>3, <2>4, <3>1, <3>2
        <4> QED BY <2>3, <2>4, <4>1
      <3>3. CASE x <= m
        <4>1. \A n \in X : n <= m
          BY <2>3, <2>4, <3>1, <3>3
        <4> QED BY <2>3, <3>1, <4>1
      <3> QED BY <2>3, <2>4, <3>1, <3>2, <3>3
    <2> QED BY <2>6, <2>7, <2>8
  <1>3. S \in FiniteSubsetsOf(S)
    BY DEF FiniteSubsetsOf
  <1>4. Top(S)
    BY <1>2, <1>3
  <1> QED BY <1>4 DEF Max

(***************************************************************************)
(* A sequence without one of its elements                                  *)
(***************************************************************************)
LEMMA Removed ==
  ASSUME NEW S, NEW s \in Seq(S), NEW k \in 1..Len(s)
  PROVE  /\ RemoveAt(s, k) \in Seq(S) /\ Len(RemoveAt(s, k)) = Len(s) - 1
         /\ \A j \in 1..(Len(s) - 1) : RemoveAt(s, k)[j] = IF j < k THEN s[j] ELSE s[j + 1]
  <1> DEFINE a == SubSeq(s, 1, k - 1)
             b == SubSeq(s, k + 1, Len(s))
  <1>1. Len(s) \in Nat
    OBVIOUS
  <1>2. a \in Seq(S) /\ Len(a) = k - 1 /\ \A j \in 1..(k - 1) : a[j] = s[j]
    BY <1>1
  <1>3. b \in Seq(S) /\ Len(b) = Len(s) - k /\ \A j \in 1..(Len(s) - k) : b[j] = s[k + j]
    BY <1>1
  <1> HIDE DEF a, b
  <1>4. /\ a \o b \in Seq(S) /\ Len(a \o b) = Len(a) + Len(b)
        /\ \A j \in 1..(Len(a) + Len(b)) : (a \o b)[j] = IF j <= Len(a) THEN a[j] ELSE b[j - Len(a)]
    BY <1>2, <1>3, ConcatProperties
  <1>5. ASSUME NEW j \in 1..(Len(s) - 1) PROVE (a \o b)[j] = IF j < k THEN s[j] ELSE s[j + 1]
    <2>1. (a \o b)[j] = IF j <= k - 1 THEN a[j] ELSE b[j - (k - 1)]
      BY <1>1, <1>2, <1>3, <1>4
    <2>2. CASE j < k
      BY <2>1, <2>2, <1>1, <1>2
    <2>3. CASE ~(j < k)
      <3>1. j - (k - 1) \in 1..(Len(s) - k) /\ k + (j - (k - 1)) = j + 1 /\ ~(j <= k - 1)
        BY <2>3, <1>1
      <3>2. b[j - (k - 1)] = s[j + 1]
        BY <3>1, <1>3
      <3> QED BY <2>1, <2>3, <3>1, <3>2
    <2> QED BY <2>2, <2>3
  <1>6. RemoveAt(s, k) = a \o b
    BY DEF RemoveAt, a, b
  <1>7. Len(a \o b) = Len(s) - 1
    BY <1>1, <1>2, <1>3, <1>4
  <1> QED BY <1>4, <1>5, <1>6, <1>7

(***************************************************************************)
(* The servlets                                                            *)
(***************************************************************************)
When == [at : Nat, slt : Servlets \cup {NoServlet}]

\* A vector s of patterns and a record h of registrations say the same: every pattern of s
\* is registered, once, for the servlet s has for it, and s is in the order of the
\* registrations; and every registered pattern is in s.
Agree(s, h) ==
    /\ s \in Seq(Patterns \X Servlets) /\ h \in [Patterns -> When]
    /\ \A i \in 1..Len(s) : h[s[i][1]].at > 0 /\ h[s[i][1]].slt = s[i][2]
    /\ \A i, j \in 1..Len(s) : i < j => h[s[i][1]].at < h[s[j][1]].at
    /\ \A p \in Patterns : h[p] # Never => \E i \in 1..Len(s) : s[i][1] = p

DispatchInv == Agree(m_globs, added)

\* The vector without pattern p, which is there once at most.
LEMMA ErasedFacts ==
  ASSUME DispatchInv, NEW p \in Patterns
  PROVE  Agree(Erased(p), [added EXCEPT ![p] = Never])
         /\ \A i \in 1..Len(Erased(p)) : Erased(p)[i][1] # p
  <1> DEFINE s == m_globs
             h == added
             g == [added EXCEPT ![p] = Never]
             I == {i \in 1..Len(s) : s[i][1] = p}
             r == Erased(p)
  <1>1. /\ s \in Seq(Patterns \X Servlets) /\ h \in [Patterns -> When] /\ Len(s) \in Nat
        /\ \A i \in 1..Len(s) : s[i] \in Patterns \X Servlets
        /\ \A i \in 1..Len(s) : h[s[i][1]].at > 0 /\ h[s[i][1]].slt = s[i][2]
        /\ \A i, j \in 1..Len(s) : i < j => h[s[i][1]].at < h[s[j][1]].at
        /\ \A q \in Patterns : h[q] # Never => \E i \in 1..Len(s) : s[i][1] = q
    <2>1. s \in Seq(Patterns \X Servlets)
      BY DEF DispatchInv, Agree
    <2>2. Len(s) \in Nat /\ \A i \in 1..Len(s) : s[i] \in Patterns \X Servlets
      BY <2>1, LenProperties, ElementOfSeq
    <2> QED BY <2>1, <2>2 DEF DispatchInv, Agree
  <1>2. /\ g \in [Patterns -> When] /\ g[p] = Never
        /\ \A q \in Patterns \ {p} : g[q] = h[q]
    BY <1>1 DEF When, Never
  <1>3. Erased(p) = IF I = {} \/ Min(I) = 0 THEN s ELSE RemoveAt(s, Min(I))
    BY DEF Erased, SelectInSeq
  <1> HIDE DEF s, h, g
  <1>4. CASE I = {}
    <2>1. r = s /\ \A i \in 1..Len(s) : s[i][1] # p
      BY <1>3, <1>4
    <2> HIDE DEF r
    <2>2. \A i \in 1..Len(s) : s[i][1] \in Patterns \ {p}
      BY <1>1, <2>1
    <2>3. Agree(r, g)
      BY <1>1, <1>2, <2>1, <2>2 DEF Agree
    <2> QED BY <2>1, <2>3 DEF r, g
  <1>5. CASE I # {}
    <2>1. PICK k : k = Min(I) /\ k \in 1..Len(s) /\ s[k][1] = p
      <3>1. I \subseteq Nat
        BY <1>1
      <3>2. Min(I) \in I
        BY <1>5, <3>1, MinIn
      <3> QED BY <3>2
    <2>2. r = RemoveAt(s, k)
      BY <1>3, <1>5, <2>1, <1>1
    <2> HIDE DEF I, r
    <2>3. /\ r \in Seq(Patterns \X Servlets) /\ Len(r) = Len(s) - 1
          /\ \A j \in 1..(Len(s) - 1) : r[j] = IF j < k THEN s[j] ELSE s[j + 1]
      <3> DEFINE E == Patterns \X Servlets
      <3>1. s \in Seq(E) /\ k \in 1..Len(s)
        BY <1>1, <2>1
      <3> HIDE DEF E
      <3>2. /\ RemoveAt(s, k) \in Seq(E) /\ Len(RemoveAt(s, k)) = Len(s) - 1
            /\ \A j \in 1..(Len(s) - 1) : RemoveAt(s, k)[j] = IF j < k THEN s[j] ELSE s[j + 1]
        BY <3>1, Removed
      <3> QED BY <2>2, <3>2 DEF E
    <2> DEFINE Old(j) == IF j < k THEN j ELSE j + 1
    <2>4. \A j \in 1..Len(r) : Old(j) \in 1..Len(s) /\ Old(j) # k /\ r[j] = s[Old(j)]
      BY <1>1, <2>1, <2>3
    <2>5. \A i, j \in 1..Len(r) : i < j => Old(i) < Old(j)
      BY <1>1, <2>1, <2>3
    <2>6. \A i \in 1..Len(s) : i # k => \E j \in 1..Len(r) : Old(j) = i
      <3> SUFFICES ASSUME NEW i \in 1..Len(s), i # k PROVE \E j \in 1..Len(r) : Old(j) = i
        OBVIOUS
      <3>1. CASE i < k
        <4>1. i \in 1..Len(r) /\ Old(i) = i
          BY <1>1, <2>1, <2>3, <3>1
        <4> QED BY <4>1
      <3>2. CASE i > k
        <4>1. i - 1 \in 1..Len(r) /\ Old(i - 1) = i
          BY <1>1, <2>1, <2>3, <3>2
        <4> QED BY <4>1
      <3> QED BY <1>1, <2>1, <3>1, <3>2
    <2> HIDE DEF Old
    <2>7. \A i \in 1..Len(s) : i # k => s[i][1] \in Patterns \ {p}
      <3> SUFFICES ASSUME NEW i \in 1..Len(s), i # k, s[i][1] = p PROVE FALSE
        BY <1>1
      <3>1. h[s[i][1]].at \in Nat /\ h[s[k][1]].at \in Nat
        BY <1>1, <2>1 DEF When
      <3>2. i < k \/ k < i
        BY <1>1, <2>1
      <3> QED BY <1>1, <2>1, <3>1, <3>2
    <2>8. \A j \in 1..Len(r) : r[j][1] \in Patterns \ {p} /\ g[r[j][1]] = h[s[Old(j)][1]]
      BY <1>2, <2>4, <2>7
    <2>9. \A j \in 1..Len(r) : g[r[j][1]].at > 0 /\ g[r[j][1]].slt = r[j][2]
      BY <1>1, <2>4, <2>8, SMTT(30)
    <2>10. \A i, j \in 1..Len(r) : i < j => g[r[i][1]].at < g[r[j][1]].at
      BY <1>1, <2>4, <2>5, <2>8
    <2>11. ASSUME NEW q \in Patterns, g[q] # Never PROVE \E j \in 1..Len(r) : r[j][1] = q
      <3>1. q # p /\ h[q] # Never
        BY <1>2, <2>11
      <3>2. PICK i \in 1..Len(s) : s[i][1] = q
        BY <1>1, <3>1
      <3>3. i # k
        BY <2>1, <3>1, <3>2
      <3>4. PICK j \in 1..Len(r) : Old(j) = i
        BY <2>6, <3>3
      <3> QED BY <2>4, <3>2, <3>4
    <2>12. Agree(r, g)
      BY <1>2, <2>3, <2>9, <2>10, <2>11 DEF Agree
    <2> QED BY <2>8, <2>12 DEF r, g
  <1> QED BY <1>4, <1>5

\* A new registration is later than all the others.
LEMMA LatestAt ==
  ASSUME added \in [Patterns -> When], NEW p \in Patterns
  PROVE  /\ Max({added[q].at : q \in Patterns}) \in Nat
         /\ \A q \in Patterns : added[q].at <= Max({added[q2].at : q2 \in Patterns})
  <1> DEFINE T == {added[q].at : q \in Patterns}
             f == [q \in Patterns |-> added[q].at]
  <1>1. T \subseteq Nat /\ T # {}
    BY DEF When
  <1>2. f \in Surjection(Patterns, T)
    BY DEF Surjection
  <1>3. IsFiniteSet(T)
    BY <1>2, ServletConstants, FS_Surjection
  <1>4. Max(T) \in T /\ \A n \in T : n <= Max(T)
    <2> HIDE DEF T
    <2> QED BY <1>1, <1>3, NatMax
  <1> QED BY <1>1, <1>4

\* A servlet at the end of the list.
LEMMA AppendAgrees ==
  ASSUME NEW s, NEW h, Agree(s, h), NEW p \in Patterns, NEW v \in Servlets, NEW n \in Nat,
         h[p] = Never, \A i \in 1..Len(s) : s[i][1] # p,
         \A q \in Patterns : h[q].at < n
  PROVE  Agree(Append(s, <<p, v>>), [h EXCEPT ![p] = [at |-> n, slt |-> v]])
  <1> DEFINE e == <<p, v>>
             r == Append(s, e)
             g == [h EXCEPT ![p] = [at |-> n, slt |-> v]]
  <1>1. /\ s \in Seq(Patterns \X Servlets) /\ h \in [Patterns -> When] /\ Len(s) \in Nat
        /\ \A i \in 1..Len(s) : s[i] \in Patterns \X Servlets
        /\ \A i \in 1..Len(s) : h[s[i][1]].at > 0 /\ h[s[i][1]].slt = s[i][2]
        /\ \A i, j \in 1..Len(s) : i < j => h[s[i][1]].at < h[s[j][1]].at
        /\ \A q \in Patterns : h[q] # Never => \E i \in 1..Len(s) : s[i][1] = q
    BY DEF Agree
  <1>2. e \in Patterns \X Servlets /\ e[1] = p /\ e[2] = v
    OBVIOUS
  <1>3. /\ g \in [Patterns -> When] /\ g[p].at = n /\ g[p].slt = v
        /\ \A q \in Patterns \ {p} : g[q] = h[q]
    BY <1>1 DEF When
  <1> HIDE DEF e, g
  <1>4. /\ r \in Seq(Patterns \X Servlets) /\ Len(r) = Len(s) + 1 /\ r[Len(s) + 1] = e
        /\ \A i \in 1..Len(s) : r[i] = s[i]
    BY <1>1, <1>2
  <1> HIDE DEF r
  <1>5. \A i \in 1..Len(s) : s[i][1] \in Patterns \ {p} /\ g[r[i][1]] = h[s[i][1]]
    BY <1>1, <1>3, <1>4
  <1>6. n > 0
    BY <1>1 DEF When
  <1>7. \A i \in 1..Len(r) : i \in 1..Len(s) \/ i = Len(s) + 1
    BY <1>1, <1>4
  <1>8. \A i \in 1..Len(r) : g[r[i][1]].at > 0 /\ g[r[i][1]].slt = r[i][2]
    <2> SUFFICES ASSUME NEW i \in 1..Len(r) PROVE g[r[i][1]].at > 0 /\ g[r[i][1]].slt = r[i][2]
      OBVIOUS
    <2>1. CASE i \in 1..Len(s)
      BY <1>1, <1>4, <1>5, <2>1
    <2>2. CASE i = Len(s) + 1
      BY <1>2, <1>3, <1>4, <1>6, <2>2
    <2> QED BY <1>7, <2>1, <2>2
  <1>9. ASSUME NEW i \in 1..Len(r), NEW j \in 1..Len(r), i < j
        PROVE  g[r[i][1]].at < g[r[j][1]].at
    <2>1. i \in 1..Len(s)
      BY <1>1, <1>4, <1>9
    <2>2. CASE j \in 1..Len(s)
      BY <1>1, <1>5, <1>9, <2>1, <2>2
    <2>3. CASE j = Len(s) + 1
      <3>1. g[r[j][1]].at = n
        BY <1>2, <1>3, <1>4, <2>3
      <3>2. s[i][1] \in Patterns /\ g[r[i][1]].at = h[s[i][1]].at
        BY <1>5, <2>1
      <3> QED BY <3>1, <3>2
    <2> QED BY <1>7, <2>2, <2>3
  <1>10. ASSUME NEW q \in Patterns, g[q] # Never PROVE \E i \in 1..Len(r) : r[i][1] = q
    <2>1. CASE q = p
      <3>1. Len(s) + 1 \in 1..Len(r)
        BY <1>1, <1>4
      <3> QED BY <1>2, <1>4, <2>1, <3>1
    <2>2. CASE q # p
      <3>1. PICK i \in 1..Len(s) : s[i][1] = q
        BY <1>1, <1>3, <1>10, <2>2
      <3>2. i \in 1..Len(r) /\ r[i][1] = q
        BY <1>1, <1>4, <3>1
      <3> QED BY <3>2
    <2> QED BY <2>1, <2>2
  <1>11. Agree(r, g)
    BY <1>3, <1>4, <1>8, <1>9, <1>10 DEF Agree
  <1> QED BY <1>11 DEF r, g, e

\* The empty list.
LEMMA NothingAgrees == Agree(<<>>, [p \in Patterns |-> Never])
  <1>1. <<>> \in Seq(Patterns \X Servlets) /\ Len(<<>>) = 0
    OBVIOUS
  <1>2. [p \in Patterns |-> Never] \in [Patterns -> When]
    BY DEF Never, When
  <1> QED BY <1>1, <1>2 DEF Agree

\* It holds at the start.
LEMMA DispatchInvInit == Init => DispatchInv
  BY NothingAgrees DEF Init, ServerInit, DispatchInit, DispatchInv

\* Every call of the dispatcher keeps it.
LEMMA AdministerAgrees ==
  ASSUME DispatchInv, Administer
  PROVE  DispatchInv'
  <1>1. CASE UNCHANGED <<m_globs, added>>
    BY <1>1 DEF DispatchInv
  <1>2. ASSUME NEW p \in Patterns, NEW v \in Servlets, addGlobServlet(p, v) PROVE DispatchInv'
    <2> DEFINE h == [added EXCEPT ![p] = Never]
               n == 1 + Max({added[q].at : q \in Patterns})
               s == Erased(p)
    <2>1. Agree(s, h) /\ \A i \in 1..Len(s) : s[i][1] # p
      BY ErasedFacts
    <2>2. added \in [Patterns -> When]
      BY DEF DispatchInv, Agree
    <2>3. n \in Nat /\ \A q \in Patterns : added[q].at < n
      <3> DEFINE m == Max({added[q].at : q \in Patterns})
      <3>1. m \in Nat /\ \A q \in Patterns : added[q].at <= m /\ added[q].at \in Nat
        BY <2>2, LatestAt DEF When
      <3> HIDE DEF m
      <3>2. 1 + m \in Nat /\ \A q \in Patterns : added[q].at < 1 + m
        BY <3>1
      <3> QED BY <3>2 DEF m
    <2>4. m_globs' = Append(s, <<p, v>>) /\ added' = [added EXCEPT ![p] = [at |-> n, slt |-> v]]
      BY <1>2 DEF addGlobServlet, Added
    <2> HIDE DEF n, s
    <2>5. h[p] = Never /\ \A q \in Patterns : h[q].at < n
      <3>1. h[p] = Never /\ \A q \in Patterns \ {p} : h[q] = added[q]
        BY <2>2
      <3>2. added[p].at \in Nat /\ added[p].at < n
        BY <2>2, <2>3 DEF When
      <3>3. 0 < n
        BY <2>3, <3>2
      <3>4. Never.at = 0
        BY DEF Never
      <3> HIDE DEF h
      <3> QED BY <2>3, <3>1, <3>3, <3>4
    <2>6. [h EXCEPT ![p] = [at |-> n, slt |-> v]] = added'
      BY <2>2, <2>4
    <2> HIDE DEF h
    <2>7. Agree(Append(s, <<p, v>>), [h EXCEPT ![p] = [at |-> n, slt |-> v]])
      BY <2>1, <2>3, <2>5, AppendAgrees
    <2> QED BY <2>4, <2>6, <2>7 DEF DispatchInv
  <1>3. ASSUME NEW p \in Patterns, delGlobServlet(p) PROVE DispatchInv'
    <2>1. Agree(Erased(p), [added EXCEPT ![p] = Never])
      BY ErasedFacts
    <2> QED BY <1>3, <2>1 DEF delGlobServlet, DispatchInv
  <1> QED BY <1>1, <1>2, <1>3 DEF Administer, addServlet, delServlet

\* Every step of the system keeps it.
LEMMA DispatchInvNext == DispatchInv /\ [Next]_vars => DispatchInv'
  <1> SUFFICES ASSUME DispatchInv, [Next]_vars PROVE DispatchInv'
    OBVIOUS
  <1>1. CASE dispatch' = dispatch
    BY <1>1 DEF dispatch, DispatchInv
  <1>2. ASSUME NEW code, Gone(code) PROVE DispatchInv'
    BY <1>2, NothingAgrees DEF Gone, DispatchInv
  <1>3. CASE Administer
    BY <1>3, AdministerAgrees
  <1>4. ProcessNext => dispatch' = dispatch \/ Gone(0) \/ Gone(1)
    BY DEF ProcessNext, Start, PidFileFails, RunFiber, Crash, MainReturns, WaitPid, Slept, serverVars
  <1>5. ASSUME NEW c \in Clients, SessionStep(c) \/ ClientStep(c) PROVE dispatch' = dispatch
    BY <1>5 DEF SessionStep, ClientStep, Read, ReadEnd, ReadTimeout, Dispatch, SendResponse,
       ClientConnect, ClientSend, ClientClose
  <1>6. ASSUME NEW a \in Addrs, AcceptStep(a) PROVE dispatch' = dispatch
    BY <1>6 DEF AcceptStep, AcceptCheck, Accept
  <1>7. Stop \/ StopTask => dispatch' = dispatch
    BY DEF Stop, StopTask
  <1>8. UNCHANGED vars => dispatch' = dispatch
    BY DEF vars, serverVars
  <1> QED BY <1>1, <1>2, <1>3, <1>4, <1>5, <1>6, <1>7, <1>8 DEF Next, ServerNext

\* The first entry of the vector that matches is that of the live pattern registered
\* longest ago, and there is an entry that matches when there is a live pattern.
LEMMA FirstIsOldest ==
  ASSUME DispatchInv, NEW u \in Paths
  PROVE  getMatchedServlet(u) = Reference(u)
  <1> DEFINE s == m_globs
             h == added
             I == {i \in 1..Len(s) : <<s[i][1], u>> \in Matches}
             live == {p \in Patterns : h[p] # Never /\ <<p, u>> \in Matches}
  <1>1. /\ s \in Seq(Patterns \X Servlets) /\ h \in [Patterns -> When]
        /\ \A i \in 1..Len(s) : h[s[i][1]].at > 0 /\ h[s[i][1]].slt = s[i][2]
        /\ \A i, j \in 1..Len(s) : i < j => h[s[i][1]].at < h[s[j][1]].at
        /\ \A q \in Patterns : h[q] # Never => \E i \in 1..Len(s) : s[i][1] = q
    BY DEF DispatchInv, Agree
  <1>2. Len(s) \in Nat /\ \A i \in 1..Len(s) : s[i] \in Patterns \X Servlets
    BY <1>1, LenProperties, ElementOfSeq
  <1>3. getMatchedServlet(u) = IF m_datas[u] # NoServlet THEN m_datas[u]
                               ELSE IF I # {} /\ Min(I) # 0 THEN s[Min(I)][2] ELSE NotFound
    BY DEF getMatchedServlet, SelectInSeq
  <1>4. Reference(u) = IF m_datas[u] # NoServlet THEN m_datas[u]
                       ELSE IF live = {} THEN NotFound
                       ELSE h[CHOOSE p \in live : \A q \in live : h[p].at <= h[q].at].slt
    BY DEF Reference
  <1> HIDE DEF s, h
  <1>5. \A p \in live : \E i \in I : s[i][1] = p
    BY <1>1
  <1>6. \A i \in I : s[i][1] \in live
    <2> SUFFICES ASSUME NEW i \in I PROVE s[i][1] \in live
      OBVIOUS
    <2>1. s[i][1] \in Patterns /\ h[s[i][1]].at > 0
      BY <1>1, <1>2
    <2>2. h[s[i][1]] # Never
      BY <2>1 DEF Never
    <2> QED BY <2>1, <2>2
  <1>7. CASE I = {}
    <2>1. live = {}
      BY <1>5, <1>7
    <2> HIDE DEF I, live
    <2>2. ~(I # {} /\ Min(I) # 0)
      BY <1>7
    <2> QED BY <1>3, <1>4, <2>1, <2>2
  <1>8. CASE I # {}
    <2>1. I \subseteq Nat
      BY <1>2
    <2>2. PICK k : k = Min(I) /\ k \in I /\ \A i \in I : k <= i
      BY <1>8, <2>1, MinIn, ZenonT(60)
    <2>3. k \in 1..Len(s) /\ k # 0
      BY <2>2, <1>2
    <2> DEFINE p == s[k][1]
    <2>4. p \in live
      BY <1>6, <2>2
    <2>5. \A q \in live \ {p} : h[p].at < h[q].at
      <3> SUFFICES ASSUME NEW q \in live, q # p PROVE h[p].at < h[q].at
        OBVIOUS
      <3>1. PICK i \in I : s[i][1] = q
        BY <1>5
      <3>2. k # i
        BY <3>1
      <3>3. i \in 1..Len(s) /\ i \in Nat /\ k \in Nat
        BY <2>1, <2>2, <3>1
      <3>4. k <= i
        BY <2>2, <3>1
      <3>5. k < i
        BY <3>2, <3>3, <3>4
      <3> QED BY <1>1, <2>3, <3>1, <3>3, <3>5
    <2>6. \A q \in live : h[q].at \in Nat
      BY <1>1 DEF When
    <2> HIDE DEF p, live, I
    <2>7. \A q \in live : h[p].at <= h[q].at
      BY <2>4, <2>5, <2>6
    <2>8. \A q \in live : (\A x \in live : h[q].at <= h[x].at) => q = p
      BY <2>4, <2>5, <2>6
    <2>9. (CHOOSE q \in live : \A x \in live : h[q].at <= h[x].at) = p
      BY <2>4, <2>7, <2>8
    <2>10. h[p].slt = s[k][2]
      BY <1>1, <2>3 DEF p
    <2> QED BY <1>3, <1>4, <1>8, <2>2, <2>3, <2>4, <2>9, <2>10
  <1> QED BY <1>7, <1>8

\* Requests are dispatched as the registrations say, for any sequence of registrations,
\* repetitions and removals of servlets, and after every restart of the process.
THEOREM ServerDispatchRef == Spec => []DispatchRef
  <1>1. DispatchInv => DispatchRef
    BY FirstIsOldest DEF DispatchRef
  <1> QED BY <1>1, DispatchInvInit, DispatchInvNext, PTL DEF Spec

(***************************************************************************)
(* The answers.  The inductive invariant says, of every client that is     *)
(* waiting to be accepted or has a session, what is still to be received.  *)
(***************************************************************************)
UnitSet == [req : Nat \ {0}, t : {"line", "path", "name", "value", "end", "data"}, v : Nat]
RecvSet == [at : {"head", "body", "ok", "null"}, of : Nat, length : Nat, left : Nat,
            body : Seq(UnitSet), spoilt : BOOLEAN]
Slots == Servlets \cup {NoServlet, NotFound}
AnswerSet == [req : Nat, slt : Slots, got : Nat, close : BOOLEAN, spoilt : BOOLEAN]

\* The i-th unit of the k-th request of a client, with a body of n bytes.
HeadLen(n) == IF n = 0 THEN 3 ELSE 5
Kind(n, i) == IF i = 1 THEN "line"
              ELSE IF i = 2 THEN "path"
              ELSE IF i = HeadLen(n) THEN "end"
              ELSE IF i > HeadLen(n) THEN "data"
              ELSE IF i = 3 THEN "name" ELSE "value"
IsUnit(u, k, n, i) == u.req = k /\ u.t = Kind(n, i) /\ (u.t = "value" => u.v = n)

Size(c, k) == IF k \in DOMAIN Script[c] THEN Script[c][k].n ELSE 0
Total(c, k) == HeadLen(Size(c, k)) + Size(c, k)

\* What is on the wire: the k-th request without its first p units, then all the later
\* ones up to the last; pos is where each of them begins.
Coming(w, c, k, p, last) == \E pos \in [k..(last + 1) -> Int] :
    /\ pos[k] = 0 - p /\ pos[last + 1] = Len(w)
    /\ \A j \in k..last : pos[j + 1] = pos[j] + Total(c, j)
    /\ \A j \in k..last : \A u \in 1..Total(c, j) : pos[j] + u >= 1 =>
         pos[j] + u <= Len(w) /\ IsUnit(w[pos[j] + u], j, Size(c, j), u)

\* How far recvRequest is when it has read p units of the k-th request, of size n.
Progress(r, k, n, p) ==
    /\ r.at = "head" => /\ p \in {0, 2, 4} /\ p < HeadLen(n)
                        /\ r.of = (IF p = 0 THEN 0 ELSE k)
                        /\ r.length = (IF p = 4 THEN n ELSE 0)
    /\ r.at = "body" => /\ r.of = k /\ r.left > 0 /\ p + r.left = HeadLen(n) + n
                        /\ Len(r.body) + r.left = n
    /\ r.at = "ok"   => r.of = k /\ p = HeadLen(n) + n /\ Len(r.body) = n

\* Nothing was dropped so far: the next answer is to the request after the last answer.
Exact(c, w, r, m, s) == LET k == m + 1 IN
    /\ k <= s + 1
    /\ \E p \in 0..Total(c, k) : /\ p > 0 => k <= s
                                 /\ Coming(w, c, k, p, s)
                                 /\ Progress(r, k, Size(c, k), p)

\* Whatever was dropped: no request line on the wire is of a request that was begun.
Ordered(w, r, as, s) ==
    /\ \A i \in 1..Len(w) : w[i].req <= s
    /\ \A i, j \in 1..Len(w) : i < j /\ w[i].t = "line" /\ w[j].t = "line" => w[i].req < w[j].req
    /\ \A i \in 1..Len(w) : w[i].t = "line" =>
         r.of < w[i].req /\ \A m \in 1..Len(as) : as[m].req < w[i].req
    /\ r.of <= s
    /\ r.of # 0 => \A m \in 1..Len(as) : as[m].req < r.of

Waiting(c) == \E a \in Addrs : \E i \in 1..Len(backlog[a]) : backlog[a][i] = c
Active == {"recv", "handle", "send"}

ServerTypes ==
    /\ m_datas \in [Paths -> Slots]
    /\ client \in [Clients -> {"idle", "open", "closed"}]
    /\ backlog \in [Addrs -> Seq(Clients)]
    /\ wire \in [Clients -> Seq(UnitSet)]
    /\ sent \in [Clients -> Nat] /\ \A c \in Clients : sent[c] <= Len(Script[c])
    /\ ses \in [Clients -> {"none", "end"} \cup Active]
    /\ rx \in [Clients -> RecvSet]
    /\ slt \in [Clients -> Slots]
    /\ answers \in [Clients -> Seq(AnswerSet)]

\* A client waits in one place, before its session.
Queues ==
    /\ \A a, b \in Addrs : \A i \in 1..Len(backlog[a]), j \in 1..Len(backlog[b]) :
         backlog[a][i] = backlog[b][j] => a = b /\ i = j
    /\ \A c \in Clients : Waiting(c) => client[c] # "idle" /\ ses[c] = "none"

PhaseOK(c) ==
    /\ client[c] = "idle" => ses[c] = "none" /\ sent[c] = 0 /\ wire[c] = <<>>
    /\ ses[c] = "none" => rx[c] = NewRecv /\ answers[c] = <<>>
    /\ ses[c] = "recv" => rx[c].at \in {"head", "body"}
    /\ ses[c] \in {"handle", "send"} => rx[c].at = "ok"
    /\ rx[c].at \in {"body", "ok"} => rx[c].of # 0

StreamOK(c) == Waiting(c) \/ ses[c] \in Active =>
    /\ Ordered(wire[c], rx[c], answers[c], sent[c])
    /\ rx[c].spoilt \/ Exact(c, wire[c], rx[c], Len(answers[c]), sent[c])

\* AnswersInOrder, for the answers to one client that has sent s requests.
InOrder(c, as, s) == \A i \in 1..Len(as) :
    /\ as[i].req <= s
    /\ i > 1 => as[i - 1].req < as[i].req
    /\ ~as[i].spoilt => as[i].req = i /\ as[i].got = Script[c][i].n
AnswersOK(c) == InOrder(c, answers[c], sent[c])

ClientOK(c) == PhaseOK(c) /\ StreamOK(c) /\ AnswersOK(c)

SessionInv == ServerTypes /\ Queues /\ \A c \in Clients : ClientOK(c)
AnswerInv == DispatchInv /\ SessionInv

(***************************************************************************)
(* Requests and their units                                                *)
(***************************************************************************)
\* Units of a request, and the units that follow them.
LEMMA UnitsJoined ==
  ASSUME NEW k, NEW n, NEW s \in Seq(UnitSet), NEW t \in Seq(UnitSet),
         \A i \in 1..Len(s) : IsUnit(s[i], k, n, i),
         \A i \in 1..Len(t) : IsUnit(t[i], k, n, Len(s) + i)
  PROVE  /\ s \o t \in Seq(UnitSet) /\ Len(s \o t) = Len(s) + Len(t)
         /\ \A i \in 1..(Len(s) + Len(t)) : IsUnit((s \o t)[i], k, n, i)
  <1>1. Len(s) \in Nat /\ Len(t) \in Nat
    BY LenProperties
  <1>2. /\ s \o t \in Seq(UnitSet) /\ Len(s \o t) = Len(s) + Len(t)
        /\ \A i \in 1..(Len(s) + Len(t)) : (s \o t)[i] = IF i <= Len(s) THEN s[i] ELSE t[i - Len(s)]
    BY ConcatProperties, ZenonT(60)
  <1>3. ASSUME NEW i \in 1..(Len(s) + Len(t)) PROVE IsUnit((s \o t)[i], k, n, i)
    <2>1. CASE i <= Len(s)
      <3>1. i \in 1..Len(s) /\ (s \o t)[i] = s[i]
        BY <1>1, <1>2, <2>1
      <3> QED BY <3>1
    <2>2. CASE ~(i <= Len(s))
      <3>0. i - Len(s) \in 1..Len(t) /\ i = Len(s) + (i - Len(s))
        BY <1>1, <2>2
      <3>1. PICK j \in 1..Len(t) : j = i - Len(s) /\ i = Len(s) + j
        BY <3>0, Zenon
      <3>2. (s \o t)[i] = t[j]
        BY <1>2, <2>2, <3>1
      <3> QED BY <3>1, <3>2
    <2> QED BY <2>1, <2>2
  <1> QED BY <1>2, <1>3

\* A request by its units.
LEMMA RequestUnits ==
  ASSUME NEW k \in Nat \ {0}, NEW n \in Nat
  PROVE  /\ Request(k, n) \in Seq(UnitSet)
         /\ Len(Request(k, n)) = HeadLen(n) + n
         /\ \A i \in 1..(HeadLen(n) + n) : IsUnit(Request(k, n)[i], k, n, i)
  <1> DEFINE A == <<Unit(k, "line", 0), Unit(k, "path", 0)>>
             M == IF n = 0 THEN <<>> ELSE <<Unit(k, "name", 0), Unit(k, "value", n)>>
             Z == <<Unit(k, "end", 0)>>
             D == [i \in 1..n |-> Unit(k, "data", i)]
             h == HeadLen(n)
  <1>1. \A t \in {"line", "path", "name", "value", "end", "data"}, v \in Nat :
          /\ Unit(k, t, v) \in UnitSet
          /\ Unit(k, t, v).req = k /\ Unit(k, t, v).t = t /\ Unit(k, t, v).v = v
    BY DEF Unit, UnitSet
  <1>2. D \in Seq(UnitSet)
    <2>1. \A i \in 1..n : Unit(k, "data", i) \in UnitSet
      BY <1>1
    <2> QED BY <2>1, IsASeq
  <1>3. Len(D) = n
    OBVIOUS
  <1>4. /\ A \in Seq(UnitSet) /\ Len(A) = 2
        /\ A[1] = Unit(k, "line", 0) /\ A[2] = Unit(k, "path", 0)
    <2>1. Unit(k, "line", 0) \in UnitSet /\ Unit(k, "path", 0) \in UnitSet
      BY <1>1
    <2> QED BY <2>1
  <1>5. Z \in Seq(UnitSet) /\ Len(Z) = 1 /\ Z[1] = Unit(k, "end", 0)
    BY <1>1
  <1>6. M \in Seq(UnitSet) /\ Len(M) = h - 3
    <2>1. CASE n = 0
      BY <2>1 DEF HeadLen
    <2>2. CASE n # 0
      <3>1. Unit(k, "name", 0) \in UnitSet /\ Unit(k, "value", n) \in UnitSet
        BY <1>1
      <3>2. M = <<Unit(k, "name", 0), Unit(k, "value", n)>> /\ h = 5
        BY <2>2 DEF HeadLen
      <3>3. M \in Seq(UnitSet)
        BY <3>1, <3>2
      <3> QED BY <3>2, <3>3
    <2> QED BY <2>1, <2>2
  <1>7. \A i \in 1..Len(A) : IsUnit(A[i], k, n, i)
    BY <1>1, <1>4 DEF IsUnit, Kind, HeadLen
  <1>8. \A i \in 1..Len(M) : IsUnit(M[i], k, n, Len(A) + i)
    <2>1. CASE n = 0
      BY <2>1, <1>6 DEF HeadLen
    <2>2. CASE n # 0
      <3>1. Len(M) = 2 /\ M[1] = Unit(k, "name", 0) /\ M[2] = Unit(k, "value", n) /\ h = 5
        BY <2>2 DEF HeadLen
      <3>2. IsUnit(M[1], k, n, 3) /\ IsUnit(M[2], k, n, 4)
        BY <1>1, <3>1 DEF IsUnit, Kind
      <3> QED BY <1>4, <3>1, <3>2
    <2> QED BY <2>1, <2>2
  <1>9. \A i \in 1..Len(Z) : IsUnit(Z[i], k, n, h - 1 + i)
    BY <1>1, <1>5 DEF IsUnit, Kind, HeadLen
  <1>10. \A i \in 1..Len(D) : IsUnit(D[i], k, n, h + i)
    <2>1. \A i \in 1..n : D[i] = Unit(k, "data", i)
      OBVIOUS
    <2> HIDE DEF D
    <2> QED BY <1>1, <1>3, <2>1 DEF IsUnit, Kind, HeadLen
  <1>11. Request(k, n) = ((A \o M) \o Z) \o D
    BY DEF Request
  <1>12. h \in Nat
    BY DEF HeadLen
  <1> HIDE DEF A, M, Z, D, h
  <1>13. /\ A \o M \in Seq(UnitSet) /\ Len(A \o M) = Len(A) + Len(M)
         /\ \A i \in 1..(Len(A) + Len(M)) : IsUnit((A \o M)[i], k, n, i)
    BY <1>4, <1>6, <1>7, <1>8, UnitsJoined, ZenonT(60)
  <1> DEFINE B == A \o M
  <1>14. B \in Seq(UnitSet) /\ Len(B) = h - 1 /\ \A i \in 1..Len(B) : IsUnit(B[i], k, n, i)
    BY <1>4, <1>6, <1>12, <1>13
  <1> HIDE DEF B
  <1>15. \A i \in 1..Len(Z) : IsUnit(Z[i], k, n, Len(B) + i)
    BY <1>9, <1>14
  <1>16. /\ B \o Z \in Seq(UnitSet) /\ Len(B \o Z) = Len(B) + Len(Z)
         /\ \A i \in 1..(Len(B) + Len(Z)) : IsUnit((B \o Z)[i], k, n, i)
    BY <1>5, <1>14, <1>15, UnitsJoined, ZenonT(60)
  <1> DEFINE C == B \o Z
  <1>17. C \in Seq(UnitSet) /\ Len(C) = h /\ \A i \in 1..Len(C) : IsUnit(C[i], k, n, i)
    BY <1>5, <1>12, <1>14, <1>16
  <1> HIDE DEF C
  <1>18. \A i \in 1..Len(D) : IsUnit(D[i], k, n, Len(C) + i)
    BY <1>10, <1>17
  <1>19. /\ C \o D \in Seq(UnitSet) /\ Len(C \o D) = Len(C) + Len(D)
         /\ \A i \in 1..(Len(C) + Len(D)) : IsUnit((C \o D)[i], k, n, i)
    BY <1>2, <1>17, <1>18, UnitsJoined, ZenonT(60)
  <1>20. Request(k, n) = C \o D
    BY <1>11 DEF C, B
  <1> QED BY <1>3, <1>17, <1>19, <1>20 DEF h

\* A part of a sequence.
LEMMA PartOf ==
  ASSUME NEW S, NEW w \in Seq(S), NEW i \in Nat, NEW j \in Nat, i <= j, j <= Len(w)
  PROVE  /\ SubSeq(w, i + 1, j) \in Seq(S) /\ Len(SubSeq(w, i + 1, j)) = j - i
         /\ \A x \in 1..(j - i) : SubSeq(w, i + 1, j)[x] = w[i + x] /\ w[i + x] \in S
  <1>1. Len(w) \in Nat /\ \A x \in 1..Len(w) : w[x] \in S
    BY LenProperties, ElementOfSeq
  <1>2. \A x \in (i + 1)..j : w[x] \in S
    BY <1>1
  <1>3. /\ SubSeq(w, i + 1, j) \in Seq(S)
        /\ Len(SubSeq(w, i + 1, j)) = IF i + 1 <= j THEN j - (i + 1) + 1 ELSE 0
        /\ \A x \in 1..(j - (i + 1) + 1) : SubSeq(w, i + 1, j)[x] = w[(i + 1) + x - 1]
    BY <1>2, SubSeqProperties
  <1>4. \A x \in 1..(j - i) : x \in 1..(j - (i + 1) + 1) /\ (i + 1) + x - 1 = i + x /\ i + x \in (i + 1)..j
    OBVIOUS
  <1> QED BY <1>2, <1>3, <1>4
\* The header has its end at its last unit, its name and value before it.
LEMMA Kinds ==
  ASSUME NEW n \in Nat, NEW k, NEW i \in 1..(HeadLen(n) + n), NEW u, IsUnit(u, k, n, i)
  PROVE  /\ u.req = k
         /\ u.t = "end" <=> i = HeadLen(n)
         /\ u.t = "line" <=> i = 1
         /\ u.t = "name" <=> n > 0 /\ i = 3
         /\ u.t = "value" <=> n > 0 /\ i = 4
         /\ u.t = "value" => u.v = n
  BY DEF IsUnit, Kind, HeadLen

\* What the parser is given and what it makes of it, in the terms of its model.
Ends(units) == {i \in 1..Len(units) : units[i].t = "end"}
HeadEnd(units) == SelectInSeq(units, LAMBDA u : u.t = "end")
Taken(units) == IF HeadEnd(units) = 0 THEN Len(units) ELSE HeadEnd(units)
Lengths(units) == {i \in 1..(Taken(units) - 1) : units[i].t = "name" /\ units[i + 1].t = "value"}
Parsed(r, units) ==
    [r EXCEPT !.of = IF @ = 0 THEN units[1].req ELSE @,
              !.length = IF Lengths(units) = {} THEN @
                         ELSE units[1 + CHOOSE i \in Lengths(units) : TRUE].v,
              !.spoilt = @ \/ units[Taken(units)].t \in {"line", "name"}]

\* The parts of what execute does with a read.
LEMMA ParseIs ==
  ASSUME NEW r \in RecvSet, NEW units \in Seq(UnitSet), Len(units) > 0
  PROVE  /\ Taken(units) \in 1..Len(units)
         /\ HeadEnd(units) # 0 => HeadEnd(units) \in Ends(units) /\ Taken(units) = HeadEnd(units)
                                  /\ \A i \in Ends(units) : HeadEnd(units) <= i
         /\ HeadEnd(units) = 0 <=> Ends(units) = {}
         /\ \/ ParseHead(r, units) = [r EXCEPT !.at = "null"]
            \/ /\ r.of = 0 => units[1].t = "line"
               /\ \A i \in 1..Taken(units) : units[i].t = "line" => i = 1 /\ r.of = 0
               /\ ParseHead(r, units) =
                    IF HeadEnd(units) = 0 THEN Parsed(r, units)
                    ELSE Body(Parsed(r, units), SubSeq(units, Taken(units) + 1, Len(units)))
  <1> DEFINE e == HeadEnd(units)
             n == Taken(units)
             head == SubSeq(units, 1, n)
             whole == {i \in 1..(n - 1) : head[i].t = "name" /\ head[i + 1].t = "value"}
             new == [r EXCEPT !.of = IF @ = 0 THEN head[1].req ELSE @,
                              !.length = IF whole = {} THEN @ ELSE head[1 + CHOOSE i \in whole : TRUE].v,
                              !.spoilt = @ \/ head[n].t \in {"line", "name"}]
  <1>1. Len(units) \in Nat /\ Len(units) > 0 /\ Ends(units) \subseteq 1..Len(units)
    BY LenProperties DEF Ends
  <1>2. e = IF Ends(units) # {} THEN Min(Ends(units)) ELSE 0
    BY DEF HeadEnd, SelectInSeq, Ends
  <1>3. n = IF e = 0 THEN Len(units) ELSE e
    BY DEF Taken
  <1>4. /\ n \in 1..Len(units)
        /\ e # 0 => e \in Ends(units) /\ n = e /\ \A i \in Ends(units) : e <= i
        /\ e = 0 <=> Ends(units) = {}
    <2>1. CASE Ends(units) = {}
      BY <1>1, <1>2, <1>3, <2>1
    <2>2. CASE Ends(units) # {}
      <3>1. Ends(units) \subseteq Nat
        BY <1>1
      <3>2. Min(Ends(units)) \in Ends(units) /\ \A i \in Ends(units) : Min(Ends(units)) <= i
        BY <2>2, <3>1, MinIn, ZenonT(60)
      <3>3. Min(Ends(units)) # 0
        BY <1>1, <3>2
      <3>4. e = Min(Ends(units)) /\ n = e
        BY <1>2, <1>3, <2>2, <3>3
      <3> QED BY <1>1, <2>2, <3>2, <3>3, <3>4
    <2> QED BY <2>1, <2>2
  <1>6. ParseHead(r, units) = IF Malformed(r, head) THEN [r EXCEPT !.at = "null"]
                              ELSE IF e = 0 THEN new
                              ELSE Body(new, SubSeq(units, n + 1, Len(units)))
    BY DEF ParseHead, Taken, HeadEnd, SelectInSeq
  <1> HIDE DEF e, n
  <1>7. Len(head) = n /\ DOMAIN head = 1..n /\ \A i \in 1..n : head[i] = units[i]
    <2>1. 0 \in Nat /\ n \in Nat /\ 0 <= n /\ n <= Len(units)
      BY <1>1, <1>4
    <2>2. /\ SubSeq(units, 0 + 1, n) \in Seq(UnitSet) /\ Len(SubSeq(units, 0 + 1, n)) = n - 0
          /\ \A x \in 1..(n - 0) : SubSeq(units, 0 + 1, n)[x] = units[0 + x]
      BY <2>1, PartOf
    <2>3. /\ head \in Seq(UnitSet) /\ Len(head) = n
          /\ \A x \in 1..n : head[x] = units[x]
      BY <2>1, <2>2
    <2> QED BY <2>3, LenProperties
  <1> HIDE DEF head
  <1>8. whole = Lengths(units)
    BY <1>1, <1>4, <1>7 DEF Lengths, n
  <1>9. head[1] = units[1] /\ head[n] = units[n] /\ 1 \in 1..n
    BY <1>1, <1>4, <1>7
  <1>10. whole # {} => head[1 + CHOOSE i \in whole : TRUE] = units[1 + CHOOSE i \in whole : TRUE]
    <2> SUFFICES ASSUME whole # {} PROVE head[1 + CHOOSE i \in whole : TRUE] = units[1 + CHOOSE i \in whole : TRUE]
      OBVIOUS
    <2>1. PICK j : j = CHOOSE i \in whole : TRUE
      OBVIOUS
    <2>2. j \in 1..(n - 1)
      BY <2>1
    <2>3. 1 + j \in 1..n
      BY <1>1, <1>4, <2>2
    <2> QED BY <1>7, <2>1, <2>3
  <1> HIDE DEF whole
  <1>11. new = Parsed(r, units)
    BY <1>8, <1>9, <1>10 DEF Parsed, n
  <1> HIDE DEF new
  <1>12. ~Malformed(r, head) => /\ r.of = 0 => units[1].t = "line"
                                /\ \A i \in 1..n : units[i].t = "line" => i = 1 /\ r.of = 0
    BY <1>7, <1>9 DEF Malformed
  <1> QED BY <1>4, <1>6, <1>11, <1>12 DEF e, n
\* The content-length that the parser knows, when no header was split.
LEMMA LengthIs ==
  ASSUME NEW r \in RecvSet, NEW units \in Seq(UnitSet), NEW n \in Nat, NEW p \in {0, 2, 4},
         NEW h \in {3, 5}, h = 3 <=> n = 0, r.length = (IF p = 4 THEN n ELSE 0),
         Taken(units) \in 1..Len(units), p + Taken(units) <= h,
         \A i \in 1..Taken(units) :
           /\ units[i].t = "name" <=> n > 0 /\ p + i = 3
           /\ units[i].t = "value" <=> n > 0 /\ p + i = 4
           /\ units[i].t = "value" => units[i].v = n
  PROVE  Parsed(r, units).length = IF p + Taken(units) >= 4 THEN n ELSE 0
  <1> DEFINE T == Taken(units)
             L == Lengths(units)
  <1>0. Len(units) \in Nat
    BY LenProperties
  <1>1. T \in Nat /\ T >= 1
    BY <1>0
  <1>2. Parsed(r, units).length = IF L = {} THEN r.length ELSE units[1 + CHOOSE i \in L : TRUE].v
    BY DEF Parsed, RecvSet
  <1>3. L = {i \in 1..(T - 1) : units[i].t = "name" /\ units[i + 1].t = "value"}
    BY DEF Lengths
  <1> HIDE DEF T, L
  <1>4. CASE L = {}
    <2>1. p + T >= 4 => p = 4
      <3> SUFFICES ASSUME p + T >= 4, p # 4 PROVE FALSE
        OBVIOUS
      <3>1. n > 0 /\ p \in {0, 2}
        BY <1>1 DEF T
      <3>2. PICK i : i = 3 - p
        OBVIOUS
      <3>3. i \in 1..(T - 1) /\ i \in 1..T /\ i + 1 \in 1..T /\ p + i = 3 /\ p + (i + 1) = 4
        BY <1>1, <3>1, <3>2
      <3>4. units[i].t = "name" /\ units[i + 1].t = "value"
        BY <3>1, <3>3 DEF T
      <3> QED BY <1>3, <1>4, <3>3, <3>4
    <2>2. ~(p + T >= 4) => p # 4
      BY <1>1
    <2> QED BY <1>2, <1>4, <2>1, <2>2 DEF T
  <1>5. CASE L # {}
    <2>1. PICK j : j = CHOOSE i \in L : TRUE
      OBVIOUS
    <2>2. j \in 1..(T - 1) /\ units[j].t = "name" /\ units[j + 1].t = "value"
      BY <1>3, <1>5, <2>1
    <2>3. j \in 1..T /\ j + 1 \in 1..T /\ 1 + j = j + 1
      BY <1>1, <2>2
    <2>4. p + j = 3 /\ units[j + 1].v = n
      BY <2>2, <2>3 DEF T
    <2>5. p + T >= 4
      BY <1>1, <2>2, <2>4
    <2> QED BY <1>2, <1>5, <2>1, <2>3, <2>4, <2>5 DEF T
  <1> QED BY <1>4, <1>5

\* A read of the head goes on where the last one stopped, unless it splits the path or a header.
LEMMA ParseTracks ==
  ASSUME NEW r \in RecvSet, r.at = "head", NEW units \in Seq(UnitSet), Len(units) > 0,
         NEW k \in Nat \ {0}, NEW n \in Nat, NEW p \in Nat, Progress(r, k, n, p),
         \A i \in 1..Len(units) : p + i <= HeadLen(n) + n => IsUnit(units[i], k, n, p + i),
         NEW r2, r2 = ParseHead(r, units), r2.at # "null", ~r2.spoilt
  PROVE  p + Len(units) <= HeadLen(n) + n /\ Progress(r2, k, n, p + Len(units))
  <1> DEFINE T == Taken(units)
             e == HeadEnd(units)
             new == Parsed(r, units)
             rest == SubSeq(units, T + 1, Len(units))
  <1>1. PICK h \in {3, 5} : h = HeadLen(n) /\ (h = 3 <=> n = 0)
    BY DEF HeadLen
  <1>2. p \in {0, 2, 4} /\ p < h /\ r.of = (IF p = 0 THEN 0 ELSE k) /\ r.length = (IF p = 4 THEN n ELSE 0)
    BY <1>1 DEF Progress
  <1>3. PICK U \in Nat : U = Len(units) /\ U > 0
    BY LenProperties
  <1>4. /\ T \in 1..U /\ (e = 0 <=> Ends(units) = {})
        /\ e # 0 => e \in Ends(units) /\ T = e /\ \A i \in Ends(units) : e <= i
        /\ r2 = IF e = 0 THEN new ELSE Body(new, rest)
    <2>1. r2 # [r EXCEPT !.at = "null"]
      BY DEF RecvSet
    <2> QED BY <1>3, <2>1, ParseIs
  <1>5. \A i \in 1..U : p + i <= h + n =>
          /\ units[i].req = k
          /\ units[i].t = "end" <=> p + i = h
          /\ units[i].t = "line" <=> p + i = 1
          /\ units[i].t = "name" <=> n > 0 /\ p + i = 3
          /\ units[i].t = "value" <=> n > 0 /\ p + i = 4
          /\ units[i].t = "value" => units[i].v = n
    <2> SUFFICES ASSUME NEW i \in 1..U, p + i <= h + n
                 PROVE  /\ units[i].req = k
                        /\ units[i].t = "end" <=> p + i = h
                        /\ units[i].t = "line" <=> p + i = 1
                        /\ units[i].t = "name" <=> n > 0 /\ p + i = 3
                        /\ units[i].t = "value" <=> n > 0 /\ p + i = 4
                        /\ units[i].t = "value" => units[i].v = n
      OBVIOUS
    <2>1. PICK j \in 1..(HeadLen(n) + n) : j = p + i
      BY <1>1
    <2>2. IsUnit(units[i], k, n, j)
      BY <1>1, <1>3, <2>1
    <2> QED BY <1>1, <2>1, <2>2, Kinds
  <1>6. T = (IF e = 0 THEN U ELSE e) /\ Ends(units) = {i \in 1..U : units[i].t = "end"}
    BY <1>3 DEF Taken, Ends
  <1> HIDE DEF T, e, rest
  <1>7. IF e = 0 THEN T = U /\ p + U < h ELSE T = e /\ p + e = h
    <2>1. PICK z : z = h - p
      OBVIOUS
    <2>2. z \in Nat /\ p + z = h /\ z >= 1
      BY <1>2, <2>1
    <2>3. z <= U => z \in Ends(units)
      BY <1>5, <1>6, <2>2
    <2>4. CASE e = 0
      <3>1. ~(z <= U)
        BY <1>4, <2>3, <2>4
      <3> QED BY <1>6, <2>2, <2>4, <3>1
    <2>5. CASE e # 0
      <3>1. e \in 1..U /\ units[e].t = "end"
        BY <1>4, <1>6, <2>5
      <3>2. z <= U
        BY <1>5, <2>2, <3>1
      <3>3. e <= z
        BY <1>4, <2>3, <2>5, <3>2
      <3>4. p + e <= h + n
        BY <2>2, <3>1, <3>3
      <3> QED BY <1>5, <1>6, <2>5, <3>1, <3>4
    <2> QED BY <2>4, <2>5
  <1>8. p + T <= h /\ p + T <= h + n /\ T \in Nat /\ T >= 1
    BY <1>2, <1>4, <1>7
  <1>9. new.length = IF p + T >= 4 THEN n ELSE 0
    <2>1. \A i \in 1..T : i \in 1..U /\ p + i <= h + n
      BY <1>2, <1>3, <1>4, <1>8
    <2>2. /\ Taken(units) \in 1..Len(units) /\ p + Taken(units) <= h
          /\ \A i \in 1..Taken(units) :
               /\ units[i].t = "name" <=> n > 0 /\ p + i = 3
               /\ units[i].t = "value" <=> n > 0 /\ p + i = 4
               /\ units[i].t = "value" => units[i].v = n
      BY <1>3, <1>4, <1>5, <1>8, <2>1 DEF T
    <2>3. Parsed(r, units).length = IF p + Taken(units) >= 4 THEN n ELSE 0
      <3>1. h \in {3, 5} /\ (h = 3 <=> n = 0) /\ p \in {0, 2, 4} /\ r.length = (IF p = 4 THEN n ELSE 0)
        BY <1>1, <1>2
      <3> HIDE DEF new
      <3> QED BY <2>2, <3>1, LengthIs, SMTT(60)
    <2> QED BY <2>3 DEF T
  <1>10. new.of = k
    <2>1. p = 0 => units[1].req = k
      BY <1>2, <1>3, <1>5
    <2>2. new.of = IF r.of = 0 THEN units[1].req ELSE r.of
      BY DEF Parsed, RecvSet
    <2> QED BY <1>2, <2>1, <2>2
  <1>11. new.at = "head" /\ DOMAIN new = DOMAIN r /\ new.spoilt = (r.spoilt \/ units[T].t \in {"line", "name"})
    BY DEF Parsed, RecvSet, T
  <1> HIDE DEF new
  <1>12. CASE e = 0
    <2>1. r2 = new
      BY <1>4, <1>12
    <2>2. units[U].t \notin {"line", "name"}
      BY <1>7, <1>11, <1>12, <2>1
    <2>3. p + U # 1 /\ p + U # 3
      BY <1>1, <1>2, <1>3, <1>5, <1>7, <1>12, <2>2
    <2>4. p + U \in {2, 4}
      BY <1>2, <1>3, <1>7, <1>12, <2>3
    <2>5. r2.at = "head" /\ r2.of = k /\ r2.length = IF p + U = 4 THEN n ELSE 0
      BY <1>7, <1>9, <1>10, <1>11, <1>12, <2>1, <2>4
    <2> QED BY <1>1, <1>3, <1>7, <1>12, <2>4, <2>5 DEF Progress
  <1>13. CASE e # 0
    <2>1. p + T = h
      BY <1>7, <1>13
    <2>2. new.length = n
      BY <1>1, <1>9, <2>1
    <2>3. r2 = Body(new, rest)
      BY <1>4, <1>13
    <2>4. rest \in Seq(UnitSet) /\ Len(rest) = U - T
      BY <1>3, <1>4, <1>8, PartOf DEF rest
    <2>5. DOMAIN new = DOMAIN r /\ DOMAIN r = {"at", "of", "length", "left", "body", "spoilt"}
      BY <1>11 DEF RecvSet
    <2>6. CASE n <= Len(rest)
      <3>1. r2 = [new EXCEPT !.at = "ok", !.body = SubSeq(rest, 1, n), !.spoilt = @ \/ n < Len(rest)]
        BY <2>2, <2>3, <2>6 DEF Body
      <3>2. r2.at = "ok" /\ r2.body = SubSeq(rest, 1, n) /\ r2.of = k /\ (n < Len(rest) => r2.spoilt)
        BY <1>10, <2>5, <3>1
      <3>3. Len(rest) = n /\ p + U = h + n
        BY <1>8, <2>1, <2>4, <2>6, <3>2
      <3>4. Len(SubSeq(rest, 1, n)) = n
        <4>1. Len(SubSeq(rest, 0 + 1, n)) = n - 0
          BY <2>4, <3>3, PartOf
        <4> QED BY <4>1
      <3> QED BY <1>1, <1>3, <3>2, <3>3, <3>4 DEF Progress
    <2>7. CASE ~(n <= Len(rest))
      <3>1. r2 = [new EXCEPT !.at = "body", !.body = rest, !.left = n - Len(rest)]
        BY <2>2, <2>3, <2>7 DEF Body
      <3>2. r2.at = "body" /\ r2.body = rest /\ r2.left = n - Len(rest) /\ r2.of = k
        BY <1>10, <2>5, <3>1
      <3>3. r2.left > 0 /\ p + U + r2.left = h + n /\ Len(r2.body) + r2.left = n /\ p + U <= h + n
        <4>1. PICK x \in Nat : x = Len(rest) /\ x = U - T
          <5>1. T \in 1..U /\ Len(rest) = U - T
            BY <1>4, <2>4
          <5>2. U - T \in Nat
            BY <1>3, <5>1
          <5> QED BY <5>1, <5>2, Zenon
        <4>2. x < n /\ r2.left = n - x /\ Len(r2.body) = x
          BY <2>7, <3>2, <4>1
        <4>3. T \in Nat /\ U \in Nat /\ U = T + x /\ p + T = h
          BY <1>3, <1>8, <2>1, <4>1
        <4>4. r2.left > 0 /\ Len(r2.body) + r2.left = n
          BY <4>1, <4>2
        <4>5. p + U + r2.left = h + n /\ p + U <= h + n
          BY <4>1, <4>2, <4>3
        <4> QED BY <4>4, <4>5
      <3> QED BY <1>1, <1>3, <3>2, <3>3 DEF Progress
    <2> QED BY <2>6, <2>7
  <1> QED BY <1>12, <1>13
(***************************************************************************)
(* What is on the wire                                                     *)
(***************************************************************************)
\* The sizes of requests are numbers, and a request has a first and a last unit.
LEMMA SizeNat ==
  ASSUME NEW c \in Clients, NEW k
  PROVE  Size(c, k) \in Nat /\ Total(c, k) \in Nat /\ Total(c, k) >= 2
  <1>1. Size(c, k) \in Nat
    <2>1. CASE k \in DOMAIN Script[c]
      <3>1. Script[c] \in Seq([path : Paths, n : Nat, close : BOOLEAN])
        BY ServerConstants
      <3>2. k \in 1..Len(Script[c])
        BY <2>1, <3>1, LenProperties
      <3>3. Script[c][k] \in [path : Paths, n : Nat, close : BOOLEAN]
        BY <3>1, <3>2, ElementOfSeq
      <3> QED BY <2>1, <3>3 DEF Size
    <2>2. CASE k \notin DOMAIN Script[c]
      BY <2>2 DEF Size
    <2> QED BY <2>1, <2>2
  <1> QED BY <1>1 DEF Total, HeadLen

\* Nothing was sent and nothing is on the wire.
LEMMA ComingFirst == ASSUME NEW c PROVE Coming(<<>>, c, 1, 0, 0)
  <1> DEFINE pos == [j \in 1..(0 + 1) |-> 0]
  <1>1. /\ pos \in [1..(0 + 1) -> Int] /\ pos[1] = 0 - 0 /\ pos[0 + 1] = Len(<<>>)
        /\ \A j \in 1..0 : FALSE
    OBVIOUS
  <1> HIDE DEF pos
  <1> QED BY <1>1, Zenon DEF Coming

\* The next request is begun when the last is read whole.
LEMMA ComingNext ==
  ASSUME NEW c \in Clients, NEW w, NEW k \in Nat, NEW s \in Nat, k <= s,
         Coming(w, c, k, Total(c, k), s)
  PROVE  Coming(w, c, k + 1, 0, s)
  <1>1. PICK pos \in [k..(s + 1) -> Int] :
          /\ pos[k] = 0 - Total(c, k) /\ pos[s + 1] = Len(w)
          /\ \A j \in k..s : pos[j + 1] = pos[j] + Total(c, j)
          /\ \A j \in k..s : \A u \in 1..Total(c, j) : pos[j] + u >= 1 =>
               pos[j] + u <= Len(w) /\ IsUnit(w[pos[j] + u], j, Size(c, j), u)
    BY DEF Coming
  <1> DEFINE new == [j \in (k + 1)..(s + 1) |-> pos[j]]
  <1>2. new \in [(k + 1)..(s + 1) -> Int] /\ \A j \in (k + 1)..(s + 1) : new[j] = pos[j]
    OBVIOUS
  <1>3. pos[k + 1] = 0
    BY <1>1, SizeNat, SMTT(30)
  <1> HIDE DEF new
  <1>4. new[k + 1] = 0 - 0 /\ new[s + 1] = Len(w)
    BY <1>1, <1>2, <1>3
  <1>5. \A j \in (k + 1)..s : j \in k..s /\ new[j + 1] = pos[j + 1] /\ new[j] = pos[j]
    BY <1>2
  <1>6. /\ \A j \in (k + 1)..s : new[j + 1] = new[j] + Total(c, j)
        /\ \A j \in (k + 1)..s : \A u \in 1..Total(c, j) : new[j] + u >= 1 =>
             new[j] + u <= Len(w) /\ IsUnit(w[new[j] + u], j, Size(c, j), u)
    BY <1>1, <1>5
  <1> QED BY <1>2, <1>4, <1>6, Zenon DEF Coming

\* A request is added at the end of the wire.
LEMMA ComingSent ==
  ASSUME NEW c \in Clients, NEW w \in Seq(UnitSet), NEW k \in Nat, NEW s \in Nat, k <= s + 1,
         NEW p, Coming(w, c, k, p, s),
         NEW x \in Seq(UnitSet), Len(x) = Total(c, s + 1),
         \A u \in 1..Len(x) : IsUnit(x[u], s + 1, Size(c, s + 1), u)
  PROVE  Coming(w \o x, c, k, p, s + 1)
  <1>1. PICK pos \in [k..(s + 1) -> Int] :
          /\ pos[k] = 0 - p /\ pos[s + 1] = Len(w)
          /\ \A j \in k..s : pos[j + 1] = pos[j] + Total(c, j)
          /\ \A j \in k..s : \A u \in 1..Total(c, j) : pos[j] + u >= 1 =>
               pos[j] + u <= Len(w) /\ IsUnit(w[pos[j] + u], j, Size(c, j), u)
    BY DEF Coming
  <1>2. PICK m \in Nat, t \in Nat : m = Len(w) /\ t = Total(c, s + 1) /\ t = Len(x)
    BY LenProperties
  <1>3. /\ Len(w \o x) = m + t
        /\ \A i \in 1..(m + t) : (w \o x)[i] = IF i <= m THEN w[i] ELSE x[i - m]
    <2>1. /\ w \o x \in Seq(UnitSet)
          /\ Len(w \o x) = Len(w) + Len(x)
          /\ \A i \in 1..(Len(w) + Len(x)) : (w \o x)[i] = IF i <= Len(w) THEN w[i] ELSE x[i - Len(w)]
      BY ConcatProperties, Zenon
    <2> QED BY <1>2, <2>1
  <1> DEFINE last == (s + 1) + 1
             new == [j \in k..last |-> IF j = last THEN m + t ELSE pos[j]]
  <1>4. /\ new \in [k..last -> Int]
        /\ \A j \in k..(s + 1) : new[j] = pos[j]
        /\ new[last] = m + t
    OBVIOUS
  <1> HIDE DEF new
  <1>5. new[k] = 0 - p /\ new[last] = Len(w \o x)
    BY <1>1, <1>3, <1>4
  <1>6. ASSUME NEW j \in k..(s + 1) PROVE new[j + 1] = new[j] + Total(c, j)
    <2>1. CASE j = s + 1
      BY <1>1, <1>2, <1>4, <2>1
    <2>2. CASE j # s + 1
      <3>1. j \in k..s /\ j + 1 \in k..(s + 1)
        BY <2>2
      <3> QED BY <1>1, <1>4, <3>1
    <2> QED BY <2>1, <2>2
  <1>7. ASSUME NEW j \in k..(s + 1), NEW u \in 1..Total(c, j), new[j] + u >= 1
        PROVE  new[j] + u <= Len(w \o x) /\ IsUnit((w \o x)[new[j] + u], j, Size(c, j), u)
    <2>0. u \in Nat /\ pos[j] \in Int /\ new[j] = pos[j]
      BY <1>4, SizeNat
    <2>1. PICK i \in Int : i = new[j] + u /\ i = pos[j] + u /\ i >= 1
      BY <1>7, <2>0
    <2>2. CASE j = s + 1
      <3>1. i = m + u /\ u \in 1..t
        BY <1>1, <1>2, <2>0, <2>1, <2>2
      <3>2. i \in 1..(m + t) /\ ~(i <= m) /\ i - m = u
        BY <3>1
      <3>3. (w \o x)[i] = x[u] /\ i <= m + t
        BY <1>3, <3>2, SMTT(30)
      <3> QED BY <1>2, <1>3, <2>1, <2>2, <3>1, <3>3
    <2>3. CASE j # s + 1
      <3>1. j \in k..s
        BY <2>3
      <3>2. i <= m /\ IsUnit(w[i], j, Size(c, j), u)
        BY <1>1, <1>2, <2>1, <3>1
      <3>3. i \in 1..(m + t) /\ i <= m + t
        BY <1>2, <2>1, <3>2
      <3>4. (w \o x)[i] = w[i]
        BY <1>3, <3>2, <3>3
      <3> QED BY <1>3, <2>1, <3>2, <3>3, <3>4
    <2> QED BY <2>2, <2>3
  <1> QED BY <1>4, <1>5, <1>6, <1>7, Zenon DEF Coming

\* The first units are taken from the wire.
LEMMA ComingRead ==
  ASSUME NEW c \in Clients, NEW w \in Seq(UnitSet), NEW k \in Nat, NEW s \in Nat, k <= s + 1,
         NEW p \in Nat, Coming(w, c, k, p, s), NEW n \in 1..Len(w), p > 0 => k <= s
  PROVE  /\ k <= s /\ Coming(SubSeq(w, n + 1, Len(w)), c, k, p + n, s)
         /\ \A i \in 1..n : p + i <= Total(c, k) => IsUnit(w[i], k, Size(c, k), p + i)
  <1>1. PICK pos \in [k..(s + 1) -> Int] :
          /\ pos[k] = 0 - p /\ pos[s + 1] = Len(w)
          /\ \A j \in k..s : pos[j + 1] = pos[j] + Total(c, j)
          /\ \A j \in k..s : \A u \in 1..Total(c, j) : pos[j] + u >= 1 =>
               pos[j] + u <= Len(w) /\ IsUnit(w[pos[j] + u], j, Size(c, j), u)
    BY DEF Coming
  <1>2. PICK m \in Nat : m = Len(w) /\ n \in Nat /\ n <= m /\ n >= 1
    BY LenProperties
  <1>3. k <= s
    <2>1. CASE k = s + 1
      <3>1. p = 0 /\ m = 0 - p
        BY <1>1, <1>2, <2>1
      <3> QED BY <1>2, <3>1
    <2> QED BY <2>1
  <1> DEFINE rest == SubSeq(w, n + 1, Len(w))
             new == [j \in k..(s + 1) |-> pos[j] - n]
  <1>4. Len(rest) = m - n /\ \A i \in 1..(m - n) : rest[i] = w[n + i]
    BY <1>2, PartOf, SMTT(30)
  <1>5. new \in [k..(s + 1) -> Int] /\ \A j \in k..(s + 1) : new[j] = pos[j] - n
    BY <1>2
  <1> HIDE DEF rest, new
  <1>6. new[k] = 0 - (p + n) /\ new[s + 1] = Len(rest)
    <2>1. k \in k..(s + 1) /\ s + 1 \in k..(s + 1)
      BY <1>3
    <2>2. new[k] = (0 - p) - n /\ new[s + 1] = m - n
      BY <1>1, <1>2, <1>5, <2>1
    <2>3. (0 - p) - n = 0 - (p + n)
      BY <1>2
    <2> QED BY <1>4, <2>2, <2>3
  <1>7. ASSUME NEW j \in k..s PROVE new[j + 1] = new[j] + Total(c, j)
    <2>1. j \in k..(s + 1) /\ j + 1 \in k..(s + 1) /\ pos[j] \in Int /\ Total(c, j) \in Nat
      BY SizeNat
    <2>2. pos[j + 1] = pos[j] + Total(c, j)
      BY <1>1
    <2> QED BY <1>2, <1>5, <2>1, <2>2
  <1>8. ASSUME NEW j \in k..s, NEW u \in 1..Total(c, j), new[j] + u >= 1
        PROVE  new[j] + u <= Len(rest) /\ IsUnit(rest[new[j] + u], j, Size(c, j), u)
    <2>1. j \in k..(s + 1) /\ u \in Nat /\ pos[j] \in Int
      BY SizeNat
    <2>2. PICK i \in Int : i = pos[j] + u /\ new[j] + u = i - n /\ i - n >= 1 /\ i >= 1
      <3>1. new[j] = pos[j] - n
        BY <1>5, <2>1
      <3>2. PICK z \in Int : z = pos[j]
        BY <2>1
      <3>3. (z - n) + u >= 1
        BY <1>8, <3>1, <3>2
      <3>4. z + u \in Int /\ (z - n) + u = (z + u) - n /\ (z + u) - n >= 1 /\ z + u >= 1
        <4>1. PICK x \in Int, y \in Int : x = n /\ y = u /\ x >= 0
          BY <1>2, <2>1
        <4>2. (z - x) + y >= 1
          BY <3>3, <4>1
        <4>3. z + y \in Int /\ (z - x) + y = (z + y) - x /\ (z + y) - x >= 1 /\ z + y >= 1
          BY <4>1, <4>2
        <4> QED BY <4>1, <4>3
      <3> QED BY <3>1, <3>2, <3>4
    <2>3. i <= m /\ IsUnit(w[i], j, Size(c, j), u)
      BY <1>1, <1>2, <2>2
    <2>4. PICK d \in 1..(m - n) : d = i - n /\ n + d = i
      BY <1>2, <2>2, <2>3
    <2>5. rest[d] = w[i]
      BY <1>4, <2>4
    <2>6. new[j] + u = d /\ d <= m - n
      BY <2>2, <2>4
    <2> QED BY <1>4, <2>3, <2>4, <2>5, <2>6
  <1>9. Coming(rest, c, k, p + n, s)
    BY <1>5, <1>6, <1>7, <1>8, Zenon DEF Coming
  <1>10. ASSUME NEW i \in 1..n, p + i <= Total(c, k) PROVE IsUnit(w[i], k, Size(c, k), p + i)
    <2>1. PICK u \in 1..Total(c, k) : u = p + i /\ i \in Nat
      BY <1>2, <1>10, SizeNat
    <2>2. pos[k] + u = i
      BY <1>1, <2>1
    <2>3. k \in k..s
      BY <1>3
    <2>4. IsUnit(w[pos[k] + u], k, Size(c, k), u)
      <3>1. pos[k] + u >= 1
        BY <1>2, <2>2
      <3> QED BY <1>1, <2>3, <3>1
    <2> QED BY <2>1, <2>2, <2>4
  <1> QED BY <1>3, <1>9, <1>10 DEF rest
(***************************************************************************)
(* A read                                                                  *)
(***************************************************************************)
\* What a read makes of the request in progress, or which request it begins.
LEMMA ReceivedFacts ==
  ASSUME NEW r \in RecvSet, r.at \in {"head", "body"}, NEW units \in Seq(UnitSet), Len(units) > 0,
         r.at = "body" => Len(units) <= r.left /\ r.of # 0,
         NEW r2, r2 = Received(r, units)
  PROVE  /\ r2 \in RecvSet
         /\ r.spoilt => r2.spoilt
         /\ r2.at # "null" => /\ r2.of # 0
                              /\ r.of # 0 => r2.of = r.of
                              /\ r.of = 0 => units[1].t = "line" /\ r2.of = units[1].req
  <1>1. PICK U \in Nat : U = Len(units) /\ U > 0
    BY LenProperties
  <1>2. \A i \in 1..U : units[i] \in UnitSet
    BY <1>1, ElementOfSeq
  <1>3. CASE r.at = "body"
    <2>1. r2 = [r EXCEPT !.body = @ \o units, !.left = @ - U, !.at = IF r.left = U THEN "ok" ELSE "body"]
      BY <1>1, <1>3 DEF Received
    <2>2. r.body \o units \in Seq(UnitSet)
      BY ConcatProperties DEF RecvSet
    <2>3. r.left - U \in Nat
      BY <1>1, <1>3 DEF RecvSet
    <2>4. r2 \in RecvSet
      BY <2>1, <2>2, <2>3 DEF RecvSet
    <2>5. r2.of = r.of /\ r2.spoilt = r.spoilt
      BY <2>1 DEF RecvSet
    <2> QED BY <1>3, <2>4, <2>5
  <1>4. CASE r.at = "head"
    <2> DEFINE T == Taken(units)
               L == Lengths(units)
               new == Parsed(r, units)
               rest == SubSeq(units, T + 1, U)
    <2>1. r2 = ParseHead(r, units)
      BY <1>4 DEF Received
    <2>2. CASE r2 = [r EXCEPT !.at = "null"]
      BY <2>2 DEF RecvSet
    <2>3. CASE r2 # [r EXCEPT !.at = "null"]
      <3>1. /\ T \in 1..U /\ (r.of = 0 => units[1].t = "line")
            /\ r2 = IF HeadEnd(units) = 0 THEN new ELSE Body(new, rest)
        BY <1>1, <2>1, <2>3, ParseIs
      <3>2. L # {} => units[1 + CHOOSE i \in L : TRUE].v \in Nat
        <4> SUFFICES ASSUME L # {} PROVE units[1 + CHOOSE i \in L : TRUE].v \in Nat
          OBVIOUS
        <4>1. PICK j : j = CHOOSE i \in L : TRUE
          OBVIOUS
        <4>2. j \in 1..(T - 1)
          BY <4>1 DEF Lengths
        <4>3. 1 + j \in 1..U
          BY <1>1, <3>1, <4>2
        <4> QED BY <1>2, <4>1, <4>3 DEF UnitSet
      <3>3. units[1].req \in Nat \ {0}
        BY <1>1, <1>2 DEF UnitSet
      <3>4. /\ new \in RecvSet /\ new.at = "head" /\ (r.spoilt => new.spoilt)
            /\ new.of = IF r.of = 0 THEN units[1].req ELSE r.of
        <4>1. new = [r EXCEPT !.of = IF @ = 0 THEN units[1].req ELSE @,
                              !.length = IF L = {} THEN @ ELSE units[1 + CHOOSE i \in L : TRUE].v,
                              !.spoilt = @ \/ units[T].t \in {"line", "name"}]
          BY DEF Parsed
        <4> HIDE DEF new, L, T
        <4>2. PICK v \in Nat : v = IF L = {} THEN r.length ELSE units[1 + CHOOSE i \in L : TRUE].v
          BY <3>2 DEF RecvSet
        <4>3. PICK b \in BOOLEAN : b = (r.spoilt \/ units[T].t \in {"line", "name"})
          OBVIOUS
        <4>4. new = [r EXCEPT !.of = IF @ = 0 THEN units[1].req ELSE @, !.length = v, !.spoilt = b]
          BY <4>1, <4>2, <4>3 DEF RecvSet
        <4> QED BY <1>4, <3>3, <4>3, <4>4 DEF RecvSet
      <3> HIDE DEF new, rest, T
      <3>5. rest \in Seq(UnitSet) /\ Len(rest) \in Nat
        <4>1. T \in Nat /\ U \in Nat /\ T <= U
          BY <1>1, <3>1
        <4>2. rest \in Seq(UnitSet)
          BY <1>1, <4>1, PartOf DEF rest
        <4> QED BY <4>2, LenProperties
      <3>6. CASE HeadEnd(units) = 0
        BY <3>1, <3>3, <3>4, <3>6
      <3>7. CASE HeadEnd(units) # 0
        <4>1. r2 = Body(new, rest) /\ new.length \in Nat
          BY <3>1, <3>4, <3>7 DEF RecvSet
        <4>2. r2 \in RecvSet /\ r2.of = new.of /\ (new.spoilt => r2.spoilt)
          <5>1. CASE new.length <= Len(rest)
            <6>1. SubSeq(rest, 1, new.length) \in Seq(UnitSet)
              <7>1. SubSeq(rest, 0 + 1, new.length) \in Seq(UnitSet)
                BY <3>5, <4>1, <5>1, PartOf
              <7> QED BY <7>1
            <6>2. PICK b, z : /\ b = SubSeq(rest, 1, new.length)
                                          /\ z = (new.spoilt \/ new.length < Len(rest))
              OBVIOUS
            <6>3. r2 = [new EXCEPT !.at = "ok", !.body = b, !.spoilt = z]
              BY <3>4, <4>1, <5>1, <6>2 DEF Body, RecvSet
            <6> QED BY <3>4, <6>1, <6>2, <6>3 DEF RecvSet
          <5>2. CASE ~(new.length <= Len(rest))
            <6>1. new.length - Len(rest) \in Nat
              BY <3>5, <4>1, <5>2
            <6> QED BY <3>4, <3>5, <4>1, <5>2, <6>1 DEF Body, RecvSet
          <5> QED BY <5>1, <5>2
        <4> QED BY <3>1, <3>3, <3>4, <4>2
      <3> QED BY <3>6, <3>7
    <2> QED BY <2>2, <2>3
  <1> QED BY <1>3, <1>4

\* The request that a read begins is the first one on the wire.
LEMMA OrderedRead ==
  ASSUME NEW w \in Seq(UnitSet), NEW r, NEW as, NEW s \in Nat, Ordered(w, r, as, s), r.of \in Nat,
         NEW n \in 1..Len(w), NEW r2,
         r.of # 0 => r2.of = r.of,
         r.of = 0 => w[1].t = "line" /\ r2.of = w[1].req
  PROVE  Ordered(SubSeq(w, n + 1, Len(w)), r2, as, s)
  <1> DEFINE v == SubSeq(w, n + 1, Len(w))
  <1>1. PICK m \in Nat : m = Len(w) /\ n \in Nat /\ n <= m /\ n >= 1
    BY LenProperties
  <1>2. Len(v) = m - n /\ \A i \in 1..(m - n) : v[i] = w[n + i]
    BY <1>1, PartOf
  <1>3. \A i \in 1..Len(v) : n + i \in 1..m /\ v[i] = w[n + i] /\ n + i > 1 /\ 1 \in 1..m
    BY <1>1, <1>2
  <1>4. \A i \in 1..m : w[i].req \in Nat
    <2>1. \A i \in 1..Len(w) : w[i] \in UnitSet
      BY ElementOfSeq
    <2> QED BY <1>1, <2>1 DEF UnitSet
  <1> HIDE DEF v
  <1>5. \A i \in 1..Len(v) : v[i].req <= s
    BY <1>1, <1>3 DEF Ordered
  <1>6. \A i, j \in 1..Len(v) : i < j /\ v[i].t = "line" /\ v[j].t = "line" => v[i].req < v[j].req
    <2> SUFFICES ASSUME NEW i \in 1..Len(v), NEW j \in 1..Len(v), i < j, v[i].t = "line", v[j].t = "line"
                 PROVE  v[i].req < v[j].req
      OBVIOUS
    <2>1. n + i < n + j
      BY <1>1, <1>2
    <2> QED BY <1>1, <1>3, <2>1 DEF Ordered
  <1>7. ASSUME NEW i \in 1..Len(v), v[i].t = "line"
        PROVE  r2.of < v[i].req /\ \A a \in 1..Len(as) : as[a].req < v[i].req
    <2>1. w[n + i].t = "line" /\ n + i \in 1..m /\ v[i] = w[n + i] /\ 1 < n + i /\ 1 \in 1..m
      BY <1>3, <1>7
    <2>2. r.of < w[n + i].req /\ \A a \in 1..Len(as) : as[a].req < w[n + i].req
      BY <1>1, <2>1 DEF Ordered
    <2>3. r.of = 0 => w[1].req < w[n + i].req
      BY <1>1, <2>1 DEF Ordered
    <2> QED BY <2>1, <2>2, <2>3
  <1>8. r2.of <= s /\ (r2.of # 0 => \A a \in 1..Len(as) : as[a].req < r2.of)
    <2>1. CASE r.of # 0
      BY <2>1 DEF Ordered
    <2>2. CASE r.of = 0
      <3>1. 1 \in 1..Len(w) /\ w[1].t = "line" /\ r2.of = w[1].req
        BY <1>1, <2>2
      <3>2. w[1].req <= s /\ \A a \in 1..Len(as) : as[a].req < w[1].req
        BY <3>1, Zenon DEF Ordered
      <3> QED BY <3>1, <3>2
    <2> QED BY <2>1, <2>2
  <1> QED BY <1>5, <1>6, <1>7, <1>8, Zenon DEF Ordered, v

\* Nothing that was not dropped is dropped unnoticed.
LEMMA ExactRead ==
  ASSUME NEW c \in Clients, NEW w \in Seq(UnitSet), NEW r \in RecvSet, r.at \in {"head", "body"},
         NEW m \in Nat, NEW s \in Nat, Exact(c, w, r, m, s),
         NEW n \in 1..Len(w), r.at = "body" => n <= r.left,
         NEW r2, r2 = Received(r, SubSeq(w, 1, n)), r2.at # "null", ~r2.spoilt
  PROVE  Exact(c, SubSeq(w, n + 1, Len(w)), r2, m, s)
  <1> DEFINE units == SubSeq(w, 1, n)
  <1>1. PICK k \in Nat \ {0} : k = m + 1
    OBVIOUS
  <1>2. PICK z \in Nat, t \in Nat : z = Size(c, k) /\ t = Total(c, k) /\ t = HeadLen(z) + z
    BY SizeNat DEF Total
  <1>3. PICK p \in 0..t : /\ k <= s + 1 /\ (p > 0 => k <= s)
                          /\ Coming(w, c, k, p, s) /\ Progress(r, k, z, p)
    BY <1>1, <1>2 DEF Exact
  <1>4. /\ k <= s /\ Coming(SubSeq(w, n + 1, Len(w)), c, k, p + n, s)
        /\ \A i \in 1..n : p + i <= t => IsUnit(w[i], k, z, p + i)
    <2>1. p \in Nat
      BY <1>3
    <2>2. /\ k <= s /\ Coming(SubSeq(w, n + 1, Len(w)), c, k, p + n, s)
          /\ \A i \in 1..n : p + i <= Total(c, k) => IsUnit(w[i], k, Size(c, k), p + i)
      BY <1>3, <2>1, ComingRead, SMTT(20)
    <2> QED BY <1>2, <2>2
  <1>5. /\ units \in Seq(UnitSet) /\ Len(units) = n /\ n \in Nat /\ n > 0
        /\ \A i \in 1..n : units[i] = w[i]
    <2>1. Len(w) \in Nat /\ n \in Nat /\ 0 \in Nat /\ 0 <= n /\ n <= Len(w) /\ n > 0
      BY LenProperties
    <2>2. /\ SubSeq(w, 0 + 1, n) \in Seq(UnitSet) /\ Len(SubSeq(w, 0 + 1, n)) = n - 0
          /\ \A i \in 1..(n - 0) : SubSeq(w, 0 + 1, n)[i] = w[0 + i]
      BY <2>1, PartOf
    <2> QED BY <2>1, <2>2
  <1> HIDE DEF units
  <1>6. p + n <= t /\ Progress(r2, k, z, p + n)
    <2>1. CASE r.at = "head"
      <3>1. r2 = ParseHead(r, units)
        BY <2>1 DEF Received, units
      <3>2. \A i \in 1..Len(units) : p + i <= HeadLen(z) + z => IsUnit(units[i], k, z, p + i)
        BY <1>2, <1>4, <1>5
      <3>3. p \in Nat /\ Len(units) > 0
        BY <1>5
      <3>4. p + Len(units) <= HeadLen(z) + z /\ Progress(r2, k, z, p + Len(units))
        BY <1>3, <1>5, <2>1, <3>1, <3>2, <3>3, ParseTracks
      <3> QED BY <1>2, <1>5, <3>4
    <2>2. CASE r.at = "body"
      <3>1. r2 = [r EXCEPT !.body = @ \o units, !.left = @ - n, !.at = IF r.left = n THEN "ok" ELSE "body"]
        BY <1>5, <2>2 DEF Received, units
      <3>2. r.of = k /\ r.left > 0 /\ p + r.left = t /\ Len(r.body) + r.left = z
        BY <1>2, <1>3, <2>2 DEF Progress
      <3>3. Len(r.body \o units) = Len(r.body) + n /\ Len(r.body) \in Nat
        <4>1. r.body \in Seq(UnitSet)
          BY DEF RecvSet
        <4> QED BY <1>5, <4>1, ConcatProperties, LenProperties
      <3>4. PICK x \in Nat, y \in Nat : x = r.left /\ y = Len(r.body)
        BY <3>3 DEF RecvSet
      <3>5. /\ r2.of = k /\ r2.left = x - n /\ Len(r2.body) = y + n
            /\ r2.at = IF x = n THEN "ok" ELSE "body"
        BY <3>1, <3>2, <3>3, <3>4 DEF RecvSet
      <3>6. n <= x /\ p + x = t /\ y + x = z /\ p \in Nat
        BY <2>2, <3>2, <3>4
      <3>7. p + n <= t
        BY <1>5, <3>4, <3>6
      <3>8. CASE x = n
        BY <1>2, <1>5, <3>4, <3>5, <3>6, <3>8, SMTT(30) DEF Progress
      <3>9. CASE x # n
        <4>1. (p + n) + (x - n) = t /\ (y + n) + (x - n) = z /\ x - n > 0
          BY <1>5, <3>4, <3>6, <3>9, SMTT(30)
        <4> QED BY <1>2, <3>5, <3>7, <3>9, <4>1 DEF Progress
      <3> QED BY <3>7, <3>8, <3>9
    <2> QED BY <2>1, <2>2
  <1>7. p + n \in 0..Total(c, m + 1) /\ (p + n > 0 => m + 1 <= s) /\ m + 1 <= s + 1
    BY <1>1, <1>2, <1>4, <1>5, <1>6
  <1> QED BY <1>1, <1>2, <1>4, <1>6, <1>7, Zenon DEF Exact
(***************************************************************************)
(* A request sent by a client, and an answer sent to it                    *)
(***************************************************************************)
\* A number that is at most s is below the one after it.
LEMMA Below == ASSUME NEW q \in Nat, NEW s \in Nat, q <= s PROVE q < s + 1 /\ q <= s + 1
  OBVIOUS

\* A request sent is behind all that is on the wire, and is not begun.
LEMMA OrderedSent ==
  ASSUME NEW w \in Seq(UnitSet), NEW r, NEW as, NEW s \in Nat, Ordered(w, r, as, s), r.of \in Nat,
         \A m \in 1..Len(as) : as[m].req <= s /\ as[m].req \in Nat,
         NEW n \in Nat
  PROVE  Ordered(w \o Request(s + 1, n), r, as, s + 1)
  <1>1. PICK x : x = Request(s + 1, n)
    OBVIOUS
  <1>2. PICK m \in Nat, t \in Nat : m = Len(w) /\ t = HeadLen(n) + n
    BY LenProperties DEF HeadLen
  <1>3. x \in Seq(UnitSet) /\ Len(x) = t /\ \A i \in 1..t : IsUnit(x[i], s + 1, n, i)
    <2>1. PICK q \in Nat \ {0} : q = s + 1
      OBVIOUS
    <2>2. /\ Request(q, n) \in Seq(UnitSet) /\ Len(Request(q, n)) = HeadLen(n) + n
          /\ \A i \in 1..(HeadLen(n) + n) : IsUnit(Request(q, n)[i], q, n, i)
      BY RequestUnits
    <2> QED BY <1>1, <1>2, <2>1, <2>2
  <1>4. \A i \in 1..t : x[i].req = s + 1 /\ (x[i].t = "line" <=> i = 1)
    BY <1>2, <1>3, Kinds
  <1> DEFINE v == w \o x
  <1>5. /\ Len(v) = m + t
        /\ \A i \in 1..(m + t) : v[i] = IF i <= m THEN w[i] ELSE x[i - m]
    <2>1. /\ w \o x \in Seq(UnitSet) /\ Len(w \o x) = Len(w) + Len(x)
          /\ \A i \in 1..(Len(w) + Len(x)) : (w \o x)[i] = IF i <= Len(w) THEN w[i] ELSE x[i - Len(w)]
      BY <1>3, ConcatProperties, ZenonT(60)
    <2> QED BY <1>2, <1>3, <2>1
  <1>6. \A i \in 1..m : w[i].req <= s /\ w[i].req \in Nat
    <2>1. \A i \in 1..Len(w) : w[i] \in UnitSet
      BY ElementOfSeq
    <2> QED BY <1>2, <2>1 DEF UnitSet, Ordered
  <1> HIDE DEF v
  <1>7. \A i \in 1..(m + t) : \/ i \in 1..m /\ v[i] = w[i]
                              \/ i > m /\ v[i].req = s + 1 /\ (v[i].t = "line" <=> i = m + 1)
    <2> SUFFICES ASSUME NEW i \in 1..(m + t), ~(i \in 1..m)
                 PROVE  i > m /\ v[i].req = s + 1 /\ (v[i].t = "line" <=> i = m + 1)
      BY <1>5
    <2>1. i > m /\ i - m \in 1..t /\ (i - m = 1 <=> i = m + 1)
      BY <1>2
    <2>2. v[i] = x[i - m]
      BY <1>2, <1>5, <2>1
    <2> QED BY <1>4, <2>1, <2>2
  <1>8. \A i \in 1..Len(v) : v[i].req <= s + 1
    BY <1>5, <1>6, <1>7
  <1>9. \A i, j \in 1..Len(v) : i < j /\ v[i].t = "line" /\ v[j].t = "line" => v[i].req < v[j].req
    <2> SUFFICES ASSUME NEW i \in 1..(m + t), NEW j \in 1..(m + t), i < j, v[i].t = "line", v[j].t = "line"
                 PROVE  v[i].req < v[j].req
      BY <1>5
    <2>1. CASE j \in 1..m /\ v[j] = w[j]
      <3>1. i \in 1..m /\ v[i] = w[i]
        BY <1>2, <1>7, <2>1
      <3> QED BY <1>2, <2>1, <3>1 DEF Ordered
    <2>2. CASE j > m /\ v[j].req = s + 1 /\ j = m + 1
      <3>1. i \in 1..m /\ v[i] = w[i]
        BY <1>2, <1>7, <2>2
      <3> QED BY <1>6, <2>2, <3>1
    <2> QED BY <1>7, <2>1, <2>2
  <1>10. ASSUME NEW i \in 1..(m + t), v[i].t = "line"
         PROVE  r.of < v[i].req /\ \A a \in 1..Len(as) : as[a].req < v[i].req
    <2>1. CASE i \in 1..m /\ v[i] = w[i]
      BY <1>2, <1>10, <2>1 DEF Ordered
    <2>2. CASE v[i].req = s + 1
      <3>1. r.of <= s
        BY Zenon DEF Ordered
      <3>2. r.of < v[i].req
        BY <2>2, <3>1
      <3>3. \A a \in 1..Len(as) : as[a].req < v[i].req
        <4> SUFFICES ASSUME NEW a \in 1..Len(as) PROVE as[a].req < v[i].req
          OBVIOUS
        <4>1. PICK q \in Nat : q = as[a].req /\ q <= s
          OBVIOUS
        <4>2. q < s + 1
          BY <4>1, Below, Zenon
        <4> QED BY <2>2, <4>1, <4>2, Zenon
      <3> QED BY <3>2, <3>3
    <2> QED BY <1>7, <2>1, <2>2
  <1>11. r.of <= s + 1 /\ (r.of # 0 => \A a \in 1..Len(as) : as[a].req < r.of)
    <2>1. r.of <= s /\ (r.of # 0 => \A a \in 1..Len(as) : as[a].req < r.of)
      BY Zenon DEF Ordered
    <2>2. r.of <= s + 1
      BY <2>1
    <2> QED BY <2>1, <2>2
  <1>12. Ordered(v, r, as, s + 1)
    BY <1>5, <1>8, <1>9, <1>10, <1>11, Zenon DEF Ordered
  <1> QED BY <1>1, <1>12 DEF v

\* A request sent is the next of those that are coming.
LEMMA ExactSent ==
  ASSUME NEW c \in Clients, NEW w \in Seq(UnitSet), NEW r, NEW m \in Nat, NEW s \in Nat,
         Exact(c, w, r, m, s)
  PROVE  Exact(c, w \o Request(s + 1, Size(c, s + 1)), r, m, s + 1)
  <1>1. PICK k \in Nat \ {0} : k = m + 1
    OBVIOUS
  <1>2. PICK p \in 0..Total(c, k) : /\ k <= s + 1 /\ (p > 0 => k <= s)
                                    /\ Coming(w, c, k, p, s) /\ Progress(r, k, Size(c, k), p)
    BY <1>1 DEF Exact
  <1>3. PICK x : x = Request(s + 1, Size(c, s + 1))
    OBVIOUS
  <1>4. /\ x \in Seq(UnitSet) /\ Len(x) = Total(c, s + 1)
        /\ \A i \in 1..Len(x) : IsUnit(x[i], s + 1, Size(c, s + 1), i)
    <2>1. PICK n \in Nat : n = Size(c, s + 1) /\ HeadLen(n) + n = Total(c, s + 1)
      BY SizeNat DEF Total
    <2>2. /\ Request(s + 1, n) \in Seq(UnitSet) /\ Len(Request(s + 1, n)) = HeadLen(n) + n
          /\ \A i \in 1..(HeadLen(n) + n) : IsUnit(Request(s + 1, n)[i], s + 1, n, i)
      <3>1. PICK q \in Nat \ {0} : q = s + 1
        OBVIOUS
      <3>2. /\ Request(q, n) \in Seq(UnitSet) /\ Len(Request(q, n)) = HeadLen(n) + n
            /\ \A i \in 1..(HeadLen(n) + n) : IsUnit(Request(q, n)[i], q, n, i)
        BY RequestUnits
      <3> QED BY <3>1, <3>2
    <2> QED BY <1>3, <2>1, <2>2
  <1>5. Coming(w \o x, c, k, p, s + 1)
    BY <1>2, <1>4, ComingSent
  <1>6. k <= (s + 1) + 1 /\ (p > 0 => k <= s + 1)
    BY <1>2
  <1>7. Exact(c, w \o x, r, m, s + 1)
    BY <1>1, <1>2, <1>5, <1>6, Zenon DEF Exact
  <1> QED BY <1>3, <1>7

\* After an answer the lines on the wire are of later requests than the one answered.
LEMMA OrderedNext ==
  ASSUME NEW w \in Seq(UnitSet), NEW r, NEW s \in Nat, NEW S, NEW as \in Seq(S), NEW a \in S,
         Ordered(w, r, as, s), a.req = r.of, r.of \in Nat, NEW r2, r2.of = 0
  PROVE  Ordered(w, r2, Append(as, a), s)
  <1>1. PICK m \in Nat : m = Len(as)
    BY LenProperties
  <1>2. /\ Len(Append(as, a)) = m + 1 /\ Append(as, a)[m + 1] = a
        /\ \A i \in 1..m : Append(as, a)[i] = as[i]
    <2>1. /\ Append(as, a) \in Seq(S)
          /\ Append(as, a) # <<>>
          /\ Len(Append(as, a)) = Len(as) + 1
          /\ \A i \in 1..Len(as) : Append(as, a)[i] = as[i]
          /\ Append(as, a)[Len(as) + 1] = a
      BY AppendProperties, Zenon
    <2> QED BY <1>1, <2>1
  <1>3. \A i \in 1..(m + 1) : i \in 1..m \/ i = m + 1
    <2>1. m \in Nat
      BY <1>1
    <2> QED BY <2>1
  <1>4. \A i \in 1..Len(w) : w[i].req \in Nat
    <2>1. \A i \in 1..Len(w) : w[i] \in UnitSet
      BY ElementOfSeq
    <2> QED BY <2>1 DEF UnitSet
  <1>5. ASSUME NEW i \in 1..Len(w), w[i].t = "line"
        PROVE  r2.of < w[i].req /\ \A x \in 1..Len(Append(as, a)) : Append(as, a)[x].req < w[i].req
    <2>1. r.of < w[i].req /\ \A x \in 1..m : as[x].req < w[i].req
      BY <1>1, <1>5 DEF Ordered
    <2>2. r2.of < w[i].req
      BY <1>4, <2>1
    <2>3. \A x \in 1..(m + 1) : Append(as, a)[x].req < w[i].req
      BY <1>2, <1>3, <2>1
    <2> QED BY <1>2, <2>2, <2>3
  <1>6. /\ \A i \in 1..Len(w) : w[i].req <= s
        /\ \A i, j \in 1..Len(w) : i < j /\ w[i].t = "line" /\ w[j].t = "line" => w[i].req < w[j].req
    BY DEF Ordered
  <1>7. r2.of <= s
    OBVIOUS
  <1> QED BY <1>5, <1>6, <1>7, Zenon DEF Ordered

\* When a request was received whole it is the one expected, and the next one is expected then.
LEMMA ExactNext ==
  ASSUME NEW c \in Clients, NEW w, NEW r, r.at = "ok", NEW m \in Nat, NEW s \in Nat,
         Exact(c, w, r, m, s), NEW r2, r2.at = "head", r2.of = 0, r2.length = 0
  PROVE  /\ r.of = m + 1 /\ m + 1 <= s /\ Len(r.body) = Size(c, m + 1)
         /\ Exact(c, w, r2, m + 1, s)
  <1>1. PICK k \in Nat \ {0} : k = m + 1
    OBVIOUS
  <1>2. PICK p \in 0..Total(c, k) : /\ k <= s + 1 /\ (p > 0 => k <= s)
                                    /\ Coming(w, c, k, p, s) /\ Progress(r, k, Size(c, k), p)
    BY <1>1 DEF Exact
  <1>3. r.of = k /\ p = Total(c, k) /\ Len(r.body) = Size(c, k)
    BY <1>2 DEF Progress, Total
  <1>4. k <= s
    BY <1>2, <1>3, SizeNat
  <1>5. Coming(w, c, k + 1, 0, s)
    BY <1>2, <1>3, <1>4, ComingNext
  <1>6. Progress(r2, k + 1, Size(c, k + 1), 0)
    BY DEF Progress, HeadLen
  <1>7. k + 1 <= s + 1 /\ (0 > 0 => k + 1 <= s) /\ 0 \in 0..Total(c, k + 1)
    BY <1>4, SizeNat
  <1>8. Exact(c, w, r2, k, s)
    BY <1>5, <1>6, <1>7, Zenon DEF Exact
  <1> QED BY <1>1, <1>3, <1>4, <1>8
(***************************************************************************)
(* The steps of the server                                                 *)
(***************************************************************************)
\* A client that nothing happens to, but that it may be closed.
LEMMA Others ==
  ASSUME NEW d \in Clients, ClientOK(d), Waiting(d)' => Waiting(d),
         client'[d] = "idle" => client[d] = "idle", wire'[d] = wire[d], sent'[d] = sent[d], ses'[d] = ses[d],
         rx'[d] = rx[d], answers'[d] = answers[d]
  PROVE  ClientOK(d)'
  <1>1. PhaseOK(d)'
    BY DEF ClientOK, PhaseOK
  <1>2. StreamOK(d)'
    BY DEF ClientOK, StreamOK
  <1>3. AnswersOK(d)'
    BY DEF ClientOK, AnswersOK
  <1> QED BY <1>1, <1>2, <1>3 DEF ClientOK

\* A step of a session leaves the queues alone.
LEMMA QueuesKept ==
  ASSUME Queues, NEW c \in Clients, ses[c] # "none", backlog' = backlog,
         \A d \in Clients \ {c} : client'[d] = client[d] /\ ses'[d] = ses[d]
  PROVE  Queues' /\ ~Waiting(c) /\ \A d \in Clients : Waiting(d)' <=> Waiting(d)
  <1>1. \A d \in Clients : Waiting(d)' <=> Waiting(d)
    BY DEF Waiting
  <1>2. ~Waiting(c)
    BY DEF Queues
  <1> QED BY <1>1, <1>2 DEF Queues

\* Of the request in progress only its number matters to the order.
LEMMA OrderedOf ==
  ASSUME NEW w, NEW r, NEW as, NEW s, Ordered(w, r, as, s), NEW r2, r2.of = r.of
  PROVE  Ordered(w, r2, as, s)
  BY DEF Ordered

\* What recvRequest does with a read.
LEMMA Continued ==
  ASSUME SessionInv, NEW c \in Clients, ses[c] = "recv",
         NEW new \in RecvSet, Continue(c, new), NEW v \in Seq(UnitSet),
         wire' = [wire EXCEPT ![c] = v], UNCHANGED <<backlog, sent, slt, answers, m_datas>>,
         new.at # "null" => /\ Ordered(v, new, answers[c], sent[c]) /\ new.of # 0
                            /\ new.spoilt \/ Exact(c, v, new, Len(answers[c]), sent[c])
  PROVE  SessionInv'
  <1>1. /\ rx' = [rx EXCEPT ![c] = new]
        /\ ses' = [ses EXCEPT ![c] = IF new.at = "null" THEN "end"
                                     ELSE IF new.at = "ok" THEN "handle" ELSE "recv"]
        /\ client' = [client EXCEPT ![c] = IF new.at = "null" THEN "closed" ELSE @]
    <2>1. CASE new.at = "null"
      BY <2>1 DEF Continue, CloseSession
    <2>2. CASE new.at = "ok"
      BY <2>2 DEF Continue, SessionInv, ServerTypes
    <2>3. CASE new.at \notin {"null", "ok"}
      BY <2>3 DEF Continue, SessionInv, ServerTypes
    <2> QED BY <2>1, <2>2, <2>3
  <1>2. ServerTypes
    BY DEF SessionInv
  <1>3. ServerTypes'
    <2>1. wire' \in [Clients -> Seq(UnitSet)]
      BY <1>2 DEF ServerTypes
    <2>2. rx' \in [Clients -> RecvSet]
      BY <1>1, <1>2 DEF ServerTypes
    <2>3. ses' \in [Clients -> {"none", "end"} \cup Active] /\ client' \in [Clients -> {"idle", "open", "closed"}]
      BY <1>1, <1>2 DEF ServerTypes, Active
    <2> QED BY <1>2, <2>1, <2>2, <2>3 DEF ServerTypes
  <1>4. \A d \in Clients \ {c} : /\ client'[d] = client[d] /\ ses'[d] = ses[d] /\ wire'[d] = wire[d]
                                 /\ rx'[d] = rx[d]
    BY <1>1, <1>2 DEF ServerTypes
  <1>5. Queues' /\ ~Waiting(c) /\ \A d \in Clients : Waiting(d)' <=> Waiting(d)
    BY <1>4, QueuesKept DEF SessionInv
  <1>6. ASSUME NEW d \in Clients, d # c PROVE ClientOK(d)'
    BY <1>4, <1>5, <1>6, Others DEF SessionInv
  <1>7. /\ wire'[c] = v /\ rx'[c] = new
        /\ ses'[c] = IF new.at = "null" THEN "end" ELSE IF new.at = "ok" THEN "handle" ELSE "recv"
        /\ client'[c] = IF new.at = "null" THEN "closed" ELSE client[c]
    BY <1>1, <1>2 DEF ServerTypes
  <1>8. ClientOK(c) /\ client[c] # "idle"
    BY DEF SessionInv, ClientOK, PhaseOK
  <1>9. new.at \in {"null", "ok", "head", "body"}
    BY DEF RecvSet
  <1>10. PhaseOK(c)'
    BY <1>7, <1>8, <1>9 DEF PhaseOK
  <1>11. StreamOK(c)'
    <2>1. new.at = "null" => ses'[c] \notin Active
      BY <1>7 DEF Active
    <2> QED BY <1>5, <1>7, <2>1 DEF StreamOK
  <1>12. AnswersOK(c)'
    BY <1>8 DEF ClientOK, AnswersOK
  <1> QED BY <1>3, <1>5, <1>6, <1>10, <1>11, <1>12 DEF SessionInv, ClientOK

\* A read of the session.
LEMMA ReadInv == ASSUME SessionInv, NEW c \in Clients, Read(c) PROVE SessionInv'
  <1>1. PICK n \in 1..Len(wire[c]) :
          /\ n <= Wanted(rx[c], BuffSize)
          /\ Continue(c, Received(rx[c], SubSeq(wire[c], 1, n)))
          /\ wire' = [wire EXCEPT ![c] = SubSeq(@, n + 1, Len(@))]
    BY DEF Read
  <1>2. ses[c] = "recv" /\ UNCHANGED <<backlog, sent, slt, answers, m_datas>>
    BY DEF Read, dispatch
  <1>3. PICK w \in Seq(UnitSet), r \in RecvSet, s \in Nat, as \in Seq(AnswerSet) :
          w = wire[c] /\ r = rx[c] /\ s = sent[c] /\ as = answers[c]
    BY DEF SessionInv, ServerTypes
  <1>4. /\ r.at \in {"head", "body"} /\ (r.at = "body" => r.of # 0)
        /\ Ordered(w, r, as, s) /\ (r.spoilt \/ Exact(c, w, r, Len(as), s))
    BY <1>2, <1>3 DEF SessionInv, ClientOK, PhaseOK, StreamOK, Active
  <1>5. PICK units : units = SubSeq(w, 1, n)
    OBVIOUS
  <1>6. /\ units \in Seq(UnitSet) /\ Len(units) = n /\ n > 0 /\ n \in Nat
        /\ \A i \in 1..n : units[i] = w[i]
    <2>1. Len(w) \in Nat /\ n \in Nat /\ 0 \in Nat /\ 0 <= n /\ n <= Len(w) /\ n > 0
      BY <1>3, LenProperties
    <2>2. /\ SubSeq(w, 0 + 1, n) \in Seq(UnitSet) /\ Len(SubSeq(w, 0 + 1, n)) = n - 0
          /\ \A i \in 1..(n - 0) : SubSeq(w, 0 + 1, n)[i] = w[0 + i]
      BY <2>1, PartOf
    <2> QED BY <1>5, <2>1, <2>2
  <1>7. PICK new : new = Received(r, units)
    OBVIOUS
  <1>8. r.at = "body" => n <= r.left
    BY <1>1, <1>3 DEF Wanted
  <1>9. /\ new \in RecvSet
        /\ r.spoilt => new.spoilt
        /\ new.at # "null" => /\ new.of # 0
                              /\ r.of # 0 => new.of = r.of
                              /\ r.of = 0 => units[1].t = "line" /\ new.of = units[1].req
    BY <1>4, <1>6, <1>7, <1>8, ReceivedFacts
  <1> DEFINE v == SubSeq(w, n + 1, Len(w))
  <1>10. v \in Seq(UnitSet)
    <2>1. Len(w) \in Nat /\ n \in Nat /\ n <= Len(w)
      BY <1>3, <1>6, LenProperties
    <2> QED BY <2>1, PartOf
  <1>11. wire' = [wire EXCEPT ![c] = v] /\ Continue(c, new)
    BY <1>1, <1>3, <1>5, <1>7
  <1>12. n \in 1..Len(w)
    BY <1>3
  <1>13. r.of \in Nat /\ Len(as) \in Nat
    BY LenProperties DEF RecvSet
  <1>14. new.at # "null" => Ordered(v, new, as, s)
    <2> SUFFICES ASSUME new.at # "null" PROVE Ordered(v, new, as, s)
      OBVIOUS
    <2>1. /\ r.of # 0 => new.of = r.of
          /\ r.of = 0 => w[1].t = "line" /\ new.of = w[1].req
      BY <1>6, <1>9
    <2> QED BY <1>4, <1>12, <1>13, <2>1, OrderedRead, ZenonT(60)
  <1>15. new.at # "null" /\ ~new.spoilt => Exact(c, v, new, Len(as), s)
    <2> SUFFICES ASSUME new.at # "null", ~new.spoilt PROVE Exact(c, v, new, Len(as), s)
      OBVIOUS
    <2>1. Exact(c, w, r, Len(as), s)
      BY <1>4, <1>9
    <2>2. new = Received(r, SubSeq(w, 1, n))
      BY <1>5, <1>7
    <2> QED BY <1>4, <1>8, <1>12, <1>13, <2>1, <2>2, ExactRead, ZenonT(60)
  <1> HIDE DEF v
  <1> QED BY <1>2, <1>3, <1>9, <1>10, <1>11, <1>14, <1>15, Continued

\* The end of the connection, and a read that fails.
LEMMA ReadFailsInv ==
  ASSUME SessionInv, NEW c \in Clients, ReadEnd(c) \/ ReadTimeout(c) PROVE SessionInv'
  <1>1. /\ ses[c] = "recv" /\ UNCHANGED <<wire, backlog, sent, slt, answers, m_datas>>
        /\ Continue(c, ReadZero(rx[c])) \/ Continue(c, ReadError(rx[c]))
    BY DEF ReadEnd, ReadTimeout, dispatch
  <1>2. PICK r \in RecvSet : r = rx[c]
    BY DEF SessionInv, ServerTypes
  <1>3. /\ r.at \in {"head", "body"} /\ (r.at = "body" => r.of # 0)
        /\ Ordered(wire[c], r, answers[c], sent[c])
    BY <1>1, <1>2 DEF SessionInv, ClientOK, PhaseOK, StreamOK, Active
  <1>4. PICK new : Continue(c, new) /\ (new = ReadZero(r) \/ new = ReadError(r))
    BY <1>1, <1>2
  <1>5. new \in RecvSet /\ (new.at # "null" => new.of = r.of /\ new.of # 0 /\ new.spoilt)
    <2>1. CASE new = ReadZero(r)
      BY <2>1 DEF ReadZero, RecvSet
    <2>2. CASE new = ReadError(r)
      <3>1. CASE r.at = "head"
        BY <2>2, <3>1 DEF ReadError, RecvSet
      <3>2. CASE r.at = "body"
        <4>1. r.left + 1 \in Nat
          BY DEF RecvSet
        <4>2. new = [r EXCEPT !.left = @ + 1, !.spoilt = TRUE]
          BY <2>2, <3>2 DEF ReadError
        <4> QED BY <1>3, <3>2, <4>1, <4>2 DEF RecvSet
      <3> QED BY <1>3, <3>1, <3>2
    <2> QED BY <1>4, <2>1, <2>2
  <1>6. wire[c] \in Seq(UnitSet) /\ wire' = [wire EXCEPT ![c] = wire[c]]
    BY <1>1 DEF SessionInv, ServerTypes
  <1>7. new.at # "null" => Ordered(wire[c], new, answers[c], sent[c])
    BY <1>3, <1>5, OrderedOf
  <1> QED BY <1>1, <1>4, <1>5, <1>6, <1>7, Continued
\* What the dispatcher returns is a servlet.
LEMMA MatchedSlot ==
  ASSUME DispatchInv, ServerTypes, NEW u \in Paths PROVE getMatchedServlet(u) \in Slots
  <1> DEFINE I == {i \in 1..Len(m_globs) : <<m_globs[i][1], u>> \in Matches}
  <1>1. getMatchedServlet(u) = IF m_datas[u] # NoServlet THEN m_datas[u]
                               ELSE IF (IF I # {} THEN Min(I) ELSE 0) # 0
                               THEN m_globs[IF I # {} THEN Min(I) ELSE 0][2] ELSE NotFound
    BY DEF getMatchedServlet, SelectInSeq
  <1>2. m_globs \in Seq(Patterns \X Servlets)
    BY DEF DispatchInv, Agree
  <1>3. Len(m_globs) \in Nat /\ \A i \in 1..Len(m_globs) : m_globs[i][2] \in Servlets
    BY <1>2, LenProperties, ElementOfSeq
  <1>4. I # {} => Min(I) \in I
    <2>1. I \subseteq Nat
      BY <1>3
    <2> QED BY <2>1, MinIn
  <1>5. m_datas[u] \in Slots
    BY DEF ServerTypes
  <1> QED BY <1>1, <1>3, <1>4, <1>5 DEF Slots

\* The servlet is looked up.
LEMMA DispatchStep == ASSUME AnswerInv, NEW c \in Clients, Dispatch(c) PROVE SessionInv'
  <1>1. /\ ses[c] = "handle" /\ ses' = [ses EXCEPT ![c] = "send"]
        /\ \E s \in Chosen(c) : slt' = [slt EXCEPT ![c] = s]
        /\ UNCHANGED <<client, backlog, wire, sent, rx, answers, m_datas>>
    BY DEF Dispatch, peers, dispatch
  <1>2. ServerTypes /\ ClientOK(c) /\ DispatchInv
    BY DEF AnswerInv, SessionInv
  <1>3. Asked(c).path \in Paths
    <2>1. PICK k \in Nat : k = rx[c].of /\ k # 0 /\ k <= sent[c]
      BY <1>1, <1>2 DEF ServerTypes, RecvSet, ClientOK, PhaseOK, StreamOK, Active, Ordered
    <2>2. Script[c] \in Seq([path : Paths, n : Nat, close : BOOLEAN])
      BY ServerConstants
    <2>3. k \in 1..Len(Script[c])
      BY <1>2, <2>1, <2>2, LenProperties DEF ServerTypes
    <2>4. Script[c][k] \in [path : Paths, n : Nat, close : BOOLEAN]
      BY <2>2, <2>3, ElementOfSeq
    <2> QED BY <2>1, <2>4 DEF Asked
  <1>4. Chosen(c) \subseteq Slots
    BY <1>2, <1>3, MatchedSlot DEF Chosen, Slots
  <1>5. ServerTypes'
    BY <1>1, <1>2, <1>4 DEF ServerTypes, Active
  <1>6. \A d \in Clients \ {c} : client'[d] = client[d] /\ ses'[d] = ses[d]
    BY <1>1, <1>2 DEF ServerTypes
  <1>7. Queues' /\ ~Waiting(c) /\ \A d \in Clients : Waiting(d)' <=> Waiting(d)
    BY <1>1, <1>6, QueuesKept DEF AnswerInv, SessionInv
  <1>8. ASSUME NEW d \in Clients, d # c PROVE ClientOK(d)'
    BY <1>1, <1>6, <1>7, <1>8, Others DEF AnswerInv, SessionInv
  <1>9. ses'[c] = "send"
    BY <1>1, <1>2 DEF ServerTypes
  <1>10. PhaseOK(c)'
    BY <1>1, <1>2, <1>9 DEF ClientOK, PhaseOK
  <1>11. StreamOK(c)'
    BY <1>1, <1>2 DEF ClientOK, StreamOK, Active
  <1>12. AnswersOK(c)'
    BY <1>1, <1>2 DEF ClientOK, AnswersOK
  <1> QED BY <1>5, <1>7, <1>8, <1>10, <1>11, <1>12 DEF SessionInv, ClientOK

\* A number up to the next of m is the next or is up to m.
LEMMA Between ==
  ASSUME NEW m \in Nat, NEW i \in 1..(m + 1)
  PROVE  i \in 1..m \/ (i = m + 1 /\ i - 1 = m /\ (i > 1 => m \in 1..m))
  OBVIOUS

\* The answers stay in order when one is added that is to a later request.
LEMMA AnswerAdded ==
  ASSUME NEW c \in Clients, NEW as \in Seq(AnswerSet), NEW a \in AnswerSet, NEW s \in Nat,
         InOrder(c, as, s), a.req <= s, \A i \in 1..Len(as) : as[i].req < a.req,
         ~a.spoilt => a.req = Len(as) + 1 /\ a.got = Script[c][Len(as) + 1].n,
         NEW v, v = Append(as, a)
  PROVE  InOrder(c, v, s)
  <1>1. PICK m \in Nat : m = Len(as)
    BY LenProperties
  <1>2. Len(v) = m + 1 /\ v[m + 1] = a /\ \A i \in 1..m : v[i] = as[i]
    <2>1. /\ Append(as, a) \in Seq(AnswerSet)
          /\ Append(as, a) # <<>>
          /\ Len(Append(as, a)) = Len(as) + 1
          /\ \A i \in 1..Len(as) : Append(as, a)[i] = as[i]
          /\ Append(as, a)[Len(as) + 1] = a
      BY AppendProperties, Zenon
    <2> QED BY <1>1, <2>1
  <1> SUFFICES ASSUME NEW i \in 1..(m + 1)
               PROVE  /\ v[i].req <= s
                      /\ i > 1 => v[i - 1].req < v[i].req
                      /\ ~v[i].spoilt => v[i].req = i /\ v[i].got = Script[c][i].n
    BY <1>2 DEF InOrder
  <1>3. CASE i \in 1..m
    <2>1. i > 1 => i - 1 \in 1..m
      BY <1>3
    <2>2. v[i] = as[i] /\ (i > 1 => v[i - 1] = as[i - 1])
      BY <1>2, <1>3, <2>1
    <2> QED BY <1>1, <1>3, <2>2 DEF InOrder
  <1>4. CASE i = m + 1 /\ i \notin 1..m
    <2>1. v[i] = a
      BY <1>2, <1>4
    <2>2. i > 1 => v[i - 1].req < a.req
      <3>1. i - 1 = m /\ (i > 1 => m \in 1..m)
        BY <1>4, Between
      <3>2. i > 1 => v[m] = as[m] /\ as[m].req < a.req
        BY <1>1, <1>2, <3>1
      <3> QED BY <3>1, <3>2
    <2>3. ~a.spoilt => a.req = i /\ a.got = Script[c][i].n
      BY <1>1, <1>4
    <2> QED BY <2>1, <2>2, <2>3
  <1>5. i \in 1..m \/ (i = m + 1 /\ i \notin 1..m)
    BY <1>1, Between
  <1> QED BY <1>3, <1>4, <1>5

\* A response is sent.
LEMMA SendStep == ASSUME SessionInv, NEW c \in Clients, SendResponse(c) PROVE SessionInv'
  <1>0. PICK close \in Closes(c) :
          /\ answers' = [answers EXCEPT ![c] = Append(@, Answer(c, close))]
          /\ \/ CloseSession(c) /\ UNCHANGED rx
             \/ /\ ses' = [ses EXCEPT ![c] = "recv"]
                /\ rx' = [rx EXCEPT ![c] = [NewRecv EXCEPT !.spoilt = rx[c].spoilt]]
                /\ UNCHANGED client
    BY DEF SendResponse
  <1>1. /\ ses[c] = "send" /\ answers' = [answers EXCEPT ![c] = Append(@, Answer(c, close))]
        /\ slt' = [slt EXCEPT ![c] = NoServlet]
        /\ UNCHANGED <<backlog, wire, sent, m_datas>>
    BY <1>0 DEF SendResponse, dispatch
  <1>2. ServerTypes /\ ClientOK(c)
    BY DEF SessionInv
  <1>3. PICK w \in Seq(UnitSet), r \in RecvSet, s \in Nat, as \in Seq(AnswerSet) :
          w = wire[c] /\ r = rx[c] /\ s = sent[c] /\ as = answers[c]
    BY <1>2 DEF ServerTypes
  <1>4. r.at = "ok" /\ r.of # 0 /\ Ordered(w, r, as, s) /\ (r.spoilt \/ Exact(c, w, r, Len(as), s))
    BY <1>1, <1>2, <1>3 DEF ClientOK, PhaseOK, StreamOK, Active
  <1>5. PICK a : a = Answer(c, close)
    OBVIOUS
  <1>6. a \in AnswerSet /\ a.req = r.of /\ a.got = Len(r.body) /\ a.spoilt = r.spoilt
    <2>1. r.of \in Nat /\ r.spoilt \in BOOLEAN /\ r.body \in Seq(UnitSet) /\ slt[c] \in Slots
      BY <1>2 DEF RecvSet, ServerTypes
    <2>2. Len(r.body) \in Nat
      BY <2>1, LenProperties
    <2>3. PICK b \in BOOLEAN : b = ResponseClose(close)
      BY DEF ResponseClose
    <2>4. a = [req |-> r.of, slt |-> slt[c], got |-> Len(r.body), close |-> b, spoilt |-> r.spoilt]
      BY <1>3, <1>5, <2>3 DEF Answer
    <2> QED BY <2>1, <2>2, <2>4 DEF AnswerSet
  <1> DEFINE next == [NewRecv EXCEPT !.spoilt = r.spoilt]
  <1>7. /\ next \in RecvSet /\ next.at = "head" /\ next.of = 0 /\ next.spoilt = r.spoilt
    <2>1. <<>> \in Seq(UnitSet)
      BY EmptySeq
    <2> QED BY <2>1 DEF NewRecv, RecvSet
  <1>8. \/ /\ ses' = [ses EXCEPT ![c] = "end"] /\ client' = [client EXCEPT ![c] = "closed"]
           /\ rx' = rx
        \/ /\ ses' = [ses EXCEPT ![c] = "recv"] /\ client' = client
           /\ rx' = [rx EXCEPT ![c] = next]
    BY <1>0, <1>3 DEF CloseSession
  <1> HIDE DEF next
  <1>9. Append(as, a) \in Seq(AnswerSet)
    BY <1>6, AppendProperties
  <1>10. ServerTypes'
    <2>1. answers' \in [Clients -> Seq(AnswerSet)]
      BY <1>1, <1>2, <1>3, <1>5, <1>9 DEF ServerTypes
    <2>2. rx' \in [Clients -> RecvSet]
      BY <1>2, <1>7, <1>8 DEF ServerTypes
    <2>3. ses' \in [Clients -> {"none", "end"} \cup Active] /\ client' \in [Clients -> {"idle", "open", "closed"}]
      BY <1>2, <1>8 DEF ServerTypes, Active
    <2>4. slt' \in [Clients -> Slots]
      BY <1>1, <1>2 DEF ServerTypes, Slots
    <2> QED BY <1>1, <1>2, <2>1, <2>2, <2>3, <2>4 DEF ServerTypes
  <1>11. \A d \in Clients \ {c} : /\ client'[d] = client[d] /\ ses'[d] = ses[d] /\ rx'[d] = rx[d]
                                  /\ answers'[d] = answers[d]
    BY <1>1, <1>2, <1>8 DEF ServerTypes
  <1>12. Queues' /\ ~Waiting(c) /\ \A d \in Clients : Waiting(d)' <=> Waiting(d)
    BY <1>1, <1>11, QueuesKept DEF SessionInv
  <1>13. ASSUME NEW d \in Clients, d # c PROVE ClientOK(d)'
    BY <1>1, <1>11, <1>12, <1>13, Others DEF SessionInv
  <1>14. /\ answers'[c] = Append(as, a) /\ wire'[c] = w /\ sent'[c] = s
         /\ \/ ses'[c] = "end" /\ rx'[c] = r
            \/ ses'[c] = "recv" /\ rx'[c] = next
         /\ client'[c] \in {client[c], "closed"} /\ client[c] # "idle"
    BY <1>1, <1>2, <1>3, <1>5, <1>8 DEF ServerTypes, ClientOK, PhaseOK
  <1>15. PhaseOK(c)'
    BY <1>4, <1>7, <1>14 DEF PhaseOK
  <1>16. PICK m \in Nat : m = Len(as) /\ Len(Append(as, a)) = m + 1
    <2>1. Len(as) \in Nat
      BY LenProperties
    <2>2. Len(Append(as, a)) = Len(as) + 1
      BY <1>6, AppendProperties
    <2> QED BY <2>1, <2>2
  <1>17. ~r.spoilt => /\ r.of = m + 1 /\ m + 1 <= s /\ Len(r.body) = Size(c, m + 1)
                      /\ Exact(c, w, next, m + 1, s)
    <2> SUFFICES ASSUME ~r.spoilt
                 PROVE  /\ r.of = m + 1 /\ m + 1 <= s /\ Len(r.body) = Size(c, m + 1)
                        /\ Exact(c, w, next, m + 1, s)
      OBVIOUS
    <2>1. Exact(c, w, r, m, s) /\ r.at = "ok"
      BY <1>4, <1>16
    <2>2. next.at = "head" /\ next.of = 0 /\ next.length = 0
      BY DEF next, NewRecv
    <2>3. c \in Clients /\ m \in Nat /\ s \in Nat
      BY <1>3, <1>16
    <2>4. PICK x : x = next
      OBVIOUS
    <2>5. x.at = "head" /\ x.of = 0 /\ x.length = 0
      BY <2>2, <2>4
    <2>6. r.of = m + 1 /\ m + 1 <= s /\ Len(r.body) = Size(c, m + 1) /\ Exact(c, w, x, m + 1, s)
      BY <2>1, <2>3, <2>5, ExactNext, ZenonT(60)
    <2> QED BY <2>4, <2>6
  <1>18. StreamOK(c)'
    <2>1. Ordered(w, next, Append(as, a), s)
      <3>1. r.of \in Nat
        BY DEF RecvSet
      <3> QED BY <1>4, <1>6, <1>7, <3>1, OrderedNext
    <2> QED BY <1>7, <1>12, <1>14, <1>16, <1>17, <2>1 DEF StreamOK, Active
  <1>19. AnswersOK(c)'
    <2>1. InOrder(c, as, s)
      BY <1>2, <1>3 DEF ClientOK, AnswersOK
    <2>2. a.req <= s /\ \A i \in 1..Len(as) : as[i].req < a.req
      BY <1>4, <1>6, Zenon DEF Ordered
    <2>3. ~a.spoilt => a.req = Len(as) + 1 /\ a.got = Script[c][Len(as) + 1].n
      <3>1. m + 1 <= s => m + 1 \in DOMAIN Script[c]
        <4>1. Script[c] \in Seq([path : Paths, n : Nat, close : BOOLEAN])
          BY ServerConstants
        <4>2. s <= Len(Script[c]) /\ Len(Script[c]) \in Nat /\ DOMAIN Script[c] = 1..Len(Script[c])
          BY <1>2, <1>3, <4>1, LenProperties DEF ServerTypes
        <4> QED BY <4>2
      <3> QED BY <1>6, <1>16, <1>17, <3>1 DEF Size
    <2>4. PICK v : v = Append(as, a)
      OBVIOUS
    <2>5. InOrder(c, v, s)
      BY <1>6, <2>1, <2>2, <2>3, <2>4, <1>3, AnswerAdded, ZenonT(60)
    <2> QED BY <1>14, <2>4, <2>5 DEF AnswersOK
  <1> QED BY <1>10, <1>12, <1>13, <1>15, <1>18, <1>19 DEF SessionInv, ClientOK
(***************************************************************************)
(* The steps of the clients, of the accepting fibers and of the process    *)
(***************************************************************************)
\* A client connects: it waits at the address it dials, and nothing was sent on the
\* connection.
LEMMA ConnectStep == ASSUME SessionInv, NEW c \in Clients, ClientConnect(c) PROVE SessionInv'
  <1>1. /\ client[c] = "idle" /\ client' = [client EXCEPT ![c] = "open"]
        /\ backlog' = [backlog EXCEPT ![Dial[c]] = Append(@, c)]
        /\ UNCHANGED <<wire, sent, ses, rx, slt, answers, m_datas>>
    BY DEF ClientConnect, sessions, dispatch
  <1>2. PICK a \in Addrs : a = Dial[c]
    BY ServerConstants
  <1>3. ServerTypes /\ Queues /\ ClientOK(c)
    BY DEF SessionInv
  <1>4. PICK q \in Seq(Clients) : q = backlog[a]
    BY <1>3 DEF ServerTypes
  <1>5. PICK m \in Nat : m = Len(q)
    BY LenProperties
  <1>6. PICK v : v = Append(q, c)
    OBVIOUS
  <1>7. v \in Seq(Clients) /\ Len(v) = m + 1 /\ v[m + 1] = c /\ \A i \in 1..m : v[i] = q[i]
    <2>1. /\ Append(q, c) \in Seq(Clients)
          /\ Append(q, c) # <<>>
          /\ Len(Append(q, c)) = Len(q) + 1
          /\ \A i \in 1..Len(q) : Append(q, c)[i] = q[i]
          /\ Append(q, c)[Len(q) + 1] = c
      BY AppendProperties, Zenon
    <2> QED BY <1>5, <1>6, <2>1
  <1>8. backlog' = [backlog EXCEPT ![a] = v]
    BY <1>1, <1>2, <1>4, <1>6
  <1>9. ServerTypes'
    <2>1. backlog' \in [Addrs -> Seq(Clients)]
      BY <1>3, <1>7, <1>8 DEF ServerTypes
    <2>2. client' \in [Clients -> {"idle", "open", "closed"}]
      BY <1>1, <1>3 DEF ServerTypes
    <2> QED BY <1>1, <1>3, <2>1, <2>2 DEF ServerTypes
  <1>10. /\ \A b \in Addrs \ {a} : backlog'[b] = backlog[b]
         /\ backlog'[a] = v
         /\ \A d \in Clients \ {c} : client'[d] = client[d]
         /\ client'[c] = "open"
    BY <1>1, <1>3, <1>8 DEF ServerTypes
  <1>11. ~Waiting(c) /\ ses[c] = "none" /\ sent[c] = 0 /\ wire[c] = <<>> /\ rx[c] = NewRecv
         /\ answers[c] = <<>>
    BY <1>1, <1>3 DEF Queues, ClientOK, PhaseOK
  <1>12. ASSUME NEW b \in Addrs, NEW i \in 1..Len(backlog'[b])
         PROVE  \/ i \in 1..Len(backlog[b]) /\ backlog'[b][i] = backlog[b][i] /\ backlog[b][i] # c
                \/ b = a /\ i = m + 1 /\ backlog'[b][i] = c
    <2>1. CASE b # a
      BY <1>10, <1>11, <2>1 DEF Waiting
    <2>2. CASE b = a
      <3>1. i \in 1..(m + 1)
        BY <1>7, <1>10, <2>2
      <3>2. i \in 1..m \/ i = m + 1
        BY <3>1, Between
      <3>3. CASE i \in 1..m
        BY <1>4, <1>5, <1>7, <1>10, <1>11, <2>2, <3>3 DEF Waiting
      <3> QED BY <1>7, <1>10, <2>2, <3>2, <3>3
    <2> QED BY <2>1, <2>2
  <1>13. \A d \in Clients \ {c} : Waiting(d)' => Waiting(d)
    BY <1>12 DEF Waiting
  <1>14. Queues'
    <2>1. ASSUME NEW x \in Addrs, NEW b \in Addrs, NEW i \in 1..Len(backlog'[x]),
                 NEW j \in 1..Len(backlog'[b]), backlog'[x][i] = backlog'[b][j]
          PROVE  x = b /\ i = j
      <3>1. \/ i \in 1..Len(backlog[x]) /\ backlog'[x][i] = backlog[x][i] /\ backlog[x][i] # c
            \/ x = a /\ i = m + 1 /\ backlog'[x][i] = c
        BY <1>12
      <3>2. \/ j \in 1..Len(backlog[b]) /\ backlog'[b][j] = backlog[b][j] /\ backlog[b][j] # c
            \/ b = a /\ j = m + 1 /\ backlog'[b][j] = c
        BY <1>12
      <3> QED BY <1>3, <2>1, <3>1, <3>2 DEF Queues
    <2>2. ASSUME NEW d \in Clients, Waiting(d)' PROVE client'[d] # "idle" /\ ses'[d] = "none"
      BY <1>1, <1>3, <1>10, <1>11, <1>13, <2>2 DEF Queues
    <2> QED BY <2>1, <2>2 DEF Queues
  <1>15. ASSUME NEW d \in Clients, d # c PROVE ClientOK(d)'
    BY <1>1, <1>10, <1>13, <1>15, Others DEF SessionInv
  <1>16. PhaseOK(c)'
    BY <1>1, <1>3, <1>10 DEF ClientOK, PhaseOK
  <1>17. StreamOK(c)'
    <2>1. Ordered(<<>>, NewRecv, <<>>, 0)
      BY DEF Ordered, NewRecv
    <2>2. Exact(c, <<>>, NewRecv, 0, 0)
      <3>1. Progress(NewRecv, 1, Size(c, 1), 0)
        BY DEF Progress, NewRecv, HeadLen
      <3>2. 0 \in 0..Total(c, 1)
        BY SizeNat
      <3>3. Coming(<<>>, c, 1, 0, 0)
        BY ComingFirst
      <3>4. 0 + 1 = 1 /\ 1 <= 0 + 1 /\ ~(0 > 0)
        OBVIOUS
      <3> QED BY <3>1, <3>2, <3>3, <3>4 DEF Exact
    <2>3. Len(<<>>) = 0
      OBVIOUS
    <2> QED BY <1>1, <1>11, <2>1, <2>2, <2>3 DEF StreamOK
  <1>18. AnswersOK(c)'
    BY <1>1, <1>3 DEF ClientOK, AnswersOK
  <1> QED BY <1>9, <1>14, <1>15, <1>16, <1>17, <1>18 DEF SessionInv, ClientOK

\* A client sends its next request.
LEMMA ClientSendStep == ASSUME SessionInv, NEW c \in Clients, ClientSend(c) PROVE SessionInv'
  <1>1. ServerTypes /\ ClientOK(c)
    BY DEF SessionInv
  <1>2. PICK w \in Seq(UnitSet), r \in RecvSet, s \in Nat, as \in Seq(AnswerSet) :
          w = wire[c] /\ r = rx[c] /\ s = sent[c] /\ as = answers[c]
    BY <1>1 DEF ServerTypes
  <1>3. PICK n \in Nat : n = Size(c, s + 1)
    BY SizeNat
  <1>4. PICK l \in Nat : l = Len(Script[c]) /\ DOMAIN Script[c] = 1..l
    BY ServerConstants, LenProperties
  <1>5. s < l /\ client[c] = "open" /\ sent' = [sent EXCEPT ![c] = s + 1]
        /\ UNCHANGED <<client, backlog, ses, rx, slt, answers, m_datas>>
    BY <1>2, <1>4 DEF ClientSend, sessions, dispatch
  <1>6. s + 1 \in 1..l /\ s + 1 \in Nat \ {0} /\ s + 1 <= l
    BY <1>5
  <1>7. sent'[c] = s + 1
    BY <1>1, <1>5 DEF ServerTypes
  <1>8. n = Script[c][s + 1].n
    BY <1>3, <1>4, <1>6 DEF Size
  <1> DEFINE v == w \o Request(s + 1, n)
  <1>9. wire' = [wire EXCEPT ![c] = v]
    BY <1>2, <1>7, <1>8 DEF ClientSend
  <1>10. v \in Seq(UnitSet)
    <2>1. Request(s + 1, n) \in Seq(UnitSet)
      BY <1>6, RequestUnits
    <2> QED BY <2>1, ConcatProperties
  <1> HIDE DEF v
  <1>11. ServerTypes'
    <2>1. wire' \in [Clients -> Seq(UnitSet)]
      BY <1>1, <1>9, <1>10 DEF ServerTypes
    <2>2. sent' \in [Clients -> Nat] /\ \A d \in Clients : sent'[d] <= Len(Script[d])
      BY <1>1, <1>4, <1>5, <1>6 DEF ServerTypes
    <2> QED BY <1>1, <1>5, <2>1, <2>2 DEF ServerTypes
  <1>12. \A d \in Clients : Waiting(d)' <=> Waiting(d)
    BY <1>5 DEF Waiting
  <1>13. Queues'
    BY <1>5, <1>12 DEF SessionInv, Queues
  <1>14. \A d \in Clients \ {c} : wire'[d] = wire[d] /\ sent'[d] = sent[d]
    BY <1>1, <1>5, <1>9 DEF ServerTypes
  <1>15. ASSUME NEW d \in Clients, d # c PROVE ClientOK(d)'
    BY <1>5, <1>12, <1>14, <1>15, Others DEF SessionInv
  <1>16. PhaseOK(c)'
    BY <1>1, <1>5 DEF ClientOK, PhaseOK
  <1>17. wire'[c] = v
    BY <1>1, <1>9 DEF ServerTypes
  <1>18. InOrder(c, as, s)
    BY <1>1, <1>2 DEF ClientOK, AnswersOK
  <1>19. \A i \in 1..Len(as) : as[i] \in AnswerSet
    BY ElementOfSeq
  <1>20. StreamOK(c)'
    <2> SUFFICES ASSUME Waiting(c) \/ ses[c] \in Active
                 PROVE  /\ Ordered(v, r, as, s + 1)
                        /\ r.spoilt \/ Exact(c, v, r, Len(as), s + 1)
      BY <1>2, <1>5, <1>7, <1>12, <1>17 DEF StreamOK
    <2>1. Ordered(w, r, as, s) /\ (r.spoilt \/ Exact(c, w, r, Len(as), s))
      BY <1>1, <1>2 DEF ClientOK, StreamOK
    <2>2. \A i \in 1..Len(as) : as[i].req <= s /\ as[i].req \in Nat
      BY <1>18, <1>19 DEF InOrder, AnswerSet
    <2>3. r.of \in Nat /\ Len(as) \in Nat
      BY LenProperties DEF RecvSet
    <2>4. Ordered(v, r, as, s + 1)
      BY <1>2, <1>3, <2>1, <2>2, <2>3, OrderedSent, ZenonT(60) DEF v
    <2>5. Exact(c, w, r, Len(as), s) => Exact(c, v, r, Len(as), s + 1)
      BY <1>2, <1>3, <2>3, ExactSent, ZenonT(60) DEF v
    <2> QED BY <2>1, <2>4, <2>5
  <1>21. AnswersOK(c)'
    <2>1. ASSUME NEW i \in 1..Len(as) PROVE as[i].req <= s + 1
      <3>1. as[i].req <= s /\ as[i].req \in Nat
        BY <1>18, <1>19 DEF InOrder, AnswerSet
      <3> QED BY <1>2, <3>1, Below
    <2>2. InOrder(c, as, s + 1)
      BY <1>18, <2>1 DEF InOrder
    <2> QED BY <1>2, <1>5, <1>7, <2>2 DEF AnswersOK
  <1> QED BY <1>11, <1>13, <1>15, <1>16, <1>20, <1>21 DEF SessionInv, ClientOK
\* A client closes.
LEMMA ClientCloseStep == ASSUME SessionInv, NEW c \in Clients, ClientClose(c) PROVE SessionInv'
  <1>1. /\ client[c] = "open" /\ client' = [client EXCEPT ![c] = "closed"]
        /\ UNCHANGED <<backlog, wire, sent, ses, rx, slt, answers, m_datas>>
    BY DEF ClientClose, sessions, dispatch
  <1>2. ServerTypes /\ Queues
    BY DEF SessionInv
  <1>3. ServerTypes'
    <2>1. client' \in [Clients -> {"idle", "open", "closed"}]
      BY <1>1, <1>2 DEF ServerTypes
    <2> QED BY <1>1, <1>2, <2>1 DEF ServerTypes
  <1>4. \A d \in Clients : client'[d] = "idle" => client[d] = "idle"
    BY <1>1, <1>2 DEF ServerTypes
  <1>5. \A d \in Clients : Waiting(d)' <=> Waiting(d)
    BY <1>1 DEF Waiting
  <1>6. Queues'
    BY <1>1, <1>2, <1>4, <1>5 DEF Queues
  <1>7. ASSUME NEW d \in Clients PROVE ClientOK(d)'
    BY <1>1, <1>4, <1>5, Others DEF SessionInv
  <1> QED BY <1>3, <1>6, <1>7 DEF SessionInv

\* A client is accepted: it waits no more and has a session.
LEMMA AcceptStepInv == ASSUME SessionInv, NEW a \in Addrs, Accept(a) PROVE SessionInv'
  <1>1. ServerTypes /\ Queues
    BY DEF SessionInv
  <1>2. CASE ~isValid(lsock[a])
    <2>1. UNCHANGED <<client, backlog, wire, sent, ses, rx, slt, answers, m_datas>>
      BY <1>2 DEF Accept, dispatch
    <2>2. ServerTypes' /\ Queues'
      <3>1. \A d \in Clients : Waiting(d)' <=> Waiting(d)
        BY <2>1 DEF Waiting
      <3> QED BY <1>1, <2>1, <3>1 DEF ServerTypes, Queues
    <2>3. ASSUME NEW d \in Clients PROVE ClientOK(d)'
      <3>1. Waiting(d)' => Waiting(d)
        BY <2>1 DEF Waiting
      <3> QED BY <2>1, <3>1, Others DEF SessionInv
    <2> QED BY <2>2, <2>3 DEF SessionInv
  <1>3. CASE isValid(lsock[a])
    <2>1. PICK q \in Seq(Clients) : q = backlog[a] /\ q # <<>>
      BY <1>1, <1>3 DEF Accept, ServerTypes
    <2>2. PICK m \in Nat : m = Len(q) /\ m > 0
      BY <2>1, LenProperties, EmptySeq
    <2>3. PICK c \in Clients : c = Head(q) /\ c = q[1]
      BY <2>1, <2>2, ElementOfSeq
    <2>4. PICK v : v = Tail(q)
      OBVIOUS
    <2>5. v \in Seq(Clients) /\ Len(v) = m - 1 /\ \A i \in 1..(m - 1) : v[i] = q[i + 1]
      BY <2>1, <2>2, <2>4
    <2>6. /\ ses' = [ses EXCEPT ![c] = "recv"] /\ backlog' = [backlog EXCEPT ![a] = v]
          /\ UNCHANGED <<client, wire, sent, rx, slt, answers, m_datas>>
      BY <1>3, <2>1, <2>3, <2>4 DEF Accept, dispatch
    <2>7. ServerTypes'
      <3>1. backlog' \in [Addrs -> Seq(Clients)]
        BY <1>1, <2>5, <2>6 DEF ServerTypes
      <3>2. ses' \in [Clients -> {"none", "end"} \cup Active]
        BY <1>1, <2>6 DEF ServerTypes, Active
      <3> QED BY <1>1, <2>6, <3>1, <3>2 DEF ServerTypes
    <2>8. /\ \A b \in Addrs \ {a} : backlog'[b] = backlog[b]
          /\ backlog'[a] = v
          /\ \A d \in Clients \ {c} : ses'[d] = ses[d]
          /\ ses'[c] = "recv"
      BY <1>1, <2>6 DEF ServerTypes
    <2>9. 1 \in 1..Len(backlog[a]) /\ backlog[a][1] = c
      BY <2>1, <2>2, <2>3
    <2>10. Waiting(c) /\ client[c] # "idle" /\ ses[c] = "none"
      BY <1>1, <2>9 DEF Waiting, Queues
    <2>11. ASSUME NEW b \in Addrs, NEW i \in 1..Len(backlog'[b])
           PROVE  \E j \in 1..Len(backlog[b]) : /\ backlog'[b][i] = backlog[b][j]
                                                /\ b = a => j = i + 1
                                                /\ b # a => j = i
      <3>1. CASE b # a
        BY <2>8, <3>1
      <3>2. CASE b = a
        <4>1. i \in 1..(m - 1)
          BY <2>5, <2>8, <3>2
        <4>2. i + 1 \in 1..m
          BY <2>2, <4>1
        <4>3. v[i] = q[i + 1]
          BY <2>5, <4>1
        <4> QED BY <2>1, <2>2, <2>8, <3>2, <4>2, <4>3
      <3> QED BY <3>1, <3>2
    <2>12. ASSUME NEW b \in Addrs, NEW i \in 1..Len(backlog'[b]) PROVE backlog'[b][i] # c
      <3>1. PICK j \in 1..Len(backlog[b]) : backlog'[b][i] = backlog[b][j] /\ (b = a => j = i + 1)
        BY <2>11
      <3>2. backlog[b][j] = c => b = a /\ j = 1
        BY <1>1, <2>9 DEF Queues
      <3>3. i + 1 # 1
        OBVIOUS
      <3> QED BY <3>1, <3>2, <3>3
    <2>13. ~Waiting(c)' /\ \A d \in Clients : Waiting(d)' => Waiting(d)
      BY <2>11, <2>12, SMTT(30) DEF Waiting
    <2>14. Queues'
      <3>1. ASSUME NEW x \in Addrs, NEW b \in Addrs, NEW i \in 1..Len(backlog'[x]),
                   NEW j \in 1..Len(backlog'[b]), backlog'[x][i] = backlog'[b][j]
            PROVE  x = b /\ i = j
        <4>1. PICK k \in 1..Len(backlog[x]) : /\ backlog'[x][i] = backlog[x][k]
                                              /\ x = a => k = i + 1
                                              /\ x # a => k = i
          BY <2>11
        <4>2. PICK l \in 1..Len(backlog[b]) : /\ backlog'[b][j] = backlog[b][l]
                                              /\ b = a => l = j + 1
                                              /\ b # a => l = j
          BY <2>11
        <4>3. backlog[x][k] = backlog[b][l]
          BY <3>1, <4>1, <4>2, Zenon
        <4>4. x = b /\ k = l
          BY <1>1, <4>3, SMTT(30) DEF Queues
        <4>5. i + 1 = j + 1 => i = j
          OBVIOUS
        <4> QED BY <4>1, <4>2, <4>4, <4>5
      <3>2. ASSUME NEW d \in Clients, Waiting(d)' PROVE client'[d] # "idle" /\ ses'[d] = "none"
        BY <1>1, <2>6, <2>8, <2>13, <3>2 DEF Queues
      <3> QED BY <3>1, <3>2 DEF Queues
    <2>15. ASSUME NEW d \in Clients, d # c PROVE ClientOK(d)'
      BY <2>6, <2>8, <2>13, <2>15, Others DEF SessionInv
    <2>16. ClientOK(c) /\ rx[c] = NewRecv
      BY <2>10 DEF SessionInv, ClientOK, PhaseOK
    <2>17. NewRecv.at = "head" /\ NewRecv.of = 0
      BY DEF NewRecv
    <2>18. PhaseOK(c)'
      BY <2>6, <2>8, <2>10, <2>16, <2>17 DEF ClientOK, PhaseOK
    <2>19. StreamOK(c)'
      BY <2>6, <2>10, <2>16 DEF ClientOK, StreamOK
    <2>20. AnswersOK(c)'
      BY <2>6, <2>16 DEF ClientOK, AnswersOK
    <2> QED BY <2>7, <2>14, <2>15, <2>18, <2>19, <2>20 DEF SessionInv, ClientOK
  <1> QED BY <1>2, <1>3

\* stop() closes the sockets and the kernel resets the clients that wait at them.
LEMMA StopTaskStep == ASSUME SessionInv, StopTask PROVE SessionInv'
  <1>1. PICK as : as = m_socks
    OBVIOUS
  <1>2. /\ backlog' = [a \in Addrs |-> IF a \in as THEN <<>> ELSE backlog[a]]
        /\ client' = [c \in Clients |-> IF \E a \in as : \E i \in DOMAIN backlog[a] : backlog[a][i] = c
                                        THEN "closed" ELSE client[c]]
        /\ UNCHANGED <<wire, sent, ses, rx, slt, answers, m_datas>>
    BY <1>1 DEF StopTask, Reset, sessions, dispatch
  <1>3. ServerTypes /\ Queues
    BY DEF SessionInv
  <1>4. \A d \in Clients : client'[d] \in {client[d], "closed"}
    BY <1>2
  <1>5. ServerTypes'
    <2>1. backlog' \in [Addrs -> Seq(Clients)]
      <3>1. <<>> \in Seq(Clients)
        BY EmptySeq
      <3> QED BY <1>2, <1>3, <3>1 DEF ServerTypes
    <2>2. client' \in [Clients -> {"idle", "open", "closed"}]
      BY <1>2, <1>3 DEF ServerTypes
    <2> QED BY <1>2, <1>3, <2>1, <2>2 DEF ServerTypes
  <1>6. ASSUME NEW b \in Addrs, NEW i \in 1..Len(backlog'[b])
        PROVE  i \in 1..Len(backlog[b]) /\ backlog'[b][i] = backlog[b][i]
    <2>1. backlog'[b] = <<>> \/ backlog'[b] = backlog[b]
      BY <1>2
    <2>2. backlog'[b] # <<>>
      OBVIOUS
    <2> QED BY <2>1, <2>2
  <1>7. \A d \in Clients : Waiting(d)' => Waiting(d)
    BY <1>6 DEF Waiting
  <1>8. Queues'
    <2>1. ASSUME NEW x \in Addrs, NEW b \in Addrs, NEW i \in 1..Len(backlog'[x]),
                 NEW j \in 1..Len(backlog'[b]), backlog'[x][i] = backlog'[b][j]
          PROVE  x = b /\ i = j
      BY <1>3, <1>6, <2>1 DEF Queues
    <2>2. ASSUME NEW d \in Clients, Waiting(d)' PROVE client'[d] # "idle" /\ ses'[d] = "none"
      BY <1>2, <1>3, <1>4, <1>7, <2>2 DEF Queues
    <2> QED BY <2>1, <2>2 DEF Queues
  <1>9. ASSUME NEW d \in Clients PROVE ClientOK(d)'
    BY <1>2, <1>4, <1>7, Others DEF SessionInv
  <1> QED BY <1>5, <1>8, <1>9 DEF SessionInv
\* The process is gone: nobody waits and no session goes on.
LEMMA GoneStep == ASSUME SessionInv, NEW code, Gone(code) PROVE SessionInv'
  <1>1. /\ backlog' = [a \in Addrs |-> <<>>]
        /\ client' = [c \in Clients |-> IF client[c] = "open" THEN "closed" ELSE client[c]]
        /\ wire' = [c \in Clients |-> <<>>]
        /\ ses' = [c \in Clients |-> IF ses[c] = "none" THEN "none" ELSE "end"]
        /\ rx' = [c \in Clients |-> NewRecv] /\ slt' = [c \in Clients |-> NoServlet]
        /\ m_datas' = [u \in Paths |-> NoServlet]
        /\ UNCHANGED <<sent, answers>>
    BY DEF Gone
  <1>2. ServerTypes
    BY DEF SessionInv
  <1>3. NewRecv \in RecvSet /\ NewRecv.at = "head"
    <2>1. <<>> \in Seq(UnitSet)
      BY EmptySeq
    <2> QED BY <2>1 DEF NewRecv, RecvSet
  <1>4. ServerTypes'
    <2>1. backlog' \in [Addrs -> Seq(Clients)] /\ wire' \in [Clients -> Seq(UnitSet)]
      <3>1. <<>> \in Seq(Clients) /\ <<>> \in Seq(UnitSet)
        BY EmptySeq
      <3> QED BY <1>1, <3>1
    <2>2. client' \in [Clients -> {"idle", "open", "closed"}]
      BY <1>1, <1>2 DEF ServerTypes
    <2>3. ses' \in [Clients -> {"none", "end"} \cup Active]
      BY <1>1
    <2>4. rx' \in [Clients -> RecvSet]
      BY <1>1, <1>3
    <2>5. slt' \in [Clients -> Slots] /\ m_datas' \in [Paths -> Slots]
      BY <1>1 DEF Slots
    <2> QED BY <1>1, <1>2, <2>1, <2>2, <2>3, <2>4, <2>5 DEF ServerTypes
  <1>5. \A a \in Addrs : Len(backlog'[a]) = 0
    BY <1>1
  <1>6. \A d \in Clients : ~Waiting(d)'
    BY <1>5 DEF Waiting
  <1>7. Queues'
    BY <1>5, <1>6 DEF Queues
  <1>8. ASSUME NEW d \in Clients PROVE ClientOK(d)'
    <2>1. /\ client'[d] = "idle" => client[d] = "idle"
          /\ ses'[d] = IF ses[d] = "none" THEN "none" ELSE "end"
          /\ rx'[d] = NewRecv /\ wire'[d] = <<>> /\ sent'[d] = sent[d] /\ answers'[d] = answers[d]
      BY <1>1
    <2>2. ClientOK(d)
      BY DEF SessionInv
    <2>3. PhaseOK(d)'
      BY <1>3, <2>1, <2>2 DEF ClientOK, PhaseOK
    <2>4. StreamOK(d)'
      BY <1>6, <2>1 DEF StreamOK, Active
    <2>5. AnswersOK(d)'
      BY <2>1, <2>2 DEF ClientOK, AnswersOK
    <2> QED BY <2>3, <2>4, <2>5 DEF ClientOK
  <1> QED BY <1>4, <1>7, <1>8 DEF SessionInv

\* What a servlet is registered for is not part of a session.
LEMMA SameSessions ==
  ASSUME SessionInv, UNCHANGED <<client, backlog, wire, sent, ses, rx, slt, answers>>,
         m_datas' \in [Paths -> Slots]
  PROVE  SessionInv'
  <1>1. ServerTypes'
    BY DEF SessionInv, ServerTypes
  <1>2. \A d \in Clients : Waiting(d)' <=> Waiting(d)
    BY DEF Waiting
  <1>3. Queues'
    BY <1>2 DEF SessionInv, Queues
  <1>4. ASSUME NEW d \in Clients PROVE ClientOK(d)'
    BY <1>2, Others DEF SessionInv
  <1> QED BY <1>1, <1>3, <1>4 DEF SessionInv

\* Servlets are registered and removed.
LEMMA AdministerStep == ASSUME SessionInv, Administer PROVE SessionInv'
  <1>1. UNCHANGED <<client, backlog, wire, sent, ses, rx, slt, answers>>
    BY DEF Administer, peers, sessions
  <1>2. m_datas \in [Paths -> Slots]
    BY DEF SessionInv, ServerTypes
  <1>3. \/ \E u \in Paths, s \in Servlets : m_datas' = [m_datas EXCEPT ![u] = s]
        \/ \E u \in Paths : m_datas' = [m_datas EXCEPT ![u] = NoServlet]
        \/ m_datas' = m_datas
    BY DEF Administer, addServlet, delServlet, addGlobServlet, delGlobServlet
  <1>4. m_datas' \in [Paths -> Slots]
    BY <1>2, <1>3 DEF Slots
  <1> QED BY <1>1, <1>4, SameSessions

\* At the start nobody has connected.
LEMMA AnswerInvInit == Init => AnswerInv
  <1> SUFFICES ASSUME Init PROVE AnswerInv
    OBVIOUS
  <1>1. DispatchInv
    BY DispatchInvInit
  <1>2. /\ client = [c \in Clients |-> "idle"] /\ backlog = [a \in Addrs |-> <<>>]
        /\ wire = [c \in Clients |-> <<>>] /\ sent = [c \in Clients |-> 0]
        /\ ses = [c \in Clients |-> "none"]
        /\ rx = [c \in Clients |-> NewRecv] /\ slt = [c \in Clients |-> NoServlet]
        /\ answers = [c \in Clients |-> <<>>]
        /\ m_datas = [u \in Paths |-> NoServlet]
    BY DEF Init, ServerInit, DispatchInit
  <1>3. NewRecv \in RecvSet /\ NewRecv.at = "head"
    <2>1. <<>> \in Seq(UnitSet)
      BY EmptySeq
    <2> QED BY <2>1 DEF NewRecv, RecvSet
  <1>4. ServerTypes
    <2>1. backlog \in [Addrs -> Seq(Clients)] /\ wire \in [Clients -> Seq(UnitSet)]
          /\ answers \in [Clients -> Seq(AnswerSet)]
      <3>1. <<>> \in Seq(Clients) /\ <<>> \in Seq(UnitSet) /\ <<>> \in Seq(AnswerSet)
        BY EmptySeq
      <3> QED BY <1>2, <3>1
    <2>2. sent \in [Clients -> Nat] /\ \A c \in Clients : sent[c] <= Len(Script[c])
      <3>1. \A c \in Clients : Len(Script[c]) \in Nat
        BY ServerConstants, LenProperties
      <3>2. \A c \in Clients : sent[c] = 0
        BY <1>2
      <3>3. \A l \in Nat : 0 <= l
        OBVIOUS
      <3>4. sent \in [Clients -> Nat]
        BY <1>2
      <3> QED BY <3>1, <3>2, <3>3, <3>4
    <2>3. client \in [Clients -> {"idle", "open", "closed"}] /\ ses \in [Clients -> {"none", "end"} \cup Active]
      BY <1>2
    <2>4. rx \in [Clients -> RecvSet]
      BY <1>2, <1>3
    <2>5. slt \in [Clients -> Slots] /\ m_datas \in [Paths -> Slots]
      BY <1>2 DEF Slots
    <2> QED BY <2>1, <2>2, <2>3, <2>4, <2>5 DEF ServerTypes
  <1>5. \A a \in Addrs : Len(backlog[a]) = 0
    BY <1>2
  <1>6. \A d \in Clients : ~Waiting(d)
    BY <1>5 DEF Waiting
  <1>7. Queues
    BY <1>5, <1>6 DEF Queues
  <1>8. ASSUME NEW d \in Clients PROVE ClientOK(d)
    <2>1. /\ client[d] = "idle" /\ ses[d] = "none" /\ sent[d] = 0 /\ wire[d] = <<>>
          /\ rx[d] = NewRecv /\ answers[d] = <<>>
      BY <1>2
    <2>2. PhaseOK(d)
      BY <1>3, <2>1 DEF PhaseOK
    <2>3. StreamOK(d)
      BY <1>6, <2>1 DEF StreamOK, Active
    <2>4. AnswersOK(d)
      BY <2>1 DEF AnswersOK, InOrder
    <2> QED BY <2>2, <2>3, <2>4 DEF ClientOK
  <1> QED BY <1>1, <1>4, <1>7, <1>8 DEF AnswerInv, SessionInv

\* Every step of the system keeps the invariant.
LEMMA AnswerInvNext == AnswerInv /\ [Next]_vars => AnswerInv'
  <1> SUFFICES ASSUME AnswerInv, [Next]_vars PROVE SessionInv'
    BY DispatchInvNext DEF AnswerInv
  <1>1. SessionInv /\ m_datas \in [Paths -> Slots]
    BY DEF AnswerInv, SessionInv, ServerTypes
  <1>2. CASE UNCHANGED <<client, backlog, wire, sent, ses, rx, slt, answers, m_datas>>
    BY <1>1, <1>2, SameSessions
  <1>3. ASSUME NEW c \in Clients, SessionStep(c) \/ ClientStep(c) PROVE SessionInv'
    BY <1>1, <1>3, ReadInv, ReadFailsInv, DispatchStep, SendStep, ConnectStep, ClientSendStep,
       ClientCloseStep DEF SessionStep, ClientStep
  <1>4. ASSUME NEW a \in Addrs, AcceptStep(a) PROVE SessionInv'
    <2>1. CASE AcceptCheck(a)
      BY <1>1, <2>1, SameSessions DEF AcceptCheck, peers, sessions, dispatch
    <2> QED BY <1>1, <1>4, <2>1, AcceptStepInv DEF AcceptStep
  <1>5. CASE StopTask
    BY <1>1, <1>5, StopTaskStep
  <1>6. CASE Administer
    BY <1>1, <1>6, AdministerStep
  <1>7. CASE Stop
    BY <1>1, <1>7, SameSessions DEF Stop, peers, sessions, dispatch
  <1>8. CASE Gone(0) \/ Gone(1)
    BY <1>1, <1>8, GoneStep
  <1>9. CASE ProcessNext
    <2>1. \/ Gone(0) \/ Gone(1)
          \/ UNCHANGED <<client, backlog, wire, sent, ses, rx, slt, answers, m_datas>>
      BY <1>9 DEF ProcessNext, Start, PidFileFails, RunFiber, Crash, MainReturns, WaitPid, Slept,
         serverVars, peers, sessions, dispatch
    <2> QED BY <1>2, <1>8, <2>1
  <1>10. CASE UNCHANGED vars
    BY <1>2, <1>10 DEF vars, serverVars, peers, sessions, dispatch
  <1> QED BY <1>3, <1>4, <1>5, <1>6, <1>7, <1>9, <1>10 DEF Next, ServerNext

\* Answers are given in the order of the requests, none twice and none to a request that was
\* not sent; and while nothing was dropped on a connection, none is left out and each is given
\* with its whole body: for any clients, scripts, reads of any length, timeouts, closes, crashes
\* and restarts.
THEOREM ServerAnswersInOrder == Spec => []AnswersInOrder
  <1>1. AnswerInv => AnswersInOrder
    <2> SUFFICES ASSUME AnswerInv, NEW c \in Clients, NEW i \in DOMAIN answers[c]
                 PROVE  /\ answers[c][i].req <= sent[c]
                        /\ i > 1 => answers[c][i - 1].req < answers[c][i].req
                        /\ ~answers[c][i].spoilt => /\ answers[c][i].req = i
                                                    /\ answers[c][i].got = Script[c][i].n
      BY DEF AnswersInOrder
    <2>1. answers[c] \in Seq(AnswerSet) /\ InOrder(c, answers[c], sent[c])
      BY DEF AnswerInv, SessionInv, ServerTypes, ClientOK, AnswersOK
    <2>2. i \in 1..Len(answers[c])
      BY <2>1, LenProperties
    <2> QED BY <2>1, <2>2 DEF InOrder
  <1> QED BY <1>1, AnswerInvInit, AnswerInvNext, PTL DEF Spec

=============================================================================
