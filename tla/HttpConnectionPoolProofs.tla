---------------------- MODULE HttpConnectionPoolProofs ----------------------
(***************************************************************************)
(* Theorems about HttpConnectionPool, for every set of fibers, every limit *)
(* of the pool and every bound on the connections and the requests.        *)
(***************************************************************************)
EXTENDS HttpConnectionPool, FiniteSetTheorems, SequenceTheorems, TLAPS

\* Where a fiber is in its request, against the connections it holds.
Phase == \A f \in Fibers :
    /\ pc[f] \in {"idle", "connect", "failed"} => ptr[f] = None
    /\ pc[f] \in {"send", "spin", "recv", "release", "push", "uncount"} => ptr[f] # None
    /\ invalid[f] # {} => pc[f] \in {"purge", "deduct"}
    /\ pc[f] \in {"purge", "deduct", "connect", "push"} => mode[f] = "pool"
    /\ ptr[f] \notin invalid[f]

\* The life of the connections a fiber holds, against where it is.
Lives == \A f \in Fibers :
    /\ pc[f] = "purge" => \A c \in invalid[f] : life[c] = "live"
    /\ pc[f] = "deduct" => \A c \in invalid[f] : life[c] = "deleted"
    /\ pc[f] = "uncount" => life[ptr[f]] = "deleted"

\* The inductive invariant: OneOwner is not inductive by itself, because what a step
\* pushes, deletes or opens depends on where the fiber is.
OwnerInv == TypeOK /\ Phase /\ Lives /\ OneOwner

(***************************************************************************)
(* One lemma for the steps that move nothing, and one for every other step.*)
(***************************************************************************)

\* A null pointer is no connection.
LEMMA NoneIsNoConn ==
    None \notin Conns
BY PoolAssumption DEF None, Conns

\* What a fiber that lets its connection go leaves of its own state.
LEMMA ForgetLocals ==
    ASSUME TypeOK, NEW f \in Fibers, Forget(f)
    PROVE  /\ pc' = [pc EXCEPT ![f] = "idle"] /\ pc' \in [Fibers -> PCs]
           /\ ptr' = [ptr EXCEPT ![f] = None] /\ ptr' \in [Fibers -> Conns \cup {None}]
           /\ timeouts' \in [Fibers -> Nat] /\ result' \in [Fibers -> Errors]
BY DEF Forget, Goto, TypeOK, PCs, Errors

\* The end of a request: with a connection to release, or without.
LEMMA DoneLocals ==
    ASSUME TypeOK, NEW f \in Fibers, NEW r \in Errors, Done(f, r)
    PROVE  /\ pc' = [pc EXCEPT ![f] = IF ptr[f] = None THEN "failed" ELSE "release"]
           /\ pc' \in [Fibers -> PCs] /\ result' \in [Fibers -> Errors]
BY DEF Done, Goto, TypeOK, PCs, Errors

\* Steps of the exchange keep every connection where it is.
LEMMA ExchangeStep ==
    ASSUME OwnerInv, NEW f \in Fibers, Send(f) \/ Recv(f) \/ Parse(f)
    PROVE  /\ OwnerInv'
           /\ UNCHANGED <<m_conns, m_total, life, ptr, invalid, mode>>
           /\ pc' \in [Fibers -> PCs]
           /\ \A g \in Fibers \ {f} : pc'[g] = pc[g]
           /\ pc[f] \in {"send", "recv"} /\ pc'[f] \in {"spin", "recv", "release"}
<1> USE NoneIsNoConn DEF OwnerInv
<1>1. UNCHANGED <<m_conns, m_total, life, ptr, invalid, mode, m_request, peer, n>>
  BY DEF Send, Recv, Parse
<1>2. pc[f] \in {"send", "recv"} /\ ptr[f] # None /\ ptr[f] \in Conns
  BY DEF Send, Recv, Parse, Phase, TypeOK
<1>3. /\ pc' \in [Fibers -> PCs]
      /\ \A g \in Fibers \ {f} : pc'[g] = pc[g]
      /\ pc'[f] \in {"spin", "recv", "release"}
      /\ connected' \in [Conns -> BOOLEAN] /\ dirty' \subseteq Conns
      /\ result' \in [Fibers -> Errors]
  <2>1. CASE Send(f)
    BY <2>1, <1>2, ZenonT(60) DEF Send, Goto, TypeOK, PCs
  <2>2. CASE Recv(f) \/ Parse(f)
    <3>1. pc[f] = "recv" /\ Follow(f, rx'[f])
      BY <2>2 DEF Recv, Parse
    <3>2. /\ connected' = [connected EXCEPT ![ptr[f]] = @ /\ rx'[f].at # "null"]
          /\ dirty' = IF rx'[f].split THEN dirty \cup {ptr[f]} ELSE dirty
      BY <3>1 DEF Follow
    <3>3. connected' \in [Conns -> BOOLEAN] /\ dirty' \subseteq Conns
      BY <1>2, <3>2 DEF TypeOK
    <3>4. Done(f, "OK") \/ Done(f, "TIMEOUT") \/ UNCHANGED <<pc, result>>
      BY <3>1 DEF Follow
    <3>5. "OK" \in Errors /\ "TIMEOUT" \in Errors
      BY DEF Errors
    <3>6. \/ UNCHANGED <<pc, result>>
          \/ /\ pc' = [pc EXCEPT ![f] = "release"]
             /\ result' \in [Fibers -> Errors]
      BY <1>2, <3>4, <3>5, DoneLocals
    <3>7. /\ pc' \in [Fibers -> PCs]
          /\ \A g \in Fibers \ {f} : pc'[g] = pc[g]
          /\ pc'[f] \in {"recv", "release"}
          /\ result' \in [Fibers -> Errors]
      BY <3>1, <3>6 DEF TypeOK, PCs
    <3> QED BY <3>3, <3>7
  <2> QED BY <2>1, <2>2
<1>4. timeouts' \in [Fibers -> Nat]
  <2>1. UNCHANGED timeouts \/ timeouts' = [timeouts EXCEPT ![f] = @ + 1]
    BY Zenon DEF Send, Recv, Parse
  <2> QED BY <2>1 DEF TypeOK
<1>5. TypeOK'
  BY <1>1, <1>3, <1>4 DEF TypeOK
<1>6. Phase'
  BY <1>1, <1>2, <1>3 DEF Phase
<1>7. Lives' /\ OneOwner'
  BY <1>1, <1>2, <1>3 DEF Lives, OneOwner, Held
<1> QED BY <1>1, <1>2, <1>3, <1>5, <1>6, <1>7

\* The connections in the list, by their places.
LEMMA ListRange ==
    ASSUME TypeOK
    PROVE  /\ Len(m_conns) \in Nat /\ DOMAIN m_conns = 1..Len(m_conns)
           /\ \A i \in 1..Len(m_conns) : m_conns[i] \in Conns
           /\ \A c : c \in Range(m_conns) <=> \E i \in 1..Len(m_conns) : m_conns[i] = c
BY LenProperties, ElementOfSeq DEF TypeOK, Range

\* What is left of a list behind its k-th element.
LEMMA RestOfList ==
    ASSUME NEW S, NEW s \in Seq(S), NEW k \in 1..(Len(s) + 1),
           NEW t, t = SubSeq(s, k + 1, Len(s))
    PROVE  /\ t \in Seq(S) /\ Len(t) \in Nat
           /\ \A i \in 1..Len(t) : k + i \in 1..Len(s) /\ t[i] = s[k + i]
<1>1. Len(s) \in Nat /\ \A i \in 1..Len(s) : s[i] \in S
  BY LenProperties, ElementOfSeq
<1>2. k \in Int /\ 1 <= k
  BY <1>1
<1>3. \A i \in (k + 1)..Len(s) : s[i] \in S
  BY <1>1, <1>2
<1>4. /\ t \in Seq(S)
      /\ Len(t) = IF k + 1 <= Len(s) THEN Len(s) - (k + 1) + 1 ELSE 0
      /\ \A i \in 1..(Len(s) - (k + 1) + 1) : t[i] = s[(k + 1) + i - 1]
  BY <1>1, <1>2, <1>3, SubSeqProperties
<1>5. Len(t) \in Nat
  BY <1>4, LenProperties
<1>6. ASSUME NEW i \in 1..Len(t)
      PROVE  k + i \in 1..Len(s) /\ t[i] = s[k + i]
  <2> DEFINE l == Len(s)
  <2>1. /\ i \in Int /\ 1 <= i /\ i <= Len(t) /\ l \in Nat
        /\ Len(t) = IF k + 1 <= l THEN l - (k + 1) + 1 ELSE 0
    BY <1>1, <1>4, <1>5
  <2> HIDE DEF l
  <2>2. i \in 1..(l - (k + 1) + 1) /\ (k + 1) + i - 1 = k + i /\ k + i \in 1..l
    BY <1>2, <1>5, <2>1
  <2> QED BY <1>4, <2>2 DEF l
<1> QED BY <1>4, <1>5, <1>6

\* getConnection() splits the list in three: the bad connections in front, the one it
\* returns, and the rest.
LEMMA GetConnectionStep ==
    ASSUME OwnerInv, NEW f \in Fibers, GetConnection(f)
    PROVE  /\ OwnerInv'
           /\ UNCHANGED <<m_total, life>>
           /\ pc[f] = "idle" /\ pc'[f] \in {"purge", "connect", "send"}
           /\ mode' = [mode EXCEPT ![f] = "pool"]
           /\ ptr[f] = None /\ ptr'[f] \in Range(m_conns) \cup {None}
           /\ \A g \in Fibers \ {f} : pc'[g] = pc[g] /\ ptr'[g] = ptr[g] /\ invalid'[g] = invalid[g]
<1> USE NoneIsNoConn DEF OwnerInv
<1>1. PICK k \in 1..(Len(m_conns) + 1) :
        /\ pc[f] = "idle"
        /\ m_conns' = SubSeq(m_conns, k + 1, Len(m_conns))
        /\ invalid' = [invalid EXCEPT ![f] = {m_conns[i] : i \in 1..(k - 1)}]
        /\ ptr' = [ptr EXCEPT ![f] = IF k <= Len(m_conns) THEN m_conns[k] ELSE None]
        /\ mode' = [mode EXCEPT ![f] = "pool"]
        /\ n' = [n EXCEPT ![f] = @ + 1]
        /\ pc' = [pc EXCEPT ![f] = IF k > 1 THEN "purge"
                                   ELSE IF m_conns = <<>> THEN "connect" ELSE "send"]
  BY DEF GetConnection, Goto
<1>2. UNCHANGED <<m_total, connVars, rx, timeouts, result>>
  BY DEF GetConnection
<1>3. /\ Len(m_conns) \in Nat
      /\ \A i \in 1..Len(m_conns) : m_conns[i] \in Conns
      /\ \A c : c \in Range(m_conns) <=> \E i \in 1..Len(m_conns) : m_conns[i] = c
      /\ DOMAIN m_conns = 1..Len(m_conns)
  BY ListRange
<1>4. /\ m_conns' \in Seq(Conns)
      /\ Len(m_conns') \in Nat
      /\ \A i \in 1..Len(m_conns') : k + i \in 1..Len(m_conns) /\ m_conns'[i] = m_conns[k + i]
  <2>1. m_conns \in Seq(Conns)
    BY DEF TypeOK
  <2>2. k \in 1..(Len(m_conns) + 1) /\ m_conns' = SubSeq(m_conns, k + 1, Len(m_conns))
    BY <1>1
  <2> QED BY <2>1, <2>2, RestOfList
<1>5. TypeOK'
  <2>1. {m_conns[i] : i \in 1..(k - 1)} \subseteq Conns
    BY <1>3
  <2>2. k <= Len(m_conns) => m_conns[k] \in Conns
    BY <1>3
  <2>3. invalid' \in [Fibers -> SUBSET Conns] /\ ptr' \in [Fibers -> Conns \cup {None}]
    BY <1>1, <2>1, <2>2 DEF TypeOK
  <2>4. pc' \in [Fibers -> PCs] /\ mode' \in [Fibers -> {"pool", "own"}] /\ n' \in [Fibers -> Nat]
    BY <1>1 DEF TypeOK, PCs
  <2> QED BY <1>2, <1>4, <2>3, <2>4 DEF TypeOK, connVars
<1>6. /\ \A i, j \in 1..Len(m_conns) : m_conns[i] = m_conns[j] => i = j
      /\ \A c \in Range(m_conns) : life[c] = "live"
      /\ \A g \in Fibers : Held(g) \cap Range(m_conns) = {}
  BY <1>3 DEF OneOwner
<1>7. /\ ptr[f] = None /\ invalid[f] = {}
      /\ pc'[f] \in {"purge", "connect", "send"}
      /\ ptr'[f] \in Range(m_conns) \cup {None}
      /\ invalid'[f] \subseteq Range(m_conns)
      /\ ptr'[f] \notin invalid'[f]
      /\ m_conns = <<>> <=> Len(m_conns) = 0
  <2>1. ptr[f] = None /\ invalid[f] = {} /\ pc'[f] \in {"purge", "connect", "send"}
    BY <1>1 DEF Phase, TypeOK
  <2>2. /\ ptr'[f] = IF k <= Len(m_conns) THEN m_conns[k] ELSE None
        /\ invalid'[f] = {m_conns[i] : i \in 1..(k - 1)}
    BY <1>1 DEF TypeOK
  <2>3. ptr'[f] \in Range(m_conns) \cup {None} /\ invalid'[f] \subseteq Range(m_conns)
    BY <1>3, <2>2
  <2>4. ptr'[f] \notin invalid'[f]
    BY <1>3, <1>6, <2>2
  <2>5. m_conns = <<>> <=> Len(m_conns) = 0
    BY EmptySeq DEF TypeOK
  <2> QED BY <2>1, <2>3, <2>4, <2>5
<1>8. \A g \in Fibers \ {f} : /\ pc'[g] = pc[g] /\ ptr'[g] = ptr[g] /\ invalid'[g] = invalid[g]
                              /\ mode'[g] = mode[g]
  BY <1>1 DEF TypeOK
<1>9. Phase'
  <2>1. /\ pc'[f] = "connect" => ptr'[f] = None
        /\ pc'[f] = "send" => ptr'[f] # None
        /\ invalid'[f] # {} => pc'[f] = "purge"
        /\ mode'[f] = "pool"
    BY <1>1, <1>3, <1>7 DEF TypeOK
  <2> QED BY <1>7, <1>8, <2>1 DEF Phase
<1>10. Lives'
  BY <1>2, <1>6, <1>7, <1>8 DEF Lives, connVars
<1>11. OneOwner'
  <2>1. \A c : c \in Range(m_conns)' <=> \E i \in 1..Len(m_conns') : m_conns'[i] = c
    BY <1>4, LenProperties DEF Range
  <2>2. Range(m_conns)' \subseteq Range(m_conns)
    BY <1>1, <1>3, <1>4, <2>1
  <2>3. Held(f)' \cap Range(m_conns)' = {}
    <3>1. \A i \in 1..k : \A j \in 1..Len(m_conns') : i \in 1..Len(m_conns) => m_conns[i] # m_conns'[j]
      <4> SUFFICES ASSUME NEW i \in 1..k, NEW j \in 1..Len(m_conns'), i \in 1..Len(m_conns)
                   PROVE  m_conns[i] # m_conns'[j]
        OBVIOUS
      <4>1. k + j \in 1..Len(m_conns) /\ i # k + j /\ m_conns'[j] = m_conns[k + j]
        BY <1>3, <1>4
      <4> QED BY <1>6, <4>1
    <3>2. \A c \in Held(f)' : \E i \in 1..k : i \in 1..Len(m_conns) /\ m_conns[i] = c
      BY <1>1, <1>3 DEF Held, TypeOK
    <3> QED BY <2>1, <3>1, <3>2
  <2>4. \A i, j \in DOMAIN m_conns' : m_conns'[i] = m_conns'[j] => i = j
    <3>1. DOMAIN m_conns' = 1..Len(m_conns') /\ Len(m_conns') \in Nat
      BY <1>4, LenProperties
    <3> SUFFICES ASSUME NEW i \in 1..Len(m_conns'), NEW j \in 1..Len(m_conns'),
                        m_conns'[i] = m_conns'[j]
                 PROVE  i = j
      BY <3>1
    <3>2. /\ k + i \in 1..Len(m_conns) /\ m_conns'[i] = m_conns[k + i]
          /\ k + j \in 1..Len(m_conns) /\ m_conns'[j] = m_conns[k + j]
      BY <1>3, <1>4
    <3>3. k + i = k + j
      BY <1>6, <3>2
    <3> QED BY <3>1, <3>3
  <2>5. Held(f)' \subseteq Range(m_conns)
    BY <1>7 DEF Held
  <2>6. \A g \in Fibers \ {f} : Held(g)' = Held(g)
    BY <1>8 DEF Held
  <2>7. \A g \in Fibers : Held(g)' \cap Range(m_conns)' = {}
    BY <1>6, <2>2, <2>3, <2>6
  <2>8. \A g, h \in Fibers : g # h => Held(g)' \cap Held(h)' = {}
    BY <1>6, <2>5, <2>6 DEF OneOwner
  <2>9. \A c \in Range(m_conns)' : life'[c] = "live"
    BY <1>2, <1>6, <2>2 DEF connVars
  <2>10. \A g \in Fibers : ptr'[g] # None /\ pc'[g] # "uncount" => life'[ptr'[g]] = "live"
    BY <1>2, <1>6, <1>7, <1>8 DEF OneOwner, connVars
  <2> QED BY <2>4, <2>7, <2>8, <2>9, <2>10 DEF OneOwner
<1> QED BY <1>1, <1>2, <1>5, <1>7, <1>8, <1>9, <1>10, <1>11 DEF connVars

\* The two steps behind the mutex: the bad connections are deleted, then forgotten.
LEMMA PurgeStep ==
    ASSUME OwnerInv, NEW f \in Fibers, PurgeDelete(f) \/ PurgeCount(f), m_total' \in Nat
    PROVE  OwnerInv'
<1> USE NoneIsNoConn DEF OwnerInv
<1>1. UNCHANGED <<m_conns, ptr, mode, m_request, peer, dirty, n, timeouts, result>>
  BY DEF PurgeDelete, PurgeCount, connVars
<1>2. CASE PurgeDelete(f)
  <2>1. /\ pc[f] = "purge" /\ pc' = [pc EXCEPT ![f] = "deduct"]
        /\ invalid' = invalid
        /\ life' = [c \in Conns |-> IF c \in invalid[f] THEN "deleted" ELSE life[c]]
        /\ connected' = [c \in Conns |-> connected[c] /\ c \notin invalid[f]]
    BY <1>2 DEF PurgeDelete, Delete, Goto
  <2>2. TypeOK'
    BY <1>1, <2>1 DEF TypeOK, PCs
  <2>3. Phase'
    BY <1>1, <2>1 DEF Phase, TypeOK
  <2>4. \A g \in Fibers \ {f} : ptr[g] \notin invalid[f] /\ invalid[g] \cap invalid[f] = {}
    BY DEF OneOwner, Held, Phase, TypeOK
  <2>5. Lives'
    BY <1>1, <2>1, <2>4 DEF Lives, TypeOK, Phase
  <2>6. OneOwner'
    <3>1. \A c \in Range(m_conns) : c \in Conns /\ c \notin invalid[f]
      BY ListRange DEF OneOwner, Held
    <3>2. ptr[f] \notin invalid[f]
      BY DEF Phase
    <3>3. \A g \in Fibers : ptr[g] # None => ptr[g] \in Conns /\ ptr[g] \notin invalid[f]
      BY <2>4, <3>2 DEF TypeOK
    <3> QED BY <1>1, <2>1, <3>1, <3>3 DEF OneOwner, Held, TypeOK
  <2> QED BY <2>2, <2>3, <2>5, <2>6
<1>3. CASE PurgeCount(f)
  <2>1. /\ pc[f] = "deduct"
        /\ pc' = [pc EXCEPT ![f] = IF ptr[f] = None THEN "connect" ELSE "send"]
        /\ invalid' = [invalid EXCEPT ![f] = {}]
        /\ life' = life /\ connected' = connected
    BY <1>3 DEF PurgeCount, connVars, Goto
  <2>2. TypeOK'
    BY <1>1, <2>1 DEF TypeOK, PCs
  <2>3. Phase'
    BY <1>1, <2>1 DEF Phase, TypeOK
  <2>4. Lives'
    BY <1>1, <2>1 DEF Lives, TypeOK
  <2>5. \A g \in Fibers : Held(g)' \subseteq Held(g)
    BY <1>1, <2>1 DEF Held, TypeOK
  <2>6. OneOwner'
    <3>1. /\ \A g \in Fibers : Held(g)' \cap Range(m_conns) = {}
          /\ \A g, h \in Fibers : g # h => Held(g)' \cap Held(h)' = {}
      BY <2>5 DEF OneOwner
    <3> QED BY <1>1, <2>1, <3>1 DEF OneOwner, TypeOK
  <2> QED BY <2>2, <2>3, <2>4, <2>6
<1> QED BY <1>2, <1>3

\* A new connection goes to the fiber that made it, and nobody else has it.
LEMMA OpenStep ==
    ASSUME OwnerInv, NEW f \in Fibers, ptr[f] = None, invalid[f] = {},
           NEW c \in NewConns, Open(f, c), pc[f] # "deduct",
           mode' \in [Fibers -> {"pool", "own"}], \A g \in Fibers \ {f} : mode'[g] = mode[g],
           m_total' \in Nat, n' \in [Fibers -> Nat],
           UNCHANGED <<m_conns, invalid, timeouts, result>>
    PROVE  /\ OwnerInv'
           /\ life[c] = "unused" /\ c \in Conns
           /\ life' = [life EXCEPT ![c] = "live"]
           /\ ptr' = [ptr EXCEPT ![f] = c] /\ pc' = [pc EXCEPT ![f] = "send"]
           /\ \A g \in Fibers : c \notin Held(g)
<1> USE NoneIsNoConn DEF OwnerInv
<1>1. c \in Conns /\ life[c] = "unused"
  BY DEF NewConns
<1>2. /\ life' = [life EXCEPT ![c] = "live"] /\ connected' = [connected EXCEPT ![c] = TRUE]
      /\ peer' = peer \cup {c} /\ ptr' = [ptr EXCEPT ![f] = c]
      /\ pc' = [pc EXCEPT ![f] = "send"]
      /\ UNCHANGED <<m_request, dirty>>
  BY DEF Open, Goto
<1>3. TypeOK'
  BY <1>1, <1>2 DEF TypeOK, PCs
<1>4. Phase'
  BY <1>1, <1>2 DEF Phase, TypeOK
<1>5. \A g \in Fibers : \A d \in Held(g) : d \in Conns /\ life[d] # "unused"
  <2> SUFFICES ASSUME NEW g \in Fibers, NEW d \in Held(g)
               PROVE  d \in Conns /\ life[d] # "unused"
    OBVIOUS
  <2>1. CASE d \in invalid[g]
    BY <2>1, ZenonT(60) DEF Phase, Lives, TypeOK
  <2>2. CASE d = ptr[g] /\ ptr[g] # None
    BY <2>2 DEF OneOwner, Lives, TypeOK
  <2> QED BY <2>1, <2>2 DEF Held
<1>6. \A g \in Fibers : c \notin Held(g)
  BY <1>1, <1>5
<1>7. c \notin Range(m_conns)
  BY <1>1 DEF OneOwner
<1>8. Lives'
  BY <1>1, <1>2, <1>6 DEF Lives, Held, TypeOK
<1>9. OneOwner'
  <2>1. Held(f)' = {c} /\ \A g \in Fibers \ {f} : Held(g)' = Held(g)
    BY <1>1, <1>2 DEF Held, TypeOK
  <2>2. /\ \A g \in Fibers : Held(g)' \cap Range(m_conns) = {}
        /\ \A g, h \in Fibers : g # h => Held(g)' \cap Held(h)' = {}
    BY <1>6, <1>7, <2>1 DEF OneOwner
  <2>3. \A d \in Range(m_conns) : life'[d] = "live"
    BY <1>2, <1>7, ListRange DEF OneOwner, TypeOK
  <2>4. \A g \in Fibers : ptr'[g] # None /\ pc'[g] # "uncount" => life'[ptr'[g]] = "live"
    BY <1>1, <1>2 DEF OneOwner, TypeOK
  <2> QED BY <2>2, <2>3, <2>4 DEF OneOwner
<1> QED BY <1>1, <1>2, <1>3, <1>4, <1>6, <1>8, <1>9

\* A fiber whose locals go, with nothing else to keep.
LEMMA FailedStep ==
    ASSUME OwnerInv, NEW f \in Fibers, Failed(f)
    PROVE  OwnerInv'
<1> USE NoneIsNoConn DEF OwnerInv
<1>1. /\ pc[f] = "failed" /\ ptr[f] = None
      /\ UNCHANGED <<m_conns, m_total, connVars, mode, invalid, n>>
  BY DEF Failed, Phase
<1>2. /\ pc' = [pc EXCEPT ![f] = "idle"] /\ pc' \in [Fibers -> PCs]
      /\ ptr' = [ptr EXCEPT ![f] = None] /\ ptr' \in [Fibers -> Conns \cup {None}]
      /\ timeouts' \in [Fibers -> Nat] /\ result' \in [Fibers -> Errors]
  BY ForgetLocals DEF Failed
<1>3. ptr' = ptr
  BY <1>1, <1>2 DEF TypeOK
<1>4. TypeOK'
  BY <1>1, <1>2 DEF TypeOK, connVars
<1>5. Phase' /\ Lives' /\ OneOwner'
  BY <1>1, <1>2, <1>3 DEF Phase, Lives, OneOwner, Held, TypeOK, connVars
<1> QED BY <1>4, <1>5

\* ReleasePtr and the destructor: the connection is deleted, or on its way to the list.
LEMMA ReleaseStep ==
    ASSUME OwnerInv, NEW f \in Fibers, Release(f)
    PROVE  OwnerInv'
<1> USE NoneIsNoConn DEF OwnerInv
<1> DEFINE c == ptr[f]
<1>1. /\ pc[f] = "release" /\ c \in Conns /\ c # None
      /\ UNCHANGED <<m_conns, m_total, peer, dirty, mode, ptr, invalid, n, timeouts, result>>
  BY DEF Release, Phase, TypeOK
<1>2. m_request' \in [Conns -> Nat]
  BY <1>1 DEF Release, TypeOK
<1>3. \/ mode[f] = "pool" /\ pc' = [pc EXCEPT ![f] = "push"] /\ UNCHANGED <<life, connected>>
      \/ /\ pc' = [pc EXCEPT ![f] = "uncount"]
         /\ life' = [d \in Conns |-> IF d = c THEN "deleted" ELSE life[d]]
         /\ connected' = [d \in Conns |-> connected[d] /\ d # c]
  BY DEF Release, Delete, Goto
<1>4. TypeOK'
  <2>1. connected' \in [Conns -> BOOLEAN]
    BY <1>3 DEF TypeOK
  <2>2. life' \in [Conns -> {"unused", "live", "deleted"}]
    <3> DEFINE dead == [d \in Conns |-> IF d = c THEN "deleted" ELSE life[d]]
    <3>1. dead \in [Conns -> {"unused", "live", "deleted"}]
      BY DEF TypeOK
    <3>2. life' = life \/ life' = dead
      BY <1>3
    <3> QED BY <3>1, <3>2 DEF TypeOK
  <2>3. pc' \in [Fibers -> PCs]
    BY <1>3 DEF TypeOK, PCs
  <2> QED BY <1>1, <1>2, <2>1, <2>2, <2>3 DEF TypeOK
<1>5. Phase'
  BY <1>1, <1>3 DEF Phase, TypeOK
<1>6. \A g \in Fibers \ {f} : c \notin Held(g)
  BY <1>1 DEF OneOwner, Held
<1>7. Lives'
  <2>1. CASE UNCHANGED life /\ pc' = [pc EXCEPT ![f] = "push"]
    BY <1>1, <2>1 DEF Lives, TypeOK
  <2>2. CASE /\ pc' = [pc EXCEPT ![f] = "uncount"]
             /\ life' = [d \in Conns |-> IF d = c THEN "deleted" ELSE life[d]]
    <3>1. \A g \in Fibers \ {f} : pc'[g] = pc[g] /\ ptr[g] # c /\ c \notin invalid[g]
      BY <1>1, <1>6, <2>2 DEF Held, TypeOK
    <3>2. pc'[f] = "uncount" /\ life'[c] = "deleted"
      BY <1>1, <2>2 DEF TypeOK
    <3>3. \A d \in Conns \ {c} : life'[d] = life[d]
      BY <2>2
    <3>4. \A g \in Fibers : invalid[g] \subseteq Conns /\ (pc[g] = "uncount" => ptr[g] \in Conns)
      BY DEF Phase, TypeOK
    <3> QED BY <1>1, <3>1, <3>2, <3>3, <3>4 DEF Lives
  <2> QED BY <1>3, <2>1, <2>2
<1>8. OneOwner'
  <2>1. c \notin Range(m_conns)
    BY <1>1 DEF OneOwner, Held
  <2>2. \A d \in Range(m_conns) : d \in Conns /\ life'[d] = "live"
    BY <1>3, <2>1, ListRange DEF OneOwner
  <2>3. \A g \in Fibers : ptr[g] # None /\ pc'[g] # "uncount" => life'[ptr[g]] = "live"
    BY <1>1, <1>3, <1>6 DEF OneOwner, Held, TypeOK
  <2> QED BY <1>1, <2>2, <2>3 DEF OneOwner, Held
<1> QED BY <1>4, <1>5, <1>7, <1>8

\* The fiber forgets the connection it deleted.
LEMMA UncountStep ==
    ASSUME OwnerInv, NEW f \in Fibers, Uncount(f), m_total' \in Nat
    PROVE  OwnerInv'
<1> USE NoneIsNoConn DEF OwnerInv
<1>1. /\ pc[f] = "uncount" /\ UNCHANGED <<m_conns, connVars, mode, invalid, n>>
  BY DEF Uncount
<1>2. /\ pc' = [pc EXCEPT ![f] = "idle"] /\ pc' \in [Fibers -> PCs]
      /\ ptr' = [ptr EXCEPT ![f] = None] /\ ptr' \in [Fibers -> Conns \cup {None}]
      /\ timeouts' \in [Fibers -> Nat] /\ result' \in [Fibers -> Errors]
  BY ForgetLocals DEF Uncount
<1>3. TypeOK'
  BY <1>1, <1>2 DEF TypeOK, connVars
<1>4. Phase' /\ Lives'
  BY <1>1, <1>2 DEF Phase, Lives, TypeOK, connVars
<1>5. \A g \in Fibers : Held(g)' \subseteq Held(g)
  BY <1>1, <1>2 DEF Held, TypeOK
<1>6. OneOwner'
  <2>1. /\ \A g \in Fibers : Held(g)' \cap Range(m_conns) = {}
        /\ \A g, h \in Fibers : g # h => Held(g)' \cap Held(h)' = {}
    BY <1>5 DEF OneOwner
  <2> QED BY <1>1, <1>2, <2>1 DEF OneOwner, TypeOK, connVars
<1> QED BY <1>3, <1>4, <1>6

\* The connection moves from the fiber to the end of the list.
LEMMA PushStep ==
    ASSUME OwnerInv, NEW f \in Fibers, Push(f)
    PROVE  OwnerInv'
<1> USE NoneIsNoConn DEF OwnerInv
<1> DEFINE c == ptr[f]
<1>1. /\ pc[f] = "push" /\ c \in Conns /\ c # None /\ life[c] = "live"
      /\ m_conns' = Append(m_conns, c)
      /\ UNCHANGED <<m_total, connVars, mode, invalid, n>>
  BY DEF Push, Phase, TypeOK, OneOwner
<1>2. /\ pc' = [pc EXCEPT ![f] = "idle"] /\ pc' \in [Fibers -> PCs]
      /\ ptr' = [ptr EXCEPT ![f] = None] /\ ptr' \in [Fibers -> Conns \cup {None}]
      /\ timeouts' \in [Fibers -> Nat] /\ result' \in [Fibers -> Errors]
  BY ForgetLocals DEF Push
<1>3. /\ m_conns' \in Seq(Conns) /\ Len(m_conns) \in Nat
      /\ Len(m_conns') = Len(m_conns) + 1
      /\ \A i \in 1..Len(m_conns) : m_conns'[i] = m_conns[i]
      /\ m_conns'[Len(m_conns) + 1] = c
      /\ DOMAIN m_conns' = 1..(Len(m_conns) + 1)
      /\ DOMAIN m_conns = 1..Len(m_conns)
  BY <1>1, AppendProperties, LenProperties DEF TypeOK
<1>4. TypeOK'
  BY <1>1, <1>2, <1>3 DEF TypeOK, connVars
<1>5. Phase' /\ Lives'
  BY <1>1, <1>2 DEF Phase, Lives, TypeOK, connVars
<1>6. c \notin Range(m_conns)
  BY <1>1 DEF OneOwner, Held
<1>7. Range(m_conns)' = Range(m_conns) \cup {c}
  BY <1>3 DEF Range
<1>8. \A i, j \in DOMAIN m_conns' : m_conns'[i] = m_conns'[j] => i = j
  <2> SUFFICES ASSUME NEW i \in 1..(Len(m_conns) + 1), NEW j \in 1..(Len(m_conns) + 1),
                      m_conns'[i] = m_conns'[j]
               PROVE  i = j
    BY <1>3
  <2>1. \A k \in 1..Len(m_conns) : m_conns[k] # c
    BY <1>3, <1>6 DEF Range
  <2>2. i = Len(m_conns) + 1 <=> j = Len(m_conns) + 1
    BY <1>3, <2>1
  <2> QED BY <1>3, <2>2 DEF OneOwner
<1>9. Held(f)' = {} /\ \A g \in Fibers \ {f} : Held(g)' = Held(g) /\ c \notin Held(g)
  <2>1. Held(f)' = {}
    <3>1. invalid[f] = {} /\ invalid' = invalid
      BY <1>1 DEF Phase
    <3>2. ptr'[f] = None
      BY <1>2 DEF TypeOK
    <3> QED BY <3>1, <3>2 DEF Held
  <2>2. c \in Held(f)
    BY <1>1, SMTT(20) DEF Held, Phase, TypeOK
  <2>3. \A g \in Fibers \ {f} : Held(g)' = Held(g)
    BY <1>1, <1>2, SMTT(20) DEF Held, TypeOK
  <2> QED BY <2>1, <2>2, <2>3 DEF OneOwner
<1>10. /\ \A g \in Fibers : Held(g)' \cap Range(m_conns)' = {}
       /\ \A g, h \in Fibers : g # h => Held(g)' \cap Held(h)' = {}
  BY <1>7, <1>9 DEF OneOwner
<1>11. \A d \in Range(m_conns)' : life'[d] = "live"
  BY <1>1, <1>7 DEF OneOwner, connVars
<1>12. \A g \in Fibers : ptr'[g] # None /\ pc'[g] # "uncount" => life'[ptr'[g]] = "live"
  BY <1>1, <1>2 DEF OneOwner, TypeOK, connVars
<1>13. OneOwner'
  BY <1>8, <1>10, <1>11, <1>12 DEF OneOwner
<1> QED BY <1>4, <1>5, <1>13

(***************************************************************************)
(* The count of the pool.                                                  *)
(***************************************************************************)

\* Sets of connections are finite.
LEMMA ConnsFinite ==
    \A S : S \subseteq Conns => IsFiniteSet(S) /\ Cardinality(S) \in Nat
<1>1. IsFiniteSet(Conns)
  <2>1. 1 \in Int /\ MaxConns \in Int
    BY PoolAssumption
  <2> QED BY <2>1, FS_Interval DEF Conns
<1>2. \A S \in SUBSET Conns : IsFiniteSet(S)
  BY <1>1, FS_Subset
<1> QED BY <1>2, FS_CardinalityType

\* The inductive invariant of the pool. m_total is a natural number only because it is a
\* number of connections.
PoolInv == OwnerInv /\ TotalExact

\* Whether a connection counts depends on its life and on the fibers that hold it.
LEMMA CountedIs ==
    \A c : c \in Counted <=>
        /\ c \in Conns
        /\ \/ life[c] = "live" /\ \A f \in Fibers : mode[f] = "own" => ptr[f] # c
           \/ \E f \in Fibers : \/ pc[f] = "uncount" /\ ptr[f] = c /\ mode[f] = "pool"
                                \/ pc[f] = "deduct" /\ c \in invalid[f]
BY DEF Counted, Own, Owed

\* Taking the bad ones off the count.
LEMMA PurgeCountTotal ==
    ASSUME PoolInv, NEW f \in Fibers, PurgeCount(f)
    PROVE  PoolInv'
<1> USE NoneIsNoConn DEF PoolInv, OwnerInv
<1>1. /\ pc[f] = "deduct"
      /\ pc' = [pc EXCEPT ![f] = IF ptr[f] = None THEN "connect" ELSE "send"]
      /\ invalid' = [invalid EXCEPT ![f] = {}]
      /\ m_total' = m_total - Cardinality(invalid[f])
      /\ UNCHANGED <<life, mode, ptr>>
  BY DEF PurgeCount, connVars, Goto
<1>2. invalid[f] \subseteq Counted /\ Counted \subseteq Conns
  BY <1>1, CountedIs DEF TypeOK
<1>3. Counted' = Counted \ invalid[f]
  <2>1. \A c \in invalid[f] : life[c] = "deleted"
    BY <1>1 DEF Lives
  <2>2. \A g \in Fibers \ {f} : ptr[g] \notin invalid[f] /\ invalid[g] \cap invalid[f] = {}
    BY DEF OneOwner, Held, Phase, TypeOK
  <2>3. \A g \in Fibers : pc'[g] = "uncount" <=> pc[g] = "uncount"
    BY <1>1 DEF TypeOK
  <2>4. \A g \in Fibers : \A c : (pc'[g] = "deduct" /\ c \in invalid'[g])
                            <=> (g # f /\ pc[g] = "deduct" /\ c \in invalid[g])
    BY <1>1 DEF TypeOK
  <2>5. \A c : c \in Counted' <=> c \in Counted \ invalid[f]
    <3> SUFFICES ASSUME NEW c PROVE c \in Counted' <=> c \in Counted \ invalid[f]
      OBVIOUS
    <3>1. c \in Counted' <=>
            /\ c \in Conns
            /\ \/ life[c] = "live" /\ \A g \in Fibers : mode[g] = "own" => ptr[g] # c
               \/ \E g \in Fibers : \/ pc'[g] = "uncount" /\ ptr[g] = c /\ mode[g] = "pool"
                                    \/ pc'[g] = "deduct" /\ c \in invalid'[g]
      BY <1>1 DEF Counted, Own, Owed
    <3>2. pc[f] # "uncount"
      BY <1>1
    <3> QED BY <2>1, <2>2, <2>3, <2>4, <3>1, <3>2, CountedIs
  <2> QED BY <2>5
<1>4. /\ IsFiniteSet(Counted) /\ Cardinality(Counted) \in Nat
      /\ IsFiniteSet(Counted') /\ Cardinality(Counted') \in Nat
      /\ Cardinality(invalid[f]) \in Nat
  BY <1>2, <1>3, ConnsFinite
<1>5. Cardinality(Counted') = Cardinality(Counted) - Cardinality(Counted \cap invalid[f])
  BY <1>3, <1>4, FS_Difference
<1>6. Counted \cap invalid[f] = invalid[f]
  BY <1>2
<1>7. m_total' = Cardinality(Counted')
  BY <1>1, <1>5, <1>6 DEF TotalExact
<1>8. OwnerInv'
  BY <1>4, <1>7, PurgeStep
<1> QED BY <1>7, <1>8 DEF TotalExact

\* Taking off the connection that a release deleted.
LEMMA UncountTotal ==
    ASSUME PoolInv, NEW f \in Fibers, Uncount(f)
    PROVE  PoolInv'
<1> USE NoneIsNoConn DEF PoolInv, OwnerInv
<1> DEFINE c == ptr[f]
<1>1. /\ pc[f] = "uncount" /\ pc' = [pc EXCEPT ![f] = "idle"]
      /\ ptr' = [ptr EXCEPT ![f] = None]
      /\ m_total' = IF mode[f] = "pool" THEN m_total - 1 ELSE m_total
      /\ UNCHANGED <<life, mode, invalid>>
  BY DEF Uncount, Forget, connVars, Goto
<1>2. c \in Conns /\ c # None /\ life[c] = "deleted" /\ invalid[f] = {}
  BY <1>1 DEF Phase, Lives, TypeOK
<1>3. \A g \in Fibers \ {f} : ptr[g] # c /\ c \notin invalid[g]
  BY <1>2 DEF OneOwner, Held
<1>4. Counted' = Counted \ {c} /\ (c \in Counted <=> mode[f] = "pool")
  <2>1. \A d : d \in Counted' <=>
          /\ d \in Conns
          /\ \/ life[d] = "live" /\ \A g \in Fibers : mode[g] = "own" => ptr'[g] # d
             \/ \E g \in Fibers : \/ pc'[g] = "uncount" /\ ptr'[g] = d /\ mode[g] = "pool"
                                  \/ pc'[g] = "deduct" /\ d \in invalid[g]
    BY <1>1 DEF Counted, Own, Owed
  <2>2. c \in Counted <=> mode[f] = "pool"
    BY <1>1, <1>2, <1>3, CountedIs DEF TypeOK
  <2>3. \A g \in Fibers \ {f} : pc'[g] = pc[g] /\ ptr'[g] = ptr[g]
    BY <1>1 DEF TypeOK
  <2>4. pc'[f] = "idle" /\ ptr'[f] = None
    BY <1>1 DEF TypeOK
  <2>5. c \notin Counted'
    BY <1>2, <1>3, <2>1, <2>3, <2>4
  <2>6. ASSUME NEW d, d # c PROVE d \in Counted' <=> d \in Counted
    BY <1>1, <1>2, <2>1, <2>3, <2>4, <2>6, CountedIs
  <2> QED BY <2>2, <2>5, <2>6
<1>5. /\ IsFiniteSet(Counted) /\ Cardinality(Counted') \in Nat /\ Cardinality(Counted) \in Nat
  <2>1. Counted \subseteq Conns /\ Counted' \subseteq Conns
    BY <1>4, CountedIs
  <2> QED BY <2>1, ConnsFinite
<1>6. Cardinality(Counted') = IF c \in Counted THEN Cardinality(Counted) - 1 ELSE Cardinality(Counted)
  BY <1>4, <1>5, FS_RemoveElement
<1>7. m_total' = Cardinality(Counted')
  BY <1>1, <1>4, <1>6 DEF TotalExact
<1>8. OwnerInv'
  BY <1>5, <1>7, UncountStep
<1> QED BY <1>7, <1>8 DEF TotalExact

\* The steps that change which connections are live, or who has them, and not the count.
LEMMA GetConnectionTotal ==
    ASSUME PoolInv, NEW f \in Fibers, GetConnection(f)
    PROVE  PoolInv'
<1> USE NoneIsNoConn DEF PoolInv, OwnerInv
<1>1. /\ UNCHANGED <<m_total, life>>
      /\ pc[f] = "idle" /\ pc'[f] \in {"purge", "connect", "send"}
      /\ mode' = [mode EXCEPT ![f] = "pool"]
      /\ ptr[f] = None /\ ptr'[f] \in Range(m_conns) \cup {None}
      /\ \A g \in Fibers \ {f} : pc'[g] = pc[g] /\ ptr'[g] = ptr[g] /\ invalid'[g] = invalid[g]
  BY GetConnectionStep
<1>2. mode'[f] = "pool" /\ \A g \in Fibers \ {f} : mode'[g] = mode[g]
  BY <1>1 DEF TypeOK
<1>3. \A d : d \in Counted' <=>
          /\ d \in Conns
          /\ \/ life[d] = "live" /\ \A g \in Fibers : mode'[g] = "own" => ptr'[g] # d
             \/ \E g \in Fibers : \/ pc'[g] = "uncount" /\ ptr'[g] = d /\ mode'[g] = "pool"
                                  \/ pc'[g] = "deduct" /\ d \in invalid'[g]
  BY <1>1 DEF Counted, Own, Owed
<1>4. \A d : d \in Counted' <=> d \in Counted
  BY <1>1, <1>2, <1>3, CountedIs
<1>5. Counted' = Counted
  BY <1>4
<1> QED BY <1>1, <1>5, GetConnectionStep DEF TotalExact

\* Deleting them moves them from the live to the owed ones.
LEMMA PurgeDeleteTotal ==
    ASSUME PoolInv, NEW f \in Fibers, PurgeDelete(f)
    PROVE  PoolInv'
<1> USE NoneIsNoConn DEF PoolInv, OwnerInv
<1>1. /\ pc[f] = "purge" /\ pc' = [pc EXCEPT ![f] = "deduct"]
      /\ life' = [c \in Conns |-> IF c \in invalid[f] THEN "deleted" ELSE life[c]]
      /\ UNCHANGED <<m_total, ptr, mode, invalid>>
  BY DEF PurgeDelete, Delete, Goto
<1>2. pc'[f] = "deduct" /\ \A g \in Fibers \ {f} : pc'[g] = pc[g]
  BY <1>1 DEF TypeOK
<1>3. /\ \A c \in invalid[f] : life[c] = "live" /\ life'[c] = "deleted" /\ c \in Conns
      /\ \A c \in Conns \ invalid[f] : life'[c] = life[c]
  BY <1>1 DEF Lives, TypeOK
<1>4. mode[f] = "pool" /\ \A g \in Fibers \ {f} : ptr[g] \notin invalid[f]
  BY <1>1 DEF OneOwner, Held, Phase, TypeOK
<1>5. \A d : d \in Counted' <=>
          /\ d \in Conns
          /\ \/ life'[d] = "live" /\ \A g \in Fibers : mode[g] = "own" => ptr[g] # d
             \/ \E g \in Fibers : \/ pc'[g] = "uncount" /\ ptr[g] = d /\ mode[g] = "pool"
                                  \/ pc'[g] = "deduct" /\ d \in invalid[g]
  BY <1>1 DEF Counted, Own, Owed
<1>6. ASSUME NEW d \in invalid[f] PROVE d \in Counted' /\ d \in Counted
  BY <1>1, <1>2, <1>3, <1>4, <1>5, CountedIs, SMTT(20)
<1>7. ASSUME NEW d, d \notin invalid[f] PROVE d \in Counted' <=> d \in Counted
  BY <1>1, <1>2, <1>3, <1>5, <1>7, CountedIs
<1>8. Counted' = Counted
  BY <1>6, <1>7
<1> QED BY <1>1, <1>8, PurgeStep DEF TotalExact, TypeOK

\* So does letting go of a connection that is not kept.
LEMMA ReleaseTotal ==
    ASSUME PoolInv, NEW f \in Fibers, Release(f)
    PROVE  PoolInv'
<1> USE NoneIsNoConn DEF PoolInv, OwnerInv
<1> DEFINE c == ptr[f]
<1>1. /\ pc[f] = "release" /\ c \in Conns /\ c # None /\ life[c] = "live"
      /\ UNCHANGED <<m_total, mode, ptr, invalid>>
  BY DEF Release, Phase, TypeOK, OneOwner
<1>2. \/ pc' = [pc EXCEPT ![f] = "push"] /\ UNCHANGED life
      \/ /\ pc' = [pc EXCEPT ![f] = "uncount"]
         /\ life' = [d \in Conns |-> IF d = c THEN "deleted" ELSE life[d]]
  BY DEF Release, Delete, Goto
<1>3. \A d : d \in Counted' <=>
          /\ d \in Conns
          /\ \/ life'[d] = "live" /\ \A g \in Fibers : mode[g] = "own" => ptr[g] # d
             \/ \E g \in Fibers : \/ pc'[g] = "uncount" /\ ptr[g] = d /\ mode[g] = "pool"
                                  \/ pc'[g] = "deduct" /\ d \in invalid[g]
  BY <1>1 DEF Counted, Own, Owed
<1>4. \A g \in Fibers \ {f} : pc'[g] = pc[g] /\ ptr[g] # c /\ c \notin invalid[g]
  <2>1. \A g \in Fibers \ {f} : pc'[g] = pc[g]
    BY <1>2 DEF TypeOK
  <2>2. \A g \in Fibers \ {f} : Held(g) \cap Held(f) = {}
    BY DEF OneOwner
  <2>3. \A g \in Fibers \ {f} : ptr[g] # c /\ c \notin invalid[g]
    BY <1>1, <2>2 DEF Held
  <2> QED BY <2>1, <2>3
<1>5. \A d \in Conns \ {c} : life'[d] = life[d]
  BY <1>2
<1>6. pc'[f] \in {"push", "uncount"} /\ (pc'[f] = "uncount" => life'[c] = "deleted")
                                     /\ (pc'[f] = "push" => life'[c] = "live")
  BY <1>1, <1>2 DEF TypeOK
<1>7. mode[f] = "pool" \/ mode[f] = "own"
  BY DEF TypeOK
<1>8. c \in Counted' <=> c \in Counted
  <2>1. c \in Counted <=> mode[f] = "pool"
    BY <1>1, <1>4, <1>7, CountedIs
  <2>2. c \in Counted' <=> mode[f] = "pool"
    <3>1. pc'[f] = "push" => mode[f] = "pool"
      BY <1>1, <1>6, ReleaseStep DEF Phase
    <3> QED BY <1>1, <1>3, <1>4, <1>6, <1>7, <3>1
  <2> QED BY <2>1, <2>2
<1>9. ASSUME NEW d, d # c PROVE d \in Counted' <=> d \in Counted
  BY <1>1, <1>3, <1>4, <1>5, <1>6, <1>9, CountedIs
<1>10. Counted' = Counted
  BY <1>8, <1>9
<1> QED BY <1>1, <1>10, ReleaseStep DEF TotalExact

\* Steps that move a fiber only, or a connection of the pool back into its list.
LEMMA QuietTotal ==
    ASSUME PoolInv, OwnerInv', NEW f \in Fibers,
           UNCHANGED <<m_total, life, invalid>>,
           \A g \in Fibers \ {f} : pc'[g] = pc[g] /\ ptr'[g] = ptr[g] /\ mode'[g] = mode[g],
           pc[f] \notin {"uncount", "deduct"}, pc'[f] \notin {"uncount", "deduct"},
           \/ ptr'[f] = ptr[f] /\ mode'[f] = mode[f]
           \/ ptr'[f] = None /\ mode[f] = "pool"
           \/ ptr'[f] = None /\ ptr[f] = None
    PROVE  PoolInv'
<1> USE NoneIsNoConn DEF PoolInv, OwnerInv
<1>1. \A d : d \in Counted' <=>
          /\ d \in Conns
          /\ \/ life[d] = "live" /\ \A g \in Fibers : mode'[g] = "own" => ptr'[g] # d
             \/ \E g \in Fibers : \/ pc'[g] = "uncount" /\ ptr'[g] = d /\ mode'[g] = "pool"
                                  \/ pc'[g] = "deduct" /\ d \in invalid[g]
  BY DEF Counted, Own, Owed
<1>2. \A d \in Conns : d # None
  OBVIOUS
<1>3. \A d : d \in Counted' <=> d \in Counted
  BY <1>1, <1>2, CountedIs
<1>4. Counted' = Counted
  BY <1>3
<1> QED BY <1>4 DEF TotalExact

\* A connection made for the pool counts; one made for a single request does not.
LEMMA OpenTotal ==
    ASSUME PoolInv, OwnerInv', NEW f \in Fibers, NEW c \in Conns, life[c] = "unused",
           life' = [life EXCEPT ![c] = "live"], ptr' = [ptr EXCEPT ![f] = c],
           pc' = [pc EXCEPT ![f] = "send"], pc[f] \notin {"uncount", "deduct"}, ptr[f] = None,
           \A g \in Fibers : c \notin Held(g), UNCHANGED invalid,
           \A g \in Fibers \ {f} : mode'[g] = mode[g], mode'[f] \in {"pool", "own"},
           m_total' = IF mode'[f] = "pool" THEN m_total + 1 ELSE m_total
    PROVE  PoolInv'
<1> USE NoneIsNoConn DEF PoolInv, OwnerInv
<1>1. \A d : d \in Counted' <=>
          /\ d \in Conns
          /\ \/ life'[d] = "live" /\ \A g \in Fibers : mode'[g] = "own" => ptr'[g] # d
             \/ \E g \in Fibers : \/ pc'[g] = "uncount" /\ ptr'[g] = d /\ mode'[g] = "pool"
                                  \/ pc'[g] = "deduct" /\ d \in invalid[g]
  BY DEF Counted, Own, Owed
<1>2. /\ pc'[f] = "send" /\ ptr'[f] = c
      /\ \A g \in Fibers \ {f} : pc'[g] = pc[g] /\ ptr'[g] = ptr[g]
  BY DEF TypeOK
<1>3. life'[c] = "live" /\ \A d \in Conns \ {c} : life'[d] = life[d]
  BY DEF TypeOK
<1>4. \A g \in Fibers : c \notin invalid[g] /\ ptr[g] # c
  BY DEF Held
<1>5. c \notin Counted /\ (c \in Counted' <=> mode'[f] = "pool")
  BY <1>1, <1>2, <1>3, <1>4, CountedIs
<1>6. ASSUME NEW d, d # c PROVE d \in Counted' <=> d \in Counted
  BY <1>1, <1>2, <1>3, <1>6, CountedIs
<1>7. Counted' = IF mode'[f] = "pool" THEN Counted \cup {c} ELSE Counted
  BY <1>5, <1>6
<1>8. IsFiniteSet(Counted)
  BY ConnsFinite, CountedIs
<1>9. Cardinality(Counted') = IF mode'[f] = "pool" THEN Cardinality(Counted) + 1
                              ELSE Cardinality(Counted)
  BY <1>5, <1>7, <1>8, FS_AddElement
<1>10. m_total' = Cardinality(Counted')
  BY <1>9 DEF TotalExact
<1> QED BY <1>10 DEF TotalExact

\* A failed lookup or connect leaves the fiber without a connection.
LEMMA NoConnection ==
    ASSUME PoolInv, NEW f \in Fibers, NEW r \in Errors, Done(f, r),
           ptr[f] = None, invalid[f] = {}, pc[f] \in {"idle", "connect"},
           UNCHANGED <<m_conns, m_total, connVars, ptr, invalid, timeouts>>,
           mode' \in [Fibers -> {"pool", "own"}], \A g \in Fibers \ {f} : mode'[g] = mode[g],
           n' \in [Fibers -> Nat]
    PROVE  PoolInv'
<1> USE NoneIsNoConn DEF PoolInv, OwnerInv
<1>1. /\ pc' = [pc EXCEPT ![f] = "failed"]
      /\ pc' \in [Fibers -> PCs] /\ result' \in [Fibers -> Errors]
  BY DoneLocals
<1>2. pc'[f] = "failed" /\ \A g \in Fibers \ {f} : pc'[g] = pc[g]
  BY <1>1 DEF TypeOK
<1>3. TypeOK'
  BY <1>1 DEF TypeOK, connVars
<1>4. Phase' /\ Lives' /\ OneOwner'
  BY <1>2 DEF Phase, Lives, OneOwner, Held, connVars
<1>5. OwnerInv'
  BY <1>3, <1>4
<1>6. UNCHANGED <<m_total, life, invalid>>
  BY DEF connVars
<1> QED BY <1>2, <1>5, <1>6, QuietTotal

\* Connecting for the pool.
LEMMA ConnectTotal ==
    ASSUME PoolInv, NEW f \in Fibers, Connect(f)
    PROVE  PoolInv'
<1> USE NoneIsNoConn DEF PoolInv, OwnerInv
<1>1. /\ pc[f] = "connect" /\ ptr[f] = None /\ invalid[f] = {} /\ mode[f] = "pool"
      /\ UNCHANGED <<m_conns, mode, invalid, n, rx, timeouts>>
  BY DEF Connect, Phase
<1>2. mode' \in [Fibers -> {"pool", "own"}] /\ n' \in [Fibers -> Nat] /\ mode'[f] = "pool"
  BY <1>1 DEF TypeOK
<1>3. CASE Done(f, "POOL_GET_CONNECTION") /\ UNCHANGED <<m_total, connVars, ptr>>
  <2>1. "POOL_GET_CONNECTION" \in Errors
    BY DEF Errors
  <2> QED BY <1>1, <1>2, <1>3, <2>1, NoConnection
<1>4. CASE (\E c \in NewConns : Open(f, c)) /\ m_total' = m_total + 1 /\ UNCHANGED result
  <2>1. PICK c \in NewConns : Open(f, c)
    BY <1>4
  <2>2. m_total' \in Nat
    BY <1>4 DEF TypeOK
  <2>3. /\ OwnerInv' /\ life[c] = "unused" /\ c \in Conns
        /\ life' = [life EXCEPT ![c] = "live"]
        /\ ptr' = [ptr EXCEPT ![f] = c] /\ pc' = [pc EXCEPT ![f] = "send"]
        /\ \A g \in Fibers : c \notin Held(g)
    BY <1>1, <1>2, <1>4, <2>1, <2>2, OpenStep
  <2> QED BY <1>1, <1>2, <1>4, <2>3, OpenTotal
<1> QED BY <1>3, <1>4 DEF Connect

\* A connection for one request.
LEMMA DoRequestTotal ==
    ASSUME PoolInv, NEW f \in Fibers, DoRequest(f)
    PROVE  PoolInv'
<1> USE NoneIsNoConn DEF PoolInv, OwnerInv
<1>1. /\ pc[f] = "idle" /\ ptr[f] = None /\ invalid[f] = {}
      /\ mode' = [mode EXCEPT ![f] = "own"] /\ n' = [n EXCEPT ![f] = @ + 1]
      /\ UNCHANGED <<m_conns, m_total, invalid, rx, timeouts>>
  BY DEF DoRequest, Phase
<1>2. /\ mode' \in [Fibers -> {"pool", "own"}] /\ mode'[f] = "own"
      /\ \A g \in Fibers \ {f} : mode'[g] = mode[g]
      /\ n' \in [Fibers -> Nat] /\ m_total' \in Nat
  BY <1>1 DEF TypeOK
<1>3. CASE /\ \E r \in {"INVALID_URL", "INVALID_HOST", "CREATE_SOCKET_ERROR", "CONNECT_FAIL"} :
                Done(f, r)
           /\ UNCHANGED <<connVars, ptr>>
  <2>1. PICK r \in Errors : Done(f, r)
    BY <1>3 DEF Errors
  <2> QED BY <1>1, <1>2, <1>3, <2>1, NoConnection
<1>4. CASE (\E c \in NewConns : Open(f, c)) /\ UNCHANGED result
  <2>1. PICK c \in NewConns : Open(f, c)
    BY <1>4
  <2>2. /\ OwnerInv' /\ life[c] = "unused" /\ c \in Conns
        /\ life' = [life EXCEPT ![c] = "live"]
        /\ ptr' = [ptr EXCEPT ![f] = c] /\ pc' = [pc EXCEPT ![f] = "send"]
        /\ \A g \in Fibers : c \notin Held(g)
    BY <1>1, <1>2, <1>4, <2>1, OpenStep
  <2> QED BY <1>1, <1>2, <2>2, OpenTotal
<1> QED BY <1>3, <1>4 DEF DoRequest

(***************************************************************************)
(* The theorems.                                                           *)
(***************************************************************************)

\* Every step of every fiber, of the servers and of the sockets keeps the invariant.
LEMMA PoolStep ==
    ASSUME PoolInv, [Next]_vars
    PROVE  PoolInv'
<1> USE NoneIsNoConn DEF PoolInv, OwnerInv
<1>1. ASSUME NEW f \in Fibers, Send(f) \/ Recv(f) \/ Parse(f)
      PROVE  PoolInv'
  <2>1. /\ OwnerInv'
        /\ UNCHANGED <<m_conns, m_total, life, ptr, invalid, mode>>
        /\ \A g \in Fibers \ {f} : pc'[g] = pc[g]
        /\ pc[f] \in {"send", "recv"} /\ pc'[f] \in {"spin", "recv", "release"}
    BY <1>1, ExchangeStep
  <2> QED BY <2>1, QuietTotal
<1>2. ASSUME NEW f \in Fibers, Push(f) \/ Failed(f)
      PROVE  PoolInv'
  <2>1. OwnerInv'
    BY <1>2, PushStep, FailedStep
  <2>2. /\ UNCHANGED <<m_total, life, invalid, mode>>
        /\ pc' = [pc EXCEPT ![f] = "idle"] /\ ptr' = [ptr EXCEPT ![f] = None]
        /\ pc[f] = "push" \/ pc[f] = "failed"
    BY <1>2 DEF Push, Failed, Forget, Goto, connVars
  <2>3. (pc[f] = "push" => mode[f] = "pool") /\ (pc[f] = "failed" => ptr[f] = None)
    BY DEF Phase
  <2>4. /\ pc'[f] = "idle" /\ ptr'[f] = None
        /\ \A g \in Fibers \ {f} : pc'[g] = pc[g] /\ ptr'[g] = ptr[g]
    BY <2>2 DEF TypeOK
  <2> QED BY <2>1, <2>2, <2>3, <2>4, QuietTotal
<1>3. ASSUME UNCHANGED <<m_conns, m_total, life, m_request, pc, mode, ptr, invalid, n, timeouts,
                         result>>,
             connected' \in [Conns -> BOOLEAN], peer' \subseteq Conns, dirty' \subseteq Conns
      PROVE  PoolInv'
  <2>1. TypeOK'
    BY <1>3 DEF TypeOK
  <2>2. Phase' /\ Lives' /\ OneOwner'
    BY <1>3 DEF Phase, Lives, OneOwner, Held
  <2>3. TotalExact'
    BY <1>3 DEF TotalExact, Counted, Own, Owed
  <2> QED BY <2>1, <2>2, <2>3
<1>4. ASSUME NEW c \in Conns, ServerAnswer(c) \/ ServerClose(c) \/ SocketClose(c)
      PROVE  PoolInv'
  <2>1. connected' \in [Conns -> BOOLEAN] /\ peer' \subseteq Conns /\ dirty' \subseteq Conns
    BY <1>4 DEF ServerAnswer, ServerClose, SocketClose, TypeOK
  <2>2. UNCHANGED <<m_conns, m_total, life, m_request, pc, mode, ptr, invalid, n, timeouts, result>>
    BY <1>4 DEF ServerAnswer, ServerClose, SocketClose, fiberVars
  <2> QED BY <2>1, <2>2, <1>3
<1>5. CASE UNCHANGED vars
  BY <1>3, <1>5 DEF vars, connVars, fiberVars, TypeOK
<1> QED BY <1>1, <1>2, <1>4, <1>5, GetConnectionTotal, DoRequestTotal, PurgeDeleteTotal,
           PurgeCountTotal, ConnectTotal, ReleaseTotal, UncountTotal DEF Next, Step

\* In the beginning there are no connections.
LEMMA PoolStart ==
    ASSUME Init
    PROVE  PoolInv
<1>1. TypeOK
  BY EmptySeq DEF Init, TypeOK, PCs, Errors
<1>2. Phase /\ Lives
  BY DEF Init, Phase, Lives
<1>3. OneOwner
  BY DEF Init, OneOwner, Held, Range
<1>4. Counted = {}
  BY DEF Init, Counted, Own, Owed
<1>5. TotalExact
  BY <1>4, FS_EmptySet DEF Init, TotalExact
<1> QED BY <1>1, <1>2, <1>3, <1>5 DEF PoolInv, OwnerInv

\* The pool and its users agree on who has a connection, for any number of fibers,
\* connections and requests: none is in the list and in use, or in use twice, and none is
\* deleted while it can still be reached (getConnection, ReleasePtr).
THEOREM PoolOneOwner == Spec => []OneOwner
<1>1. PoolInv => OneOwner
  BY DEF PoolInv, OwnerInv
<1> QED BY <1>1, PoolStart, PoolStep, PTL DEF Spec

\* m_total is the number of connections the pool has made and not yet deleted, although
\* getConnection and ReleasePtr change it outside the mutex.
THEOREM PoolTotalExact == Spec => []TotalExact
<1>1. PoolInv => TotalExact
  BY DEF PoolInv
<1> QED BY <1>1, PoolStart, PoolStep, PTL DEF Spec

\* The state keeps its types; m_total, from which several fibers subtract, is never
\* negative.
THEOREM PoolTypeCorrect == Spec => []TypeOK
<1>1. PoolInv => TypeOK
  BY DEF PoolInv, OwnerInv
<1> QED BY <1>1, PoolStart, PoolStep, PTL DEF Spec

(***************************************************************************)
(* The exchange: a request, its answer and the receiver's progress.        *)
(***************************************************************************)

\* The units of A behind the p-th, up to the q-th
Cut(A, p, q) == SubSeq(A, p + 1, q)

RecvFields == {"at", "buf", "length", "chunked", "left", "body", "of", "split"}

\* In an answer of shape s: the place of the empty line behind the header, the places of
\* the sizes of the chunks, and the chunks: where one begins, where its bytes begin, how
\* many they are, and how many bytes came before it.
EndAt(s) == IF s.chunked THEN 2 ELSE 3
Chunks(s) ==
    LET d    == IF s.n < 2 THEN 3 ELSE 4
        last == IF s.n = 0 THEN 2 ELSE d + s.n + 2
    IN  {[p |-> 2, d |-> d, m |-> s.n, had |-> 0],
         [p |-> last, d |-> last + 1, m |-> 0, had |-> s.n]}

\* The first k bytes of the body
Bytes(req, k) == Units(req, "data", k)

(***************************************************************************)
(* What recvResponse() has made of the answer A (of shape s, to req) when  *)
(* q units of it were read, at each of its places.                         *)
(***************************************************************************)
InHeader(r, A, s, req, q) == \E p \in (IF s.chunked THEN {0, 1} ELSE {0, 2}) :
    /\ r.at \in {"head", "parse"}
    /\ p <= q /\ (r.at = "head" <=> p = q) /\ p < EndAt(s)
    /\ r.buf = Cut(A, p, q) /\ r.body = <<>>
    /\ r.length = (IF p = 2 THEN s.n ELSE 0) /\ (r.chunked <=> p = 1)
    /\ r.of = IF p = 0 THEN <<>> ELSE req

InBody(r, A, s, req, q) ==
    /\ ~s.chunked /\ r.at = "body" /\ q >= 3
    /\ r.body = Cut(A, 3, q) /\ r.left \in Nat \ {0} /\ r.left >= Len(A) - q

InSize(r, A, s, req, q) == \E k \in Chunks(s) :
    /\ r.at \in {"chunk", "size"}
    /\ k.p <= q /\ (r.at = "chunk" <=> k.p = q)
    /\ r.buf = Cut(A, k.p, q) /\ r.body = Bytes(req, k.had)

InBytes(r, A, s, req, q) == \E k \in Chunks(s) :
    /\ r.at = "bytes" /\ r.length = k.m
    /\ k.d <= q /\ r.buf = Cut(A, k.d, q) /\ r.body = Bytes(req, k.had)

InRest(r, A, s, req, q) == \E k \in Chunks(s) :
    /\ r.at = "rest" /\ r.length = k.m
    /\ k.d <= q /\ q < k.d + k.m + 2 /\ r.left = k.d + k.m + 2 - q
    /\ r.buf = <<>> /\ r.body = Bytes(req, k.had) \o Cut(A, k.d, q)

Whole(r, A, s, req, q) == r.at = "ok" /\ q = Len(A) /\ r.body = Bytes(req, s.n)

Tracks(r, A, s, req, q) ==
    /\ DOMAIN r = RecvFields /\ r.split = FALSE
    /\ r.at \notin {"head", "parse"} => (r.chunked <=> s.chunked)
    /\ \/ InHeader(r, A, s, req, q)
       \/ r.of = req /\ ~s.chunked /\ InBody(r, A, s, req, q)
       \/ /\ r.of = req /\ s.chunked
          /\ InSize(r, A, s, req, q) \/ InBytes(r, A, s, req, q) \/ InRest(r, A, s, req, q)
       \/ r.of = req /\ Whole(r, A, s, req, q)

\* The request is sent and no answer is on the way yet, or one is, as far as it was read.
Waiting(f) == rx[f] = NewRecv /\ wire[ptr[f]] = <<>> /\ asked[ptr[f]] \in {<<>>, <<Req(f)>>}
Answered(f) == \E s \in Shapes[f] :
    LET A == Answer(Req(f), s)
    IN  \E q \in 0..Len(A) :
          /\ asked[ptr[f]] = <<>> /\ wire[ptr[f]] = Cut(A, q, Len(A))
          /\ Tracks(rx[f], A, s, Req(f), q)

\* Nothing is on the way in either direction; the same of a connection that is still good.
Silent(c) == asked[c] = <<>> /\ wire[c] = <<>>
Kept(c) == connected[c] /\ c \notin dirty => Silent(c)

Returned(f) == /\ rx[f].of = Req(f)
               /\ \E s \in Shapes[f] : /\ rx[f].body = Units(Req(f), "data", s.n)
                                       /\ rx[f].chunked <=> s.chunked

\* What a fiber knows of its connection and of its answer, at each place.
FiberOK(f) ==
    /\ pc[f] \notin {"recv", "release", "push", "uncount"} => rx[f] = NewRecv
    /\ pc[f] \in {"purge", "deduct", "send", "push"} /\ ptr[f] # None => Kept(ptr[f])
    /\ pc[f] = "recv" => /\ connected[ptr[f]] /\ rx[f].at \notin {"ok", "null"}
                         /\ ptr[f] \in dirty \/ Waiting(f) \/ Answered(f)
    /\ pc[f] = "release" =>
         \/ result[f] = "TIMEOUT" /\ ~connected[ptr[f]]
         \/ result[f] = "OK" /\ (ptr[f] \in dirty \/ (Silent(ptr[f]) /\ Returned(f)))

ExchangeInv ==
    /\ DOMAIN rx = Fibers /\ DOMAIN asked = Conns /\ DOMAIN wire = Conns
    /\ \A f \in Fibers : FiberOK(f)
    /\ \A c \in Conns : c \in Range(m_conns) => Kept(c)
    /\ \A c \in Conns : life[c] = "unused" => Silent(c)

(***************************************************************************)
(* Cutting and joining.                                                    *)
(***************************************************************************)
LEMMA CutSeq ==
    ASSUME NEW S, NEW A \in Seq(S), NEW p \in Nat, NEW q \in Nat, p <= q, q <= Len(A)
    PROVE  Cut(A, p, q) \in Seq(S)
<1>1. Len(A) \in Nat /\ \A i \in 1..Len(A) : A[i] \in S
  BY LenProperties, ElementOfSeq
<1>2. p + 1 \in Int /\ q \in Int /\ \A i \in (p + 1)..q : A[i] \in S
  BY <1>1
<1> QED BY <1>2, SubSeqProperties DEF Cut

\* The units of a cut, by their places.
LEMMA CutAt ==
    ASSUME NEW S, NEW A \in Seq(S), NEW p \in Nat, NEW q \in Nat, p <= q, q <= Len(A)
    PROVE  \A i \in 1..(q - p) : Cut(A, p, q)[i] = A[p + i] /\ A[p + i] \in S
<1>1. Len(A) \in Nat /\ \A i \in 1..Len(A) : A[i] \in S
  BY LenProperties, ElementOfSeq
<1>2. p + 1 \in Int /\ q \in Int /\ \A i \in (p + 1)..q : A[i] \in S
  BY <1>1
<1>3. \A i \in 1..(q - (p + 1) + 1) : Cut(A, p, q)[i] = A[(p + 1) + i - 1]
  BY <1>2, SubSeqProperties DEF Cut
<1> SUFFICES ASSUME NEW i \in 1..(q - p) PROVE Cut(A, p, q)[i] = A[p + i] /\ A[p + i] \in S
  OBVIOUS
<1>4. i \in 1..(q - (p + 1) + 1) /\ (p + 1) + i - 1 = p + i /\ p + i \in (p + 1)..q
  OBVIOUS
<1> QED BY <1>2, <1>3, <1>4

\* Their number.
LEMMA CutLen ==
    ASSUME NEW S, NEW A \in Seq(S), NEW p \in Nat, NEW q \in Nat, p <= q, q <= Len(A)
    PROVE  /\ Len(Cut(A, p, q)) = q - p /\ DOMAIN Cut(A, p, q) = 1..(q - p)
           /\ Cut(A, p, q) = <<>> <=> p = q
<1>1. Len(A) \in Nat /\ \A i \in 1..Len(A) : A[i] \in S
  BY LenProperties, ElementOfSeq
<1>2. p + 1 \in Int /\ q \in Int /\ \A i \in (p + 1)..q : A[i] \in S
  BY <1>1
<1>3. Len(Cut(A, p, q)) = IF p + 1 <= q THEN q - (p + 1) + 1 ELSE 0
  BY <1>2, SubSeqProperties DEF Cut
<1>4. Len(Cut(A, p, q)) = q - p
  BY <1>3
<1>5. Cut(A, p, q) \in Seq(S)
  BY CutSeq
<1>6. DOMAIN Cut(A, p, q) = 1..(q - p)
  BY <1>4, <1>5, LenProperties
<1>7. Cut(A, p, q) = <<>> <=> Len(Cut(A, p, q)) = 0
  BY <1>5, EmptySeq
<1>8. Cut(A, p, q) = <<>> <=> p = q
  BY <1>4, <1>7
<1> QED BY <1>4, <1>6, <1>8

\* The first units of a cut are a cut.
LEMMA CutFirst ==
    ASSUME NEW S, NEW A \in Seq(S), NEW p \in Nat, NEW q \in Nat, p <= q, q <= Len(A),
           NEW m \in 0..(q - p)
    PROVE  SubSeq(Cut(A, p, q), 1, m) = Cut(A, p, p + m)
<1> DEFINE B == Cut(A, p, q)
           C == Cut(A, p, p + m)
           D == SubSeq(B, 1, m)
<1>a. B \in Seq(S)
  BY CutSeq
<1>b. Len(B) = q - p /\ \A i \in 1..(q - p) : B[i] = A[p + i] /\ A[p + i] \in S
  <2>1. Len(B) = q - p
    BY CutLen
  <2>2. \A i \in 1..(q - p) : B[i] = A[p + i] /\ A[p + i] \in S
    BY CutAt
  <2> QED BY <2>1, <2>2
<1>1. /\ B \in Seq(S) /\ Len(B) = q - p /\ \A i \in 1..(q - p) : B[i] = A[p + i] /\ A[p + i] \in S
  BY <1>a, <1>b
<1>2. Len(A) \in Nat /\ p + m \in Nat /\ p <= p + m /\ p + m <= Len(A)
  BY LenProperties
<1>c. C \in Seq(S)
  BY <1>2, CutSeq, Zenon
<1>d. Len(C) = (p + m) - p /\ \A i \in 1..((p + m) - p) : C[i] = A[p + i]
  <2>1. Len(C) = (p + m) - p
    BY <1>2, CutLen
  <2>2. \A i \in 1..((p + m) - p) : C[i] = A[p + i]
    BY <1>2, CutAt
  <2> QED BY <2>1, <2>2
<1>3. C \in Seq(S) /\ Len(C) = (p + m) - p /\ \A i \in 1..((p + m) - p) : C[i] = A[p + i]
  BY <1>c, <1>d
<1>4. \A i \in 1..m : B[i] \in S
  BY <1>1
<1>5. m \in Int /\ 1 \in Int
  OBVIOUS
<1>6. /\ D \in Seq(S) /\ Len(D) = IF 1 <= m THEN m - 1 + 1 ELSE 0
      /\ \A i \in 1..(m - 1 + 1) : D[i] = B[1 + i - 1]
  BY <1>4, <1>5, SubSeqProperties
<1> HIDE DEF B, C, D
<1>7. Len(D) = Len(C) /\ Len(C) = m
  BY <1>3, <1>6
<1>8. \A i \in 1..m : D[i] = C[i]
  <2> SUFFICES ASSUME NEW i \in 1..m PROVE D[i] = C[i]
    OBVIOUS
  <2>1. 1 + i - 1 = i /\ i \in 1..(m - 1 + 1) /\ i \in 1..((p + m) - p) /\ i \in 1..(q - p)
    BY <1>2
  <2> QED BY <1>1, <1>3, <1>6, <2>1
<1>9. D = C
  BY <1>3, <1>6, <1>7, <1>8, SeqEqual
<1> QED BY <1>9 DEF B, C, D

\* So are the ones behind them.
LEMMA CutBehind ==
    ASSUME NEW S, NEW A \in Seq(S), NEW p \in Nat, NEW q \in Nat, p <= q, q <= Len(A),
           NEW m \in 0..(q - p)
    PROVE  SubSeq(Cut(A, p, q), m + 1, q - p) = Cut(A, p + m, q)
<1> DEFINE B == Cut(A, p, q)
           C == Cut(A, p + m, q)
           D == SubSeq(B, m + 1, q - p)
<1>a. B \in Seq(S)
  BY CutSeq
<1>b. Len(B) = q - p /\ \A i \in 1..(q - p) : B[i] = A[p + i] /\ A[p + i] \in S
  <2>1. Len(B) = q - p
    BY CutLen
  <2>2. \A i \in 1..(q - p) : B[i] = A[p + i] /\ A[p + i] \in S
    BY CutAt
  <2> QED BY <2>1, <2>2
<1>1. /\ B \in Seq(S) /\ Len(B) = q - p /\ \A i \in 1..(q - p) : B[i] = A[p + i] /\ A[p + i] \in S
  BY <1>a, <1>b
<1>2. Len(A) \in Nat /\ p + m \in Nat /\ p + m <= q
  BY LenProperties
<1>c. C \in Seq(S)
  BY <1>2, CutSeq, Zenon
<1>d. Len(C) = q - (p + m) /\ \A i \in 1..(q - (p + m)) : C[i] = A[(p + m) + i]
  <2>1. Len(C) = q - (p + m)
    BY <1>2, CutLen
  <2>2. \A i \in 1..(q - (p + m)) : C[i] = A[(p + m) + i]
    BY <1>2, CutAt
  <2> QED BY <2>1, <2>2
<1>3. C \in Seq(S) /\ Len(C) = q - (p + m) /\ \A i \in 1..(q - (p + m)) : C[i] = A[(p + m) + i]
  BY <1>c, <1>d
<1>4. \A i \in (m + 1)..(q - p) : B[i] \in S
  BY <1>1
<1>5. m + 1 \in Int /\ q - p \in Int
  OBVIOUS
<1>6. /\ D \in Seq(S) /\ Len(D) = IF m + 1 <= q - p THEN (q - p) - (m + 1) + 1 ELSE 0
      /\ \A i \in 1..((q - p) - (m + 1) + 1) : D[i] = B[(m + 1) + i - 1]
  BY <1>4, <1>5, SubSeqProperties
<1> HIDE DEF B, C, D
<1>7. Len(D) = Len(C) /\ Len(C) = q - (p + m)
  BY <1>2, <1>3, <1>6
<1>8. \A i \in 1..(q - (p + m)) : D[i] = C[i]
  <2> SUFFICES ASSUME NEW i \in 1..(q - (p + m)) PROVE D[i] = C[i]
    OBVIOUS
  <2>1. /\ (m + 1) + i - 1 = m + i /\ i \in 1..((q - p) - (m + 1) + 1)
        /\ m + i \in 1..(q - p) /\ p + (m + i) = (p + m) + i
    BY <1>2
  <2>2. D[i] = B[m + i]
    BY <1>6, <2>1
  <2>3. B[m + i] = A[p + (m + i)]
    BY <1>1, <2>1
  <2> QED BY <1>3, <2>1, <2>2, <2>3
<1>9. D = C
  BY <1>3, <1>6, <1>7, <1>8, SeqEqual
<1> QED BY <1>9 DEF B, C, D

\* Two cuts that meet are one.
LEMMA CutJoin ==
    ASSUME NEW S, NEW A \in Seq(S), NEW p \in Nat, NEW m \in Nat, NEW q \in Nat,
           p <= m, m <= q, q <= Len(A)
    PROVE  Cut(A, p, m) \o Cut(A, m, q) = Cut(A, p, q)
<1> DEFINE B == Cut(A, p, m)
           C == Cut(A, m, q)
           D == Cut(A, p, q)
<1>0. Len(A) \in Nat /\ p <= q /\ m <= Len(A)
  BY LenProperties
<1>1. /\ B \in Seq(S) /\ Len(B) = m - p /\ \A i \in 1..(m - p) : B[i] = A[p + i]
      /\ C \in Seq(S) /\ Len(C) = q - m /\ \A i \in 1..(q - m) : C[i] = A[m + i]
      /\ D \in Seq(S) /\ Len(D) = q - p /\ \A i \in 1..(q - p) : D[i] = A[p + i]
  <2>1. B \in Seq(S)
    BY <1>0, CutSeq, Zenon
  <2>2. Len(B) = m - p /\ \A i \in 1..(m - p) : B[i] = A[p + i]
    <3>1. Len(B) = m - p
      BY <1>0, CutLen
    <3>2. \A i \in 1..(m - p) : B[i] = A[p + i]
      BY <1>0, CutAt
    <3> QED BY <3>1, <3>2
  <2>3. C \in Seq(S)
    BY <1>0, CutSeq, Zenon
  <2>4. Len(C) = q - m /\ \A i \in 1..(q - m) : C[i] = A[m + i]
    <3>1. Len(C) = q - m
      BY <1>0, CutLen
    <3>2. \A i \in 1..(q - m) : C[i] = A[m + i]
      BY <1>0, CutAt
    <3> QED BY <3>1, <3>2
  <2>5. D \in Seq(S)
    BY <1>0, CutSeq, Zenon
  <2>6. Len(D) = q - p /\ \A i \in 1..(q - p) : D[i] = A[p + i]
    <3>1. Len(D) = q - p
      BY <1>0, CutLen
    <3>2. \A i \in 1..(q - p) : D[i] = A[p + i]
      BY <1>0, CutAt
    <3> QED BY <3>1, <3>2
  <2> HIDE DEF B, C, D
  <2> QED BY <2>1, <2>2, <2>3, <2>4, <2>5, <2>6
<1> HIDE DEF B, C, D
<1>2. /\ B \o C \in Seq(S) /\ Len(B \o C) = Len(B) + Len(C)
      /\ \A i \in 1..(Len(B) + Len(C)) :
            (B \o C)[i] = IF i <= Len(B) THEN B[i] ELSE C[i - Len(B)]
  BY <1>1, ConcatProperties
<1>3. Len(B \o C) = Len(D) /\ Len(D) = q - p
  BY <1>1, <1>2, SMTT(20)
<1>4. \A i \in 1..(q - p) : (B \o C)[i] = D[i]
  <2> SUFFICES ASSUME NEW i \in 1..(q - p) PROVE (B \o C)[i] = D[i]
    OBVIOUS
  <2>1. (B \o C)[i] = IF i <= m - p THEN B[i] ELSE C[i - (m - p)]
    <3>1. Len(B) = m - p /\ Len(C) = q - m
      BY <1>1
    <3>2. i \in 1..(Len(B) + Len(C))
      BY <3>1
    <3> HIDE DEF B, C
    <3> QED BY <1>2, <3>1, <3>2
  <2>2. CASE i <= m - p
    BY <1>1, <2>1, <2>2
  <2>3. CASE ~(i <= m - p)
    <3>1. i - (m - p) \in 1..(q - m) /\ m + (i - (m - p)) = p + i
      BY <2>3
    <3> QED BY <1>1, <2>1, <2>3, <3>1
  <2> QED BY <2>2, <2>3
<1>5. B \o C = D
  BY <1>1, <1>2, <1>3, <1>4, SeqEqual
<1> QED BY <1>5 DEF B, C, D

(***************************************************************************)
(* The units of an answer, by their places.                                *)
(***************************************************************************)
UnitTypes == {"name", "value", "te", "end", "hi", "lo", "data", "crlf"}
UnitsOf(req) == [req : {req}, t : UnitTypes, v : Nat]

\* A unit and its fields.
LEMMA UnitIs ==
    ASSUME NEW req, NEW t \in UnitTypes, NEW v \in Nat
    PROVE  /\ Unit(req, t, v) \in UnitsOf(req)
           /\ Unit(req, t, v).t = t /\ Unit(req, t, v).v = v
BY DEF Unit, UnitsOf

\* The bytes of a body, by their places.
LEMMA UnitsAre ==
    ASSUME NEW req, NEW k \in Nat
    PROVE  /\ Bytes(req, k) \in Seq(UnitsOf(req)) /\ Len(Bytes(req, k)) = k
           /\ \A i \in 1..k : Bytes(req, k)[i] = Unit(req, "data", i)
<1> DEFINE e(i) == Unit(req, "data", i)
<1>1. \A i \in 1..k : Unit(req, "data", i) \in UnitsOf(req)
  BY UnitIs DEF UnitTypes
<1>2. Bytes(req, k) = [i \in 1..k |-> Unit(req, "data", i)]
  BY DEF Bytes, Units
<1>3. Bytes(req, k) \in [1..k -> UnitsOf(req)]
  BY <1>1, <1>2
<1> HIDE DEF e
<1>4. Bytes(req, k) \in Seq(UnitsOf(req))
  BY <1>3, SeqDef
<1> QED BY <1>2, <1>3, <1>4, LenProperties

\* B is a chunk of m bytes behind h units of its size.
IsChunk(B, req, m, h) ==
    /\ B \in Seq(UnitsOf(req)) /\ Len(B) = h + m + 2
    /\ m < 2 => B[1] = Unit(req, "lo", m)
    /\ m >= 2 => \E v \in Nat, w \in Nat : /\ 2 * v + w = m
                     /\ B[1] = Unit(req, "hi", v) /\ B[2] = Unit(req, "lo", w)
    /\ \A i \in 1..m : B[h + i] = Unit(req, "data", i)

\* A chunk has this layout.
LEMMA ChunkIs ==
    ASSUME NEW req, NEW m \in Nat, NEW h, h = IF m < 2 THEN 1 ELSE 2
    PROVE  IsChunk(Chunk(req, m), req, m, h)
<1>a. PICK v : v = m \div 2
  OBVIOUS
<1>b. PICK w : w = m % 2
  OBVIOUS
<1>0. v \in Nat /\ w \in Nat /\ 2 * v + w = m /\ (m < 2 => w = m)
  <2>1. v \in Nat /\ w \in Nat
    BY <1>a, <1>b
  <2>2. 2 * v + w = m
    BY <1>a, <1>b
  <2> QED BY <2>1, <2>2
<1> DEFINE U == UnitsOf(req)
           H == IF m < 2 THEN <<>> ELSE <<Unit(req, "hi", v)>>
           G == <<Unit(req, "lo", w)>>
           D == Units(req, "data", m)
           E == CRLF(req)
<1>1. /\ Unit(req, "hi", v) \in U /\ Unit(req, "lo", w) \in U
      /\ Unit(req, "crlf", 1) \in U /\ Unit(req, "crlf", 2) \in U
  BY <1>0, UnitIs DEF UnitTypes
<1>2. /\ D \in Seq(U) /\ Len(D) = m /\ \A i \in 1..m : D[i] = Unit(req, "data", i)
  BY UnitsAre DEF Bytes
<1>3. E \in Seq(U) /\ Len(E) = 2
  BY <1>1 DEF CRLF
<1>4. G \in Seq(U) /\ Len(G) = 1 /\ G[1] = Unit(req, "lo", w)
  BY <1>1
<1>5. H \in Seq(U) /\ Len(H) = h - 1 /\ (m >= 2 => H[1] = Unit(req, "hi", v))
  <2>1. CASE m < 2
    BY <2>1, EmptySeq
  <2>2. CASE m >= 2
    BY <1>1, <2>2
  <2> QED BY <2>1, <2>2
<1>6. Chunk(req, m) = ((H \o G) \o D) \o E
  BY <1>a, <1>b DEF Chunk
<1> HIDE DEF H, G, D, E, U
<1>7. /\ H \o G \in Seq(U) /\ Len(H \o G) = h
      /\ (m < 2 => (H \o G)[1] = G[1])
      /\ (m >= 2 => (H \o G)[1] = H[1] /\ (H \o G)[2] = G[1])
  <2>1. /\ H \o G \in Seq(U) /\ Len(H \o G) = Len(H) + Len(G)
        /\ \A i \in 1..(Len(H) + Len(G)) :
              (H \o G)[i] = IF i <= Len(H) THEN H[i] ELSE G[i - Len(H)]
    BY <1>4, <1>5, ConcatProperties
  <2>2. CASE m < 2
    BY <1>4, <1>5, <2>1, <2>2
  <2>3. CASE m >= 2
    BY <1>4, <1>5, <2>1, <2>3
  <2> QED BY <2>2, <2>3
<1> DEFINE P == H \o G
<1> HIDE DEF P
<1>8. /\ P \o D \in Seq(U) /\ Len(P \o D) = h + m
      /\ \A i \in 1..(h + m) : (P \o D)[i] = IF i <= h THEN P[i] ELSE D[i - h]
  <2>1. P \in Seq(U) /\ Len(P) = h
    BY <1>7 DEF P
  <2>2. /\ P \o D \in Seq(U) /\ Len(P \o D) = Len(P) + Len(D)
        /\ \A i \in 1..(Len(P) + Len(D)) : (P \o D)[i] = IF i <= Len(P) THEN P[i] ELSE D[i - Len(P)]
    BY <1>2, <2>1, ConcatProperties
  <2> QED BY <1>2, <2>1, <2>2
<1> DEFINE Q == P \o D
<1> HIDE DEF Q
<1>9. /\ Q \o E \in Seq(U) /\ Len(Q \o E) = h + m + 2
      /\ \A i \in 1..(h + m + 2) : (Q \o E)[i] = IF i <= h + m THEN Q[i] ELSE E[i - (h + m)]
  <2>1. Q \in Seq(U) /\ Len(Q) = h + m
    BY <1>8 DEF Q
  <2>2. /\ Q \o E \in Seq(U) /\ Len(Q \o E) = Len(Q) + Len(E)
        /\ \A i \in 1..(Len(Q) + Len(E)) : (Q \o E)[i] = IF i <= Len(Q) THEN Q[i] ELSE E[i - Len(Q)]
    BY <1>3, <2>1, ConcatProperties
  <2> QED BY <1>3, <2>1, <2>2
<1> DEFINE B == Q \o E
<1>10. B = Chunk(req, m)
  BY <1>6 DEF P, Q
<1> HIDE DEF B
<1>11. h \in Nat /\ h >= 1 /\ (m < 2 => h = 1) /\ (m >= 2 => h = 2)
  OBVIOUS
<1>12. \A i \in 1..h : B[i] = P[i]
  <2> SUFFICES ASSUME NEW i \in 1..h PROVE B[i] = P[i]
    OBVIOUS
  <2>1. i \in 1..(h + m) /\ i \in 1..(h + m + 2) /\ i <= h /\ i <= h + m
    BY <1>11
  <2> QED BY <1>8, <1>9, <2>1 DEF B, Q
<1>13. \A i \in 1..m : B[h + i] = Unit(req, "data", i)
  <2> SUFFICES ASSUME NEW i \in 1..m PROVE B[h + i] = Unit(req, "data", i)
    OBVIOUS
  <2>1. h + i \in 1..(h + m) /\ h + i \in 1..(h + m + 2) /\ ~(h + i <= h) /\ h + i <= h + m /\ (h + i) - h = i
    BY <1>11
  <2> QED BY <1>2, <1>8, <1>9, <2>1 DEF B, Q
<1>14. m < 2 => B[1] = Unit(req, "lo", m)
  <2> SUFFICES ASSUME m < 2 PROVE B[1] = Unit(req, "lo", m)
    OBVIOUS
  <2>1. B[1] = P[1]
    BY <1>11, <1>12
  <2> QED BY <1>0, <1>4, <1>7, <2>1 DEF P
<1>15. m >= 2 => B[1] = Unit(req, "hi", v) /\ B[2] = Unit(req, "lo", w)
  <2> SUFFICES ASSUME m >= 2 PROVE B[1] = Unit(req, "hi", v) /\ B[2] = Unit(req, "lo", w)
    OBVIOUS
  <2>1. B[1] = P[1] /\ B[2] = P[2]
    BY <1>11, <1>12
  <2> QED BY <1>4, <1>5, <1>7, <2>1 DEF P
<1>16. B \in Seq(U) /\ Len(B) = h + m + 2
  BY <1>9 DEF B
<1> QED BY <1>0, <1>10, <1>13, <1>14, <1>15, <1>16 DEF U, IsChunk

ShapeSet == [chunked : BOOLEAN, n : Nat]

\* A is an answer with the length of its body.
IsPlain(A, req, s) ==
    /\ A \in Seq(UnitsOf(req)) /\ Len(A) = 3 + s.n
    /\ A[1].t = "name" /\ A[2].t = "value" /\ A[2].v = s.n /\ A[3].t = "end"
    /\ \A i \in 1..s.n : A[3 + i] = Unit(req, "data", i)

\* An answer with its length has this layout.
LEMMA PlainIs ==
    ASSUME NEW req, NEW s \in ShapeSet, ~s.chunked
    PROVE  IsPlain(Answer(req, s), req, s)
<1> DEFINE U == UnitsOf(req)
           H == <<Unit(req, "name", 0), Unit(req, "value", s.n), Unit(req, "end", 0)>>
           D == Units(req, "data", s.n)
           A == H \o D
<1>0. s.n \in Nat /\ Answer(req, s) = A
  BY DEF Answer, ShapeSet
<1>1. Unit(req, "name", 0) \in U /\ Unit(req, "value", s.n) \in U /\ Unit(req, "end", 0) \in U
  BY <1>0, UnitIs DEF UnitTypes
<1>2. H \in Seq(U) /\ Len(H) = 3
  BY <1>1
<1>3. H[1].t = "name" /\ H[2].t = "value" /\ H[2].v = s.n /\ H[3].t = "end"
  BY DEF Unit
<1>4. D \in Seq(U) /\ Len(D) = s.n /\ \A i \in 1..s.n : D[i] = Unit(req, "data", i)
  BY <1>0, UnitsAre DEF Bytes
<1> HIDE DEF H, D, U
<1>5. /\ A \in Seq(U) /\ Len(A) = Len(H) + Len(D)
      /\ \A i \in 1..(Len(H) + Len(D)) : A[i] = IF i <= Len(H) THEN H[i] ELSE D[i - Len(H)]
  BY <1>2, <1>4, ConcatProperties
<1> HIDE DEF A
<1>6. Len(A) = 3 + s.n
  BY <1>2, <1>4, <1>5
<1>7. A[1] = H[1] /\ A[2] = H[2] /\ A[3] = H[3]
  <2>1. /\ 1 \in 1..(3 + s.n) /\ 2 \in 1..(3 + s.n) /\ 3 \in 1..(3 + s.n)
        /\ 1 <= 3 /\ 2 <= 3 /\ 3 <= 3
    BY <1>0
  <2> QED BY <1>2, <1>4, <1>5, <2>1
<1>8. ASSUME NEW i \in 1..s.n PROVE A[3 + i] = Unit(req, "data", i)
  <2>1. 3 + i \in 1..(3 + s.n) /\ ~(3 + i <= 3) /\ (3 + i) - 3 = i
    BY <1>0
  <2> QED BY <1>2, <1>4, <1>5, <2>1
<1> QED BY <1>0, <1>3, <1>5, <1>6, <1>7, <1>8 DEF U, IsPlain

\* A chunk k stands at its place in A: the line with its size, and its bytes.
ChunkAt(A, req, k) ==
    /\ k.p \in Nat /\ k.d \in Nat /\ k.m \in Nat /\ k.had \in Nat
    /\ 2 <= k.p /\ k.d + k.m + 2 <= Len(A)
    /\ \/ k.d = k.p + 1 /\ A[k.p + 1] = Unit(req, "lo", k.m)
       \/ /\ k.d = k.p + 2
          /\ \E v \in Nat, w \in Nat : /\ 2 * v + w = k.m
                 /\ A[k.p + 1] = Unit(req, "hi", v) /\ A[k.p + 2] = Unit(req, "lo", w)
    /\ \A i \in 1..k.m : A[k.d + i] = Unit(req, "data", i)

\* Chunks follow each other to the one of no bytes, which ends the answer.
ChunkNext(A, s, k) ==
    IF k.m = 0 THEN k.d + 2 = Len(A) /\ k.had = s.n
    ELSE k.m = s.n /\ k.had = 0 /\ \E l \in Chunks(s) : l.p = k.d + k.m + 2 /\ l.had = s.n

\* The places of a sequence of three parts
InParts(A, S, X, Y, Z, x, y, z) ==
    /\ A \in Seq(S) /\ Len(A) = x + y + z
    /\ \A i \in 1..x : A[i] = X[i]
    /\ \A i \in 1..y : A[x + i] = Y[i]
    /\ \A i \in 1..z : A[x + y + i] = Z[i]

\* Three sequences, one behind the other.
LEMMA ThreeParts ==
    ASSUME NEW S, NEW X \in Seq(S), NEW Y \in Seq(S), NEW Z \in Seq(S),
           NEW x, x = Len(X), NEW y, y = Len(Y), NEW z, z = Len(Z)
    PROVE  InParts((X \o Y) \o Z, S, X, Y, Z, x, y, z)
<1> DEFINE B == X \o Y
           A == B \o Z
<1>0. x \in Nat /\ y \in Nat /\ z \in Nat
  BY LenProperties
<1>1. /\ B \in Seq(S) /\ Len(B) = x + y
      /\ \A i \in 1..(x + y) : B[i] = IF i <= x THEN X[i] ELSE Y[i - x]
  BY ConcatProperties
<1> HIDE DEF B
<1>2. /\ A \in Seq(S) /\ Len(A) = Len(B) + Len(Z)
      /\ \A i \in 1..(Len(B) + Len(Z)) : A[i] = IF i <= Len(B) THEN B[i] ELSE Z[i - Len(B)]
  <2>1. B \in Seq(S)
    BY <1>1
  <2> QED BY <2>1, ConcatProperties
<1> HIDE DEF A
<1>3. Len(A) = x + y + z /\ \A i \in 1..(x + y + z) : A[i] = IF i <= x + y THEN B[i] ELSE Z[i - (x + y)]
  BY <1>1, <1>2
<1>4. ASSUME NEW i \in 1..x PROVE A[i] = X[i]
  <2>1. i \in 1..(x + y + z) /\ i <= x + y /\ i \in 1..(x + y) /\ i <= x
    BY <1>0
  <2> QED BY <1>1, <1>3, <2>1
<1>5. ASSUME NEW i \in 1..y PROVE A[x + i] = Y[i]
  <2>1. x + i \in 1..(x + y + z) /\ x + i <= x + y /\ x + i \in 1..(x + y) /\ ~(x + i <= x) /\ (x + i) - x = i
    BY <1>0
  <2> QED BY <1>1, <1>3, <2>1
<1>6. ASSUME NEW i \in 1..z PROVE A[x + y + i] = Z[i]
  <2>1. x + y + i \in 1..(x + y + z) /\ ~(x + y + i <= x + y) /\ (x + y + i) - (x + y) = i
    BY <1>0
  <2> QED BY <1>3, <2>1
<1> QED BY <1>2, <1>3, <1>4, <1>5, <1>6 DEF A, B, InParts

IsChunked(A, req, s) ==
    /\ A \in Seq(UnitsOf(req)) /\ Len(A) >= 5 /\ A[1].t = "te" /\ A[2].t = "end"
    /\ \A k \in Chunks(s) : ChunkAt(A, req, k) /\ ChunkNext(A, s, k)
    /\ \E k \in Chunks(s) : k.p = 2 /\ k.had = 0

\* An answer in chunks has this layout.
LEMMA ChunkedIs ==
    ASSUME NEW req, NEW s \in ShapeSet, s.chunked
    PROVE  IsChunked(Answer(req, s), req, s)
<1> DEFINE U == UnitsOf(req)
           X == <<Unit(req, "te", 0), Unit(req, "end", 0)>>
           Y == IF s.n = 0 THEN <<>> ELSE Chunk(req, s.n)
           Z == Chunk(req, 0)
           A == (X \o Y) \o Z
<1>0. s.n \in Nat /\ Answer(req, s) = A
  BY DEF Answer, ShapeSet
<1>1. Unit(req, "te", 0) \in U /\ Unit(req, "end", 0) \in U
  BY UnitIs DEF UnitTypes
<1>2. X \in Seq(U) /\ Len(X) = 2
  BY <1>1
<1>3. X[1].t = "te" /\ X[2].t = "end"
  BY DEF Unit
<1>4. PICK h : h = IF s.n < 2 THEN 1 ELSE 2
  OBVIOUS
<1>5. /\ Z \in Seq(U) /\ Len(Z) = 3 /\ Z[1] = Unit(req, "lo", 0)
  <2>1. 0 \in Nat /\ 1 = IF 0 < 2 THEN 1 ELSE 2
    OBVIOUS
  <2>2. IsChunk(Z, req, 0, 1)
    BY <2>1, ChunkIs
  <2> HIDE DEF Z
  <2> QED BY <2>2 DEF IsChunk
<1>6. CASE s.n = 0
  <2>1. Y \in Seq(U) /\ Len(Y) = 0
    BY <1>6, EmptySeq
  <2> HIDE DEF X, Y, Z, U
  <2>2. /\ A \in Seq(U) /\ Len(A) = 5 /\ A[1] = X[1] /\ A[2] = X[2] /\ A[3] = Z[1]
    <3>1. InParts(A, U, X, Y, Z, 2, 0, 3)
      BY <1>2, <1>5, <2>1, ThreeParts
    <3> HIDE DEF A
    <3> QED BY <3>1 DEF InParts
  <2>3. Chunks(s) = {[p |-> 2, d |-> 3, m |-> 0, had |-> 0]}
    BY <1>6 DEF Chunks
  <2> HIDE DEF A
  <2>4. ASSUME NEW k \in Chunks(s) PROVE ChunkAt(A, req, k) /\ ChunkNext(A, s, k)
    <3>1. k.p = 2 /\ k.d = 3 /\ k.m = 0 /\ k.had = 0
      BY <2>3
    <3> QED BY <1>5, <1>6, <2>2, <3>1 DEF ChunkAt, ChunkNext
  <2>5. \E k \in Chunks(s) : k.p = 2 /\ k.had = 0
    BY <2>3
  <2> QED BY <1>0, <1>3, <2>2, <2>4, <2>5 DEF U, IsChunked
<1>7. CASE s.n # 0
  <2> DEFINE n0 == s.n
  <2>0. n0 \in Nat /\ n0 > 0 /\ h \in Nat /\ (n0 < 2 => h = 1) /\ (n0 >= 2 => h = 2)
    BY <1>0, <1>4, <1>7
  <2>a. IsChunk(Y, req, n0, h)
    BY <1>0, <1>4, <1>7, ChunkIs
  <2> HIDE DEF X, Y, Z, n0
  <2>1. Y \in Seq(U) /\ Len(Y) = h + n0 + 2
    BY <2>a DEF IsChunk
  <2>2. /\ n0 < 2 => Y[1] = Unit(req, "lo", n0)
        /\ n0 >= 2 => \E v \in Nat, w \in Nat : /\ 2 * v + w = n0
                            /\ Y[1] = Unit(req, "hi", v) /\ Y[2] = Unit(req, "lo", w)
        /\ \A i \in 1..n0 : Y[h + i] = Unit(req, "data", i)
    BY <2>a DEF IsChunk
  <2> HIDE DEF U
  <2> DEFINE last == 2 + h + n0 + 2
  <2>3. /\ A \in Seq(U) /\ Len(A) = 2 + (h + n0 + 2) + 3
        /\ \A i \in 1..2 : A[i] = X[i]
        /\ \A i \in 1..(h + n0 + 2) : A[2 + i] = Y[i]
        /\ \A i \in 1..3 : A[2 + (h + n0 + 2) + i] = Z[i]
    <3>1. InParts(A, U, X, Y, Z, 2, h + n0 + 2, 3)
      BY <1>2, <1>5, <2>1, ThreeParts
    <3> HIDE DEF A
    <3> QED BY <3>1 DEF InParts
  <2> HIDE DEF A
  <2>4. A[1] = X[1] /\ A[2] = X[2] /\ A[last + 1] = Z[1] /\ Len(A) = last + 3 /\ last \in Nat
    <3>1. 2 + (h + n0 + 2) + 1 = last + 1 /\ 1 \in 1..3 /\ 1 \in 1..2 /\ 2 \in 1..2
      BY <2>0
    <3> QED BY <2>0, <2>3, <3>1
  <2>5. Chunks(s) = {[p |-> 2, d |-> 2 + h, m |-> n0, had |-> 0],
                     [p |-> last, d |-> last + 1, m |-> 0, had |-> n0]}
    <3>1. (IF s.n < 2 THEN 3 ELSE 4) = 2 + h
      BY <1>4
    <3>2. (IF s.n = 0 THEN 2 ELSE (2 + h) + s.n + 2) = last
      BY <1>7 DEF n0
    <3> QED BY <3>1, <3>2 DEF Chunks, n0
  <2>6. A[3] = Y[1] /\ (h = 2 => A[4] = Y[2])
    <3>1. 1 \in 1..(h + n0 + 2) /\ 2 \in 1..(h + n0 + 2) /\ 2 + 1 = 3 /\ 2 + 2 = 4
      BY <2>0
    <3> QED BY <2>3, <3>1
  <2>7. ASSUME NEW i \in 1..n0 PROVE A[(2 + h) + i] = Unit(req, "data", i)
    <3>1. h + i \in 1..(h + n0 + 2) /\ 2 + (h + i) = (2 + h) + i
      BY <2>0
    <3> QED BY <2>2, <2>3, <3>1
  <2>8. ASSUME NEW k \in Chunks(s), k.p = 2, k.d = 2 + h, k.m = n0, k.had = 0
        PROVE  ChunkAt(A, req, k) /\ ChunkNext(A, s, k)
    <3>1. k.d + k.m + 2 = last /\ last <= Len(A)
      BY <2>4, <2>8
    <3>2. \/ k.d = k.p + 1 /\ A[k.p + 1] = Unit(req, "lo", k.m)
          \/ /\ k.d = k.p + 2
             /\ \E v \in Nat, w \in Nat : /\ 2 * v + w = k.m
                    /\ A[k.p + 1] = Unit(req, "hi", v) /\ A[k.p + 2] = Unit(req, "lo", w)
      <4>1. CASE n0 < 2
        BY <2>0, <2>2, <2>6, <2>8, <4>1
      <4>2. CASE n0 >= 2
        BY <2>0, <2>2, <2>6, <2>8, <4>2
      <4> QED BY <2>0, <4>1, <4>2
    <3>3. ChunkAt(A, req, k)
      BY <2>0, <2>7, <2>8, <3>1, <3>2 DEF ChunkAt
    <3>4. \E l \in Chunks(s) : l.p = last /\ l.had = n0
      BY <2>5
    <3> QED BY <2>0, <2>8, <3>1, <3>3, <3>4 DEF ChunkNext, n0
  <2>9. ASSUME NEW k \in Chunks(s), k.p = last, k.d = last + 1, k.m = 0, k.had = n0
        PROVE  ChunkAt(A, req, k) /\ ChunkNext(A, s, k)
    <3>1. ChunkAt(A, req, k)
      BY <1>5, <2>0, <2>4, <2>9 DEF ChunkAt
    <3> QED BY <2>4, <2>9, <3>1 DEF ChunkNext, n0
  <2>10. ASSUME NEW k \in Chunks(s) PROVE ChunkAt(A, req, k) /\ ChunkNext(A, s, k)
    <3>1. \/ k.p = 2 /\ k.d = 2 + h /\ k.m = n0 /\ k.had = 0
          \/ k.p = last /\ k.d = last + 1 /\ k.m = 0 /\ k.had = n0
      BY <2>5
    <3> QED BY <2>8, <2>9, <3>1
  <2>11. \E k \in Chunks(s) : k.p = 2 /\ k.had = 0
    BY <2>5
  <2>12. Len(A) >= 5
    BY <2>0, <2>4
  <2> QED BY <1>0, <1>3, <2>3, <2>4, <2>10, <2>11, <2>12 DEF U, IsChunked
<1> QED BY <1>6, <1>7

IsAnswer(A, req, s) == IF s.chunked THEN IsChunked(A, req, s) ELSE IsPlain(A, req, s)

\* Every answer has the layout of its shape.
LEMMA AnswerIs ==
    ASSUME NEW req, NEW s \in ShapeSet
    PROVE  IsAnswer(Answer(req, s), req, s)
BY PlainIs, ChunkedIs DEF IsAnswer, ShapeSet

\* An answer as a sequence of units.
LEMMA AnswerSeq ==
    ASSUME NEW A, NEW req, NEW s \in ShapeSet, IsAnswer(A, req, s)
    PROVE  A \in Seq(UnitsOf(req)) /\ Len(A) \in Nat /\ s.n \in Nat /\ EndAt(s) <= Len(A)
<1>1. A \in Seq(UnitsOf(req))
  BY DEF IsAnswer, IsChunked, IsPlain
<1>2. Len(A) \in Nat
  BY <1>1, LenProperties
<1>3. s.n \in Nat
  BY DEF ShapeSet
<1>4. EndAt(s) <= Len(A)
  BY <1>2, <1>3 DEF EndAt, IsAnswer, IsChunked, IsPlain
<1> QED BY <1>1, <1>2, <1>3, <1>4

\* The units behind the header of a plain answer are its body.
LEMMA PlainBody ==
    ASSUME NEW A, NEW req, NEW s \in ShapeSet, IsPlain(A, req, s)
    PROVE  Cut(A, 3, Len(A)) = Bytes(req, s.n)
<1> DEFINE U == UnitsOf(req)
           C == Cut(A, 3, Len(A))
           B == Bytes(req, s.n)
<1>1. A \in Seq(U) /\ Len(A) = 3 + s.n /\ s.n \in Nat /\ Len(A) \in Nat /\ 3 \in Nat
  BY DEF IsPlain, ShapeSet
<1>2. 3 <= Len(A) /\ Len(A) <= Len(A) /\ Len(A) - 3 = s.n
  BY <1>1
<1>3. C \in Seq(U)
  BY <1>1, <1>2, CutSeq, Zenon
<1>4. Len(C) = s.n
  BY <1>1, <1>2, CutLen
<1>5. \A i \in 1..s.n : C[i] = A[3 + i]
  <2>1. \A i \in 1..(Len(A) - 3) : Cut(A, 3, Len(A))[i] = A[3 + i] /\ A[3 + i] \in UnitsOf(req)
    BY <1>1, <1>2, CutAt, ZenonT(60)
  <2> QED BY <1>2, <2>1, Zenon
<1>6. B \in Seq(U) /\ Len(B) = s.n /\ \A i \in 1..s.n : B[i] = Unit(req, "data", i)
  BY <1>1, UnitsAre
<1> HIDE DEF C, B, U
<1>7. \A i \in 1..s.n : C[i] = B[i]
  BY <1>5, <1>6 DEF IsPlain
<1>8. C = B
  BY <1>3, <1>4, <1>6, <1>7, SeqEqual
<1> QED BY <1>8 DEF C, B

\* The bytes of a chunk behind those that came before it are the whole body.
LEMMA ChunkBody ==
    ASSUME NEW A, NEW req, NEW s \in ShapeSet, A \in Seq(UnitsOf(req)),
           NEW k, ChunkAt(A, req, k), ChunkNext(A, s, k)
    PROVE  Bytes(req, k.had) \o Cut(A, k.d, k.d + k.m) = Bytes(req, s.n)
<1>0. PICK d, m, e : d = k.d /\ m = k.m /\ e = d + m
  OBVIOUS
<1> DEFINE U == UnitsOf(req)
           C == Cut(A, d, e)
           B == Bytes(req, s.n)
<1>1. /\ d \in Nat /\ m \in Nat /\ k.had \in Nat /\ d + m + 2 <= Len(A) /\ s.n \in Nat
      /\ Len(A) \in Nat
  BY <1>0, LenProperties DEF ChunkAt, ShapeSet
<1>2. e \in Nat /\ d <= e /\ e <= Len(A) /\ e - d = m
  BY <1>0, <1>1, SMTT(20)
<1>3. C \in Seq(U)
  BY <1>1, <1>2, CutSeq, Zenon
<1>4. Len(C) = m /\ (C = <<>> <=> d = e)
  <2>1. d \in Nat /\ e \in Nat /\ d <= e /\ e <= Len(A)
    BY <1>1, <1>2
  <2>2. Len(Cut(A, d, e)) = e - d /\ (Cut(A, d, e) = <<>> <=> d = e)
    BY <2>1, CutLen, ZenonT(60)
  <2> QED BY <1>2, <2>2
<1>5. \A i \in 1..m : C[i] = A[d + i]
  <2>1. \A i \in 1..(e - d) : Cut(A, d, e)[i] = A[d + i] /\ A[d + i] \in UnitsOf(req)
    BY <1>1, <1>2, CutAt, ZenonT(60)
  <2> QED BY <1>2, <2>1, Zenon
<1>6. B \in Seq(U) /\ Len(B) = s.n /\ \A i \in 1..s.n : B[i] = Unit(req, "data", i)
  BY <1>1, UnitsAre
<1>7. CASE m = 0
  <2>1. C = <<>>
    BY <1>0, <1>1, <1>4, <1>7
  <2>2. k.had = s.n
    BY <1>0, <1>7 DEF ChunkNext
  <2> HIDE DEF C, U
  <2>3. B \o <<>> = B
    BY <1>6, ConcatEmptySeq
  <2> QED BY <1>0, <2>1, <2>2, <2>3 DEF C
<1>8. CASE m # 0
  <2>1. m = s.n /\ k.had = 0
    BY <1>0, <1>8 DEF ChunkNext
  <2>2. Bytes(req, 0) = <<>>
    BY UnitsAre, EmptySeq
  <2> HIDE DEF C, B, U
  <2>3. \A i \in 1..s.n : C[i] = B[i]
    <3>1. \A i \in 1..m : A[d + i] = Unit(req, "data", i)
      BY <1>0 DEF ChunkAt
    <3> QED BY <1>5, <1>6, <2>1, <3>1
  <2>4. Len(C) = Len(B)
    BY <1>1, <1>4, <1>6, <2>1
  <2>5. C = B
    BY <1>3, <1>6, <2>3, <2>4, SeqEqual
  <2>6. <<>> \o C = C
    BY <1>3, ConcatEmptySeq
  <2> QED BY <1>0, <2>1, <2>2, <2>5, <2>6 DEF C, B
<1> QED BY <1>7, <1>8

\* What a read adds: it returns the units behind the q-th, up to the t-th.
LEMMA ReceivedTracks ==
    ASSUME NEW A, NEW req, NEW s \in ShapeSet, IsAnswer(A, req, s),
           NEW q \in Nat, NEW t \in Nat, q < t, t <= Len(A),
           NEW r, Tracks(r, A, s, req, q), r.at \in Reading,
           r.at \in {"rest", "body"} => t - q <= r.left
    PROVE  Tracks(Received(r, Cut(A, q, t)), A, s, req, t)
<1> DEFINE u == Cut(A, q, t)
           U == UnitsOf(req)
           r2 == Received(r, u)
<1>1. A \in Seq(U) /\ Len(A) \in Nat /\ s.n \in Nat /\ EndAt(s) <= Len(A)
  BY AnswerSeq
<1>2. u \in Seq(U)
  BY <1>1, CutSeq
<1>3. Len(u) = t - q
  BY <1>1, CutLen
<1>4. <<>> \o u = u
  BY <1>2, ConcatEmptySeq
<1>5. DOMAIN r = RecvFields /\ r.split = FALSE
  BY DEF Tracks
<1>6. Cut(A, q, q) = <<>> /\ Cut(A, t, t) = <<>>
  BY <1>1, CutLen
<1> HIDE DEF u
<1>7. CASE r.at = "head"
  <2>1. InHeader(r, A, s, req, q)
    BY <1>7 DEF Tracks, InBody, InSize, InBytes, InRest, Whole
  <2>2. PICK p \in (IF s.chunked THEN {0, 1} ELSE {0, 2}) :
          /\ p = q /\ p < EndAt(s) /\ r.buf = Cut(A, p, q) /\ r.body = <<>>
          /\ r.length = (IF p = 2 THEN s.n ELSE 0) /\ (r.chunked <=> p = 1)
          /\ r.of = IF p = 0 THEN <<>> ELSE req
    BY <1>7, <2>1 DEF InHeader
  <2>3. r2 = [r EXCEPT !.at = "parse", !.buf = @ \o u]
    BY <1>7 DEF Received
  <2>4. /\ DOMAIN r2 = RecvFields /\ r2.at = "parse" /\ r2.buf = r.buf \o u
        /\ r2.body = r.body /\ r2.length = r.length /\ r2.chunked = r.chunked /\ r2.of = r.of
        /\ r2.split = r.split
    BY <1>5, <2>3 DEF RecvFields
  <2> HIDE DEF r2
  <2>5. r2.buf = Cut(A, p, t)
    BY <1>4, <1>6, <2>2, <2>4 DEF u
  <2>6. InHeader(r2, A, s, req, t)
    BY <2>2, <2>4, <2>5 DEF InHeader
  <2>7. Tracks(r2, A, s, req, t)
    BY <1>5, <2>4, <2>6 DEF Tracks
  <2> QED BY <2>7 DEF r2, u
<1>8. CASE r.at = "chunk"
  <2>1. s.chunked /\ r.chunked /\ r.of = req /\ InSize(r, A, s, req, q)
    BY <1>8 DEF Tracks, InHeader, InBody, InBytes, InRest, Whole
  <2>2. PICK k \in Chunks(s) : /\ k.p = q /\ r.buf = Cut(A, k.p, q) /\ r.body = Bytes(req, k.had)
    BY <1>8, <2>1 DEF InSize
  <2>3. r2 = [r EXCEPT !.at = "size", !.buf = @ \o u]
    BY <1>8 DEF Received
  <2>4. /\ DOMAIN r2 = RecvFields /\ r2.at = "size" /\ r2.buf = r.buf \o u
        /\ r2.body = r.body /\ r2.of = r.of /\ r2.split = r.split /\ r2.chunked = r.chunked
    BY <1>5, <2>3 DEF RecvFields
  <2> HIDE DEF r2
  <2>5. r2.buf = Cut(A, k.p, t)
    BY <1>4, <1>6, <2>2, <2>4 DEF u
  <2>6. InSize(r2, A, s, req, t)
    BY <2>2, <2>4, <2>5 DEF InSize
  <2>7. Tracks(r2, A, s, req, t)
    BY <1>5, <2>1, <2>4, <2>6 DEF Tracks
  <2> QED BY <2>7 DEF r2, u
<1>9. CASE r.at = "body"
  <2>1. ~s.chunked /\ ~r.chunked /\ r.of = req /\ InBody(r, A, s, req, q)
    BY <1>9 DEF Tracks, InHeader, InSize, InBytes, InRest, Whole
  <2>2. q >= 3 /\ r.body = Cut(A, 3, q) /\ r.left \in Nat /\ r.left >= Len(A) - q /\ t - q <= r.left
    BY <1>9, <2>1 DEF InBody
  <2>3. r2 = [r EXCEPT !.body = @ \o u, !.left = @ - Len(u),
                       !.at = IF r.left = Len(u) THEN "ok" ELSE "body"]
    BY <1>9 DEF Received
  <2>4. /\ DOMAIN r2 = RecvFields /\ r2.at = (IF r.left = t - q THEN "ok" ELSE "body")
        /\ r2.left = r.left - (t - q) /\ r2.body = r.body \o u
        /\ r2.of = r.of /\ r2.split = r.split /\ r2.chunked = r.chunked
    BY <1>3, <1>5, <2>3 DEF RecvFields
  <2> HIDE DEF r2
  <2>5. Cut(A, 3, q) \o Cut(A, q, t) = Cut(A, 3, t)
    BY <1>1, <2>2, CutJoin, SMTT(20)
  <2>6. r2.body = Cut(A, 3, t)
    BY <2>2, <2>4, <2>5 DEF u
  <2>7. CASE r.left = t - q
    <3>1. t = Len(A)
      BY <1>1, <2>2, <2>7
    <3>2. r2.body = Bytes(req, s.n)
      BY <2>1, <2>6, <3>1, PlainBody DEF IsAnswer
    <3> QED BY <1>5, <2>1, <2>4, <2>7, <3>1, <3>2 DEF Tracks, Whole, r2, u
  <2>8. CASE r.left # t - q
    <3>1. r2.left \in Nat \ {0} /\ r2.left >= Len(A) - t /\ t >= 3
      BY <1>1, <2>2, <2>4, <2>8
    <3>2. InBody(r2, A, s, req, t)
      BY <2>1, <2>4, <2>6, <2>8, <3>1 DEF InBody
    <3>3. Tracks(r2, A, s, req, t)
      BY <1>5, <2>1, <2>4, <3>2 DEF Tracks
    <3> QED BY <3>3 DEF r2, u
  <2> QED BY <2>7, <2>8
<1>10. CASE r.at = "rest"
  <2>1. s.chunked /\ r.chunked /\ r.of = req /\ InRest(r, A, s, req, q)
    BY <1>10 DEF Tracks, InHeader, InSize, InBytes, InBody, Whole
  <2>2. PICK k \in Chunks(s) :
          /\ r.length = k.m /\ k.d <= q /\ q < k.d + k.m + 2 /\ r.left = k.d + k.m + 2 - q
          /\ r.buf = <<>> /\ r.body = Bytes(req, k.had) \o Cut(A, k.d, q)
    BY <2>1 DEF InRest
  <2>3. ChunkAt(A, req, k) /\ ChunkNext(A, s, k)
    BY <2>1 DEF IsAnswer, IsChunked
  <2>4. PICK d, m, e : d = k.d /\ m = k.m /\ e = d + m
    OBVIOUS
  <2>5. /\ d \in Nat /\ m \in Nat /\ e \in Nat /\ d <= e /\ e + 2 <= Len(A) /\ e <= Len(A)
        /\ k.had \in Nat
    <3>1. k.d \in Nat /\ k.m \in Nat /\ k.had \in Nat /\ k.d + k.m + 2 <= Len(A)
      BY <2>3 DEF ChunkAt
    <3>2. d \in Nat /\ m \in Nat /\ k.had \in Nat /\ d + m + 2 <= Len(A) /\ e = d + m
      BY <2>4, <3>1
    <3> QED BY <1>1, <3>2
  <2>6. d <= q /\ q <= t /\ t <= e + 2 /\ r.left = e + 2 - q
    BY <1>10, <2>2, <2>4, <2>5
  <2> DEFINE b == Bytes(req, k.had)
             all == r.body \o u
  <2>7. b \in Seq(U)
    BY <2>5, UnitsAre
  <2>8. all = b \o Cut(A, d, t)
    <3>1. Cut(A, d, q) \in Seq(U)
      <4>1. q <= Len(A)
        BY <1>1
      <4> QED BY <1>1, <2>5, <2>6, <4>1, CutSeq, Zenon
    <3>2. Cut(A, d, q) \o u = Cut(A, d, t)
      BY <1>1, <2>5, <2>6, CutJoin, SMTT(20) DEF u
    <3>3. r.body = b \o Cut(A, d, q)
      BY <2>2, <2>4
    <3> HIDE DEF b, U
    <3>4. (b \o Cut(A, d, q)) \o u = b \o (Cut(A, d, q) \o u)
      BY <1>2, <2>7, <3>1, ConcatAssociative, SMTT(20)
    <3> QED BY <3>2, <3>3, <3>4
  <2>9. r2 = IF r.left > Len(u)
             THEN [r EXCEPT !.body = all, !.left = @ - Len(u)]
             ELSE [r EXCEPT !.body = SubSeq(all, 1, Len(all) - 2), !.left = 0,
                            !.at = IF r.length = 0 THEN "ok" ELSE "chunk"]
    BY <1>10 DEF Received
  <2> HIDE DEF b, all, U
  <2>10. CASE r.left > Len(u)
    <3>1. /\ DOMAIN r2 = RecvFields /\ r2.at = r.at /\ r2.body = all /\ r2.left = r.left - Len(u)
          /\ r2.buf = r.buf /\ r2.length = r.length /\ r2.of = r.of /\ r2.split = r.split
          /\ r2.chunked = r.chunked
      BY <1>5, <2>9, <2>10 DEF RecvFields
    <3> HIDE DEF r2
    <3>2. t < d + m + 2 /\ r2.left = d + m + 2 - t /\ d <= t
      <4>1. e + 2 - q > t - q /\ r2.left = (e + 2 - q) - (t - q)
        BY <1>3, <2>6, <2>10, <3>1
      <4>2. t < e + 2 /\ r2.left = e + 2 - t
        BY <2>5, <4>1
      <4>3. d <= t
        BY <2>5, <2>6
      <4>4. d + m + 2 = e + 2
        BY <2>4
      <4> QED BY <2>5, <4>2, <4>3, <4>4
    <3>3. InRest(r2, A, s, req, t)
      BY <1>10, <2>2, <2>4, <2>8, <3>1, <3>2 DEF InRest, b
    <3>4. Tracks(r2, A, s, req, t)
      BY <1>5, <2>1, <3>1, <3>3 DEF Tracks
    <3> QED BY <3>4 DEF r2, u
  <2>11. CASE ~(r.left > Len(u))
    <3>1. /\ DOMAIN r2 = RecvFields /\ r2.at = (IF r.length = 0 THEN "ok" ELSE "chunk")
          /\ r2.body = SubSeq(all, 1, Len(all) - 2)
          /\ r2.buf = r.buf /\ r2.of = r.of /\ r2.split = r.split /\ r2.chunked = r.chunked
      BY <1>5, <2>9, <2>11 DEF RecvFields
    <3> HIDE DEF r2
    <3>2. t = e + 2 /\ e <= t /\ t - e = 2
      BY <1>3, <2>5, <2>6, <2>11
    <3>a. e <= t
      BY <3>2
    <3>b. A \in Seq(U) /\ d \in Nat /\ e \in Nat /\ t \in Nat /\ d <= e /\ e <= t /\ t <= Len(A)
      BY <1>1, <2>5, <3>a
    <3> DEFINE x == b \o Cut(A, d, e)
               y == Cut(A, e, t)
    <3>3. Cut(A, d, e) \in Seq(U) /\ y \in Seq(U)
      BY <1>1, <2>5, <3>2, CutSeq
    <3>4. Len(y) = 2
      <4>1. /\ Len(Cut(A, e, t)) = t - e /\ DOMAIN Cut(A, e, t) = 1..(t - e)
            /\ Cut(A, e, t) = <<>> <=> e = t
        BY <3>b, CutLen, ZenonT(60)
      <4> QED BY <3>2, <4>1
    <3>5. Cut(A, d, e) \o y = Cut(A, d, t)
      BY <3>b, CutJoin, ZenonT(60)
    <3> HIDE DEF y
    <3>6. (b \o Cut(A, d, e)) \o y = b \o (Cut(A, d, e) \o y)
      BY <2>7, <3>3, ConcatAssociative, SMTT(30)
    <3>7. all = x \o y
      BY <2>8, <3>5, <3>6
    <3>8. x \in Seq(U)
      BY <2>7, <3>3, ConcatProperties
    <3>9. x = Bytes(req, s.n)
      BY <1>1, <2>3, <2>4, ChunkBody DEF b, U
    <3> HIDE DEF x
    <3>10. Len(all) = Len(x) + 2 /\ Len(x) \in Nat
      <4>1. Len(x \o y) = Len(x) + Len(y)
        BY <3>3, <3>8, ConcatProperties
      <4>2. Len(x) \in Nat
        BY <3>8, LenProperties
      <4> QED BY <3>4, <3>7, <4>1, <4>2
    <3>11. Len(x) \in 0..Len(x)
      BY <3>10
    <3>12. SubSeq(x \o y, 1, Len(x)) = SubSeq(x, 1, Len(x))
      BY <3>3, <3>8, <3>11, SubSeqOfConcat1
    <3>13. SubSeq(x, 1, Len(x)) = x
      BY <3>8, SubSeqFull
    <3>14. Len(all) - 2 = Len(x)
      BY <3>10
    <3>15. r2.body = Bytes(req, s.n)
      BY <3>1, <3>7, <3>9, <3>12, <3>13, <3>14
    <3>16. CASE m = 0
      <4>1. t = Len(A)
        <5>1. d + 2 = Len(A)
          BY <2>3, <2>4, <3>16 DEF ChunkNext
        <5> QED BY <2>4, <2>5, <3>2, <3>16, <5>1
      <4>2. Whole(r2, A, s, req, t)
        BY <2>2, <2>4, <3>1, <3>15, <3>16, <4>1, SMTT(30) DEF Whole
      <4> QED BY <1>5, <2>1, <3>1, <4>2 DEF Tracks, r2, u
    <3>17. CASE m # 0
      <4>1. PICK l \in Chunks(s) : l.p = t /\ l.had = s.n
        BY <2>3, <2>4, <3>2, <3>17 DEF ChunkNext
      <4>2. InSize(r2, A, s, req, t)
        BY <1>6, <2>2, <2>4, <3>1, <3>15, <3>17, <4>1, SMTT(30) DEF InSize
      <4> QED BY <1>5, <2>1, <3>1, <4>2 DEF Tracks, r2, u
    <3> QED BY <3>16, <3>17
  <2> QED BY <2>10, <2>11
<1> QED BY <1>7, <1>8, <1>9, <1>10 DEF Reading

\* The units of the header
LEMMA HeaderTypes ==
    ASSUME NEW A, NEW req, NEW s \in ShapeSet, IsAnswer(A, req, s), NEW i \in 1..EndAt(s)
    PROVE  /\ A[i].t \in {"name", "value", "te", "end"}
           /\ A[i].t = "end" <=> i = EndAt(s)
           /\ A[i].t = "name" <=> ~s.chunked /\ i = 1
           /\ A[i].t = "te" <=> s.chunked /\ i = 1
           /\ A[i].t = "value" <=> ~s.chunked /\ i = 2
           /\ A[i].req = req
<1>1. A \in Seq(UnitsOf(req)) /\ EndAt(s) <= Len(A) /\ Len(A) \in Nat
  BY AnswerSeq
<1>2. A[i] \in UnitsOf(req)
  <2>1. i \in 1..Len(A)
    BY <1>1 DEF EndAt
  <2> QED BY <1>1, <2>1, ElementOfSeq
<1>3. A[i].req = req
  BY <1>2 DEF UnitsOf
<1>4. CASE s.chunked
  <2>1. i = 1 \/ i = 2
    BY <1>4 DEF EndAt
  <2> QED BY <1>3, <1>4, <2>1 DEF EndAt, IsAnswer, IsChunked
<1>5. CASE ~s.chunked
  <2>1. i = 1 \/ i = 2 \/ i = 3
    BY <1>5 DEF EndAt
  <2> QED BY <1>3, <1>5, <2>1 DEF EndAt, IsAnswer, IsPlain
<1> QED BY <1>4, <1>5

\* execute() on the units of a header, of which p were consumed before
LEMMA HeaderTracks ==
    ASSUME NEW A, NEW req, NEW s \in ShapeSet, IsAnswer(A, req, s),
           NEW q \in Nat, q <= Len(A), NEW r, Tracks(r, A, s, req, q), r.at = "parse"
    PROVE  Tracks(ParseHeader(r), A, s, req, q) \/ ParseHeader(r).split
<1> DEFINE U == UnitsOf(req)
<1>1. A \in Seq(U) /\ Len(A) \in Nat /\ s.n \in Nat /\ EndAt(s) <= Len(A)
  BY AnswerSeq
<1>2. DOMAIN r = RecvFields /\ r.split = FALSE /\ InHeader(r, A, s, req, q)
  BY DEF Tracks, InBody, InSize, InBytes, InRest, Whole
<1>3. PICK p : /\ p \in (IF s.chunked THEN {0, 1} ELSE {0, 2})
          /\ p < q /\ p <= q /\ p < EndAt(s) /\ r.buf = Cut(A, p, q) /\ r.body = <<>>
          /\ r.length = (IF p = 2 THEN s.n ELSE 0) /\ (r.chunked <=> p = 1)
          /\ r.of = IF p = 0 THEN <<>> ELSE req
  BY <1>2 DEF InHeader
<1>4. PICK e : e = EndAt(s)
  OBVIOUS
<1>5. PICK m : m = IF q < e THEN q ELSE e
  OBVIOUS
<1>6. /\ e \in Nat /\ m \in Nat /\ p \in Nat /\ p < m /\ m <= q /\ m <= e /\ m <= Len(A) /\ p <= m
      /\ m - p \in Nat /\ e <= Len(A)
  BY <1>1, <1>3, <1>4, <1>5 DEF EndAt
<1>a. A \in Seq(U) /\ p \in Nat /\ m \in Nat /\ p <= q /\ p <= m /\ m <= q /\ m <= Len(A)
  BY <1>1, <1>3, <1>6
<1> DEFINE ends  == {i \in DOMAIN r.buf : r.buf[i].t \in {"end", "lo"}}
           c     == IF ends = {} THEN Len(r.buf) ELSE CHOOSE i \in ends : \A j \in ends : i <= j
           head  == SubSeq(r.buf, 1, c)
           lines == {i \in 1..(c - 1) : head[i].t = "name" /\ head[i + 1].t = "value"}
           len   == IF lines = {} THEN r.length ELSE head[1 + CHOOSE i \in lines : TRUE].v
           te    == r.chunked \/ TypesOf(head) \cap {"te", "lo"} # {}
           rest  == SubSeq(r.buf, c + 1, Len(r.buf))
           new   == [r EXCEPT !.buf = rest, !.length = len, !.chunked = te,
                              !.of = IF @ = <<>> THEN head[1].req ELSE @,
                              !.split = @ \/ Last(head).t = "name"]
           r2    == IF TypesOf(head) \cap {"data", "crlf"} # {} THEN ReadZero(r)
                    ELSE IF ends = {} THEN [new EXCEPT !.at = "head"]
                    ELSE IF te THEN [new EXCEPT !.at = IF rest = <<>> THEN "chunk" ELSE "size"]
                    ELSE IF len <= Len(rest)
                    THEN [new EXCEPT !.at = "ok", !.body = SubSeq(rest, 1, len), !.buf = <<>>]
                    ELSE [new EXCEPT !.at = "body", !.body = rest, !.left = len - Len(rest),
                                     !.buf = <<>>]
<1>7. ParseHeader(r) = r2
  BY DEF ParseHeader
<1>8. /\ Len(r.buf) = q - p /\ DOMAIN r.buf = 1..(q - p)
      /\ \A i \in 1..(q - p) : r.buf[i] = A[p + i]
  <2>1. Len(r.buf) = q - p /\ DOMAIN r.buf = 1..(q - p)
    BY <1>a, <1>3, CutLen
  <2>2. \A i \in 1..(q - p) : r.buf[i] = A[p + i]
    BY <1>a, <1>3, CutAt
  <2> QED BY <2>1, <2>2
<1>9. \A i \in 1..(m - p) : /\ i \in 1..(q - p) /\ p + i \in 1..e
                            /\ r.buf[i].t \in {"name", "value", "te", "end"}
                            /\ r.buf[i].t = "end" <=> p + i = e
  <2> SUFFICES ASSUME NEW i \in 1..(m - p)
               PROVE  /\ i \in 1..(q - p) /\ p + i \in 1..e
                      /\ r.buf[i].t \in {"name", "value", "te", "end"}
                      /\ r.buf[i].t = "end" <=> p + i = e
    OBVIOUS
  <2>1. i \in 1..(q - p) /\ p + i \in 1..e
    BY <1>6
  <2>2. r.buf[i] = A[p + i]
    BY <1>8, <2>1
  <2>3. A[p + i].t \in {"name", "value", "te", "end"} /\ (A[p + i].t = "end" <=> p + i = e)
    BY <1>4, <2>1, HeaderTypes
  <2> QED BY <2>1, <2>2, <2>3
<1>10. (q < e => ends = {}) /\ (e <= q => ends # {}) /\ c = m - p
  <2>1. CASE q < e
    <3>1. m = q
      BY <1>5, <2>1
    <3>2. ends = {}
      <4> SUFFICES ASSUME NEW i \in ends PROVE FALSE
        OBVIOUS
      <4>1. i \in 1..(m - p) /\ r.buf[i].t \in {"end", "lo"}
        BY <1>8, <3>1
      <4>2. p + i # e
        BY <1>6, <2>1, <3>1, <4>1
      <4> QED BY <1>9, <4>1, <4>2
    <3> QED BY <1>8, <2>1, <3>1, <3>2, <1>6
  <2>2. CASE ~(q < e)
    <3>1. m = e
      BY <1>5, <2>2
    <3>2. e - p \in 1..(m - p) /\ p + (e - p) = e
      BY <1>6, <3>1
    <3>3. e - p \in ends
      BY <1>8, <1>9, <3>2
    <3>4. \A i \in ends : i \in Nat /\ e - p <= i
      <4> SUFFICES ASSUME NEW i \in ends PROVE i \in Nat /\ e - p <= i
        OBVIOUS
      <4>1. i \in 1..(q - p) /\ r.buf[i].t \in {"end", "lo"}
        BY <1>8
      <4>2. ASSUME i < e - p PROVE FALSE
        <5>1. i \in 1..(m - p) /\ p + i # e
          BY <1>6, <3>1, <4>1, <4>2
        <5> QED BY <1>9, <4>1, <5>1
      <4> QED BY <1>6, <4>1, <4>2
    <3> HIDE DEF ends
    <3>5. ends # {} /\ c = CHOOSE i \in ends : \A j \in ends : i <= j
      BY <3>3
    <3>6. e - p \in ends /\ \A j \in ends : e - p <= j
      BY <3>3, <3>4
    <3>7. \A i \in ends : (\A j \in ends : i <= j) => i = e - p
      BY <1>6, <3>3, <3>4
    <3>8. (CHOOSE i \in ends : \A j \in ends : i <= j) = e - p
      BY <3>6, <3>7
    <3> HIDE DEF c
    <3> QED BY <1>6, <2>2, <3>1, <3>5, <3>8
  <2> QED BY <2>1, <2>2
<1> HIDE DEF ends, c
<1>11. head = Cut(A, p, m) /\ rest = Cut(A, m, q)
  <2>1. c \in 0..(q - p) /\ p + c = m
    BY <1>6, <1>10
  <2>2. SubSeq(Cut(A, p, q), 1, c) = Cut(A, p, p + c)
    BY <1>a, <2>1, CutFirst
  <2>3. SubSeq(Cut(A, p, q), c + 1, q - p) = Cut(A, p + c, q)
    BY <1>a, <2>1, CutBehind
  <2> QED BY <1>3, <1>8, <2>1, <2>2, <2>3
<1>12. /\ Len(head) = m - p /\ DOMAIN head = 1..(m - p)
       /\ \A i \in 1..(m - p) : head[i] = A[p + i]
  <2>0. Cut(A, p, m) \in Seq(U)
    BY <1>a, CutSeq, Zenon
  <2>1. Len(Cut(A, p, m)) = m - p
    BY <1>a, CutLen
  <2>3. DOMAIN Cut(A, p, m) = 1..(m - p)
    BY <2>0, <2>1, LenProperties
  <2>2. \A i \in 1..(m - p) : Cut(A, p, m)[i] = A[p + i]
    BY <1>a, CutAt
  <2> HIDE DEF head
  <2> QED BY <1>11, <2>1, <2>2, <2>3
<1>13. Len(rest) = q - m /\ (rest = <<>> <=> m = q)
  <2>1. Len(Cut(A, m, q)) = q - m /\ (Cut(A, m, q) = <<>> <=> m = q)
    BY <1>a, CutLen
  <2> HIDE DEF rest
  <2> QED BY <1>11, <2>1
<1> HIDE DEF head, rest
<1>14. \A i \in 1..(m - p) :
          /\ head[i].t \in {"name", "value", "te", "end"} /\ head[i].req = req
          /\ head[i].t = "name" <=> ~s.chunked /\ p + i = 1
          /\ head[i].t = "te" <=> s.chunked /\ p + i = 1
          /\ head[i].t = "value" <=> ~s.chunked /\ p + i = 2
  <2> SUFFICES ASSUME NEW i \in 1..(m - p)
               PROVE  /\ head[i].t \in {"name", "value", "te", "end"} /\ head[i].req = req
                      /\ head[i].t = "name" <=> ~s.chunked /\ p + i = 1
                      /\ head[i].t = "te" <=> s.chunked /\ p + i = 1
                      /\ head[i].t = "value" <=> ~s.chunked /\ p + i = 2
    OBVIOUS
  <2>1. p + i \in 1..EndAt(s) /\ head[i] = A[p + i]
    BY <1>4, <1>9, <1>12
  <2>2. PICK j \in 1..EndAt(s) : j = p + i
    BY <2>1
  <2> QED BY <2>1, <2>2, HeaderTypes
<1>15. TypesOf(head) = {head[i].t : i \in 1..(m - p)}
  BY <1>12 DEF TypesOf
<1>16. TypesOf(head) \cap {"data", "crlf"} = {}
  BY <1>14, <1>15
<1>17. te <=> s.chunked
  <2>1. CASE ~s.chunked
    <3>1. p # 1
      BY <1>3, <2>1
    <3> QED BY <1>3, <1>14, <1>15, <2>1, <3>1
  <2>2. CASE s.chunked /\ p = 1
    BY <1>3, <2>2
  <2>3. CASE s.chunked /\ p = 0
    <3>1. 1 \in 1..(m - p) /\ p + 1 = 1
      BY <1>6, <2>3
    <3>2. head[1].t = "te"
      BY <1>14, <2>3, <3>1
    <3>3. "te" \in TypesOf(head)
      BY <1>15, <3>1, <3>2
    <3> QED BY <2>3, <3>3
  <2> QED BY <1>3, <2>1, <2>2, <2>3
<1>b. te \in BOOLEAN /\ s.chunked \in BOOLEAN
  BY DEF ShapeSet
<1>18. Last(head).t = "name" <=> ~s.chunked /\ m = 1
  <2>1. Last(head) = head[m - p] /\ m - p \in 1..(m - p) /\ p + (m - p) = m
    BY <1>6, <1>12 DEF Last
  <2> QED BY <1>14, <2>1
<1>19. CASE ~s.chunked /\ m = 1
  <2>1. DOMAIN new = RecvFields /\ new.split
    BY <1>2, <1>18, <1>19 DEF RecvFields
  <2>2. r2.split
    BY <1>16, <2>1 DEF RecvFields
  <2> QED BY <1>7, <2>2
<1>20. CASE ~(~s.chunked /\ m = 1)
  <2>1. /\ len = IF s.chunked THEN 0 ELSE s.n
    <3>1. CASE s.chunked
      <4>1. \A i \in 1..(c - 1) : head[i].t # "name"
        BY <1>10, <1>14, <3>1, <1>6
      <4>2. lines = {}
        BY <4>1
      <4> QED BY <1>3, <3>1, <4>2
    <3>2. CASE ~s.chunked /\ p = 2
      <4>1. \A i \in 1..(c - 1) : head[i].t # "name"
        BY <1>10, <1>14, <3>2, <1>6
      <4>2. lines = {}
        BY <4>1
      <4> QED BY <1>3, <3>2, <4>2
    <3>3. CASE ~s.chunked /\ p = 0
      <4>1. m >= 2 /\ c = m
        BY <1>6, <1>10, <1>20, <3>3
      <4>2. 1 \in 1..(m - p) /\ 2 \in 1..(m - p) /\ 1 \in 1..(c - 1) /\ p + 1 = 1 /\ p + 2 = 2
        BY <1>6, <3>3, <4>1
      <4>3. head[1].t = "name" /\ head[2].t = "value"
        BY <1>14, <3>3, <4>2
      <4>4. \A i \in 1..(c - 1) : head[i].t = "name" => i = 1
        BY <1>6, <1>14, <3>3, <4>1
      <4>5. lines = {1}
        BY <4>2, <4>3, <4>4
      <4>6. head[2] = A[2] /\ A[2].v = s.n
        BY <1>12, <3>3, <4>2 DEF IsAnswer, IsPlain
      <4> HIDE DEF lines
      <4>7. (CHOOSE i \in lines : TRUE) = 1
        BY <4>5
      <4> QED BY <3>3, <4>5, <4>6, <4>7
    <3> QED BY <1>3, <3>1, <3>2, <3>3
  <2>2. head[1].req = req
    BY <1>6, <1>14
  <2> HIDE DEF len, te
  <2>3. /\ DOMAIN new = RecvFields /\ new.at = r.at /\ new.buf = rest /\ new.length = len
        /\ new.chunked = te /\ new.body = r.body /\ new.left = r.left
    BY <1>2 DEF RecvFields
  <2>4. new.of = req
    <3>1. new.of = IF r.of = <<>> THEN head[1].req ELSE r.of
      BY <1>2 DEF RecvFields
    <3> QED BY <1>3, <2>2, <3>1
  <2>5. new.split = FALSE
    <3>1. new.split = (r.split \/ Last(head).t = "name")
      BY <1>2 DEF RecvFields
    <3> QED BY <1>2, <1>18, <1>20, <3>1
  <2> HIDE DEF new
  <2>6. CASE q < e
    <3>1. r2 = [new EXCEPT !.at = "head"]
      BY <1>10, <1>16, <2>6
    <3>2. /\ DOMAIN r2 = RecvFields /\ r2.at = "head" /\ r2.buf = rest /\ r2.length = len
          /\ r2.chunked = te /\ r2.body = <<>> /\ r2.of = req /\ r2.split = FALSE
      BY <1>3, <2>3, <2>4, <2>5, <3>1 DEF RecvFields
    <3>3. m = q /\ rest = Cut(A, q, q)
      BY <1>5, <1>11, <2>6
    <3> HIDE DEF r2
    <3>4. CASE s.chunked
      <4>1. q = 1
        BY <1>4, <1>6, <2>6, <3>3, <3>4 DEF EndAt
      <4>2. r2.length = 0 /\ r2.chunked = TRUE /\ 1 < EndAt(s)
        BY <1>17, <1>b, <2>1, <3>2, <3>4 DEF EndAt
      <4>3. InHeader(r2, A, s, req, q)
        <5>1. 1 \in (IF s.chunked THEN {0, 1} ELSE {0, 2})
          BY <3>4
        <5>2. r2.buf = Cut(A, 1, q) /\ r2.of = (IF 1 = 0 THEN <<>> ELSE req)
          BY <3>2, <3>3, <4>1
        <5>3. /\ r2.at \in {"head", "parse"} /\ 1 <= q /\ (r2.at = "head" <=> 1 = q)
              /\ r2.body = <<>> /\ r2.length = (IF 1 = 2 THEN s.n ELSE 0) /\ (r2.chunked <=> 1 = 1)
          BY <3>2, <4>1, <4>2
        <5> QED BY <4>2, <5>1, <5>2, <5>3, Zenon DEF InHeader
      <4> QED BY <1>7, <3>2, <4>3 DEF Tracks
    <3>5. CASE ~s.chunked
      <4>1. q = 2
        BY <1>4, <1>6, <1>20, <2>6, <3>3, <3>5 DEF EndAt
      <4>2. r2.length = s.n /\ r2.chunked = FALSE /\ 2 < EndAt(s)
        BY <1>17, <1>b, <2>1, <3>2, <3>5 DEF EndAt
      <4>3. InHeader(r2, A, s, req, q)
        <5>1. 2 \in (IF s.chunked THEN {0, 1} ELSE {0, 2})
          BY <3>5
        <5>2. r2.buf = Cut(A, 2, q) /\ r2.of = (IF 2 = 0 THEN <<>> ELSE req)
          BY <3>2, <3>3, <4>1
        <5>3. /\ r2.at \in {"head", "parse"} /\ 2 <= q /\ (r2.at = "head" <=> 2 = q)
              /\ r2.body = <<>> /\ r2.length = (IF 2 = 2 THEN s.n ELSE 0) /\ (r2.chunked <=> 2 = 1)
          BY <3>2, <4>1, <4>2
        <5> QED BY <4>2, <5>1, <5>2, <5>3, Zenon DEF InHeader
      <4> QED BY <1>7, <3>2, <4>3 DEF Tracks
    <3> QED BY <3>4, <3>5
  <2>7. CASE e <= q /\ s.chunked
    <3>1. r2 = [new EXCEPT !.at = IF rest = <<>> THEN "chunk" ELSE "size"]
      BY <1>10, <1>16, <1>17, <2>7
    <3>2. /\ DOMAIN r2 = RecvFields /\ r2.at = (IF rest = <<>> THEN "chunk" ELSE "size")
          /\ r2.buf = rest /\ r2.body = <<>> /\ r2.of = req /\ r2.split = FALSE
          /\ r2.chunked = te
      BY <1>3, <2>3, <2>4, <2>5, <3>1 DEF RecvFields
    <3> HIDE DEF r2
    <3>3. m = 2 /\ rest = Cut(A, 2, q) /\ (rest = <<>> <=> q = 2) /\ 2 <= q
      BY <1>4, <1>5, <1>11, <1>13, <2>7 DEF EndAt
    <3>4. PICK k \in Chunks(s) : k.p = 2 /\ k.had = 0
      BY <2>7 DEF IsAnswer, IsChunked
    <3>5. Bytes(req, 0) = <<>>
      BY UnitsAre, EmptySeq
    <3>6. InSize(r2, A, s, req, q)
      BY <3>2, <3>3, <3>4, <3>5 DEF InSize
    <3> QED BY <1>7, <1>17, <2>7, <3>2, <3>6 DEF Tracks
  <2>8. CASE e <= q /\ ~s.chunked
    <3>0. /\ m = 3 /\ len = s.n /\ Len(rest) = q - 3 /\ Len(A) = 3 + s.n /\ rest = Cut(A, 3, q)
          /\ 3 <= q
      BY <1>4, <1>5, <1>11, <1>13, <2>1, <2>8 DEF EndAt, IsAnswer, IsPlain
    <3>1. CASE len <= Len(rest)
      <4>1. r2 = [new EXCEPT !.at = "ok", !.body = SubSeq(rest, 1, len), !.buf = <<>>]
        BY <1>10, <1>16, <1>17, <2>8, <3>1
      <4>2. /\ DOMAIN r2 = RecvFields /\ r2.at = "ok" /\ r2.body = SubSeq(rest, 1, len)
            /\ r2.of = req /\ r2.split = FALSE /\ r2.chunked = te
        BY <2>3, <2>4, <2>5, <4>1 DEF RecvFields
      <4> HIDE DEF r2
      <4>3. q = Len(A) /\ len = Len(rest)
        BY <1>1, <3>0, <3>1
      <4>4. rest \in Seq(U)
        BY <1>1, <3>0, CutSeq
      <4>5. SubSeq(rest, 1, len) = rest
        BY <4>3, <4>4, SubSeqFull
      <4>6. rest = Bytes(req, s.n)
        <5>1. IsPlain(A, req, s)
          BY <2>8 DEF IsAnswer
        <5>2. Cut(A, 3, Len(A)) = Bytes(req, s.n)
          BY <5>1, PlainBody, Zenon
        <5> QED BY <3>0, <4>3, <5>2, Zenon
      <4>7. Whole(r2, A, s, req, q)
        BY <4>2, <4>3, <4>5, <4>6 DEF Whole
      <4> QED BY <1>7, <1>17, <2>8, <4>2, <4>7 DEF Tracks
    <3>2. CASE ~(len <= Len(rest))
      <4>1. r2 = [new EXCEPT !.at = "body", !.body = rest, !.left = len - Len(rest), !.buf = <<>>]
        BY <1>10, <1>16, <1>17, <2>8, <3>2
      <4>2. /\ DOMAIN r2 = RecvFields /\ r2.at = "body" /\ r2.body = rest
            /\ r2.left = len - Len(rest) /\ r2.of = req /\ r2.split = FALSE /\ r2.chunked = te
        BY <2>3, <2>4, <2>5, <4>1, ZenonT(60) DEF RecvFields
      <4> HIDE DEF r2
      <4>3. r2.left \in Nat \ {0} /\ r2.left >= Len(A) - q
        BY <1>1, <3>0, <3>2, <4>2
      <4>4. InBody(r2, A, s, req, q)
        BY <2>8, <3>0, <4>2, <4>3 DEF InBody
      <4> QED BY <1>7, <1>17, <2>8, <4>2, <4>4 DEF Tracks
    <3> QED BY <3>1, <3>2
  <2> QED BY <1>6, <2>6, <2>7, <2>8
<1> QED BY <1>19, <1>20

\* execute() on the line with the size of a chunk
LEMMA SizeTracks ==
    ASSUME NEW A, NEW req, NEW s \in ShapeSet, IsAnswer(A, req, s),
           NEW q \in Nat, q <= Len(A), NEW r, Tracks(r, A, s, req, q), r.at = "size"
    PROVE  Tracks(ParseSize(r), A, s, req, q) \/ ParseSize(r).split
<1> DEFINE U == UnitsOf(req)
           r2 == ParseSize(r)
           got(x, size) == [r EXCEPT !.buf = SubSeq(@, x + 1, Len(@)), !.length = size,
                                     !.at = "bytes"]
<1>1. /\ DOMAIN r = RecvFields /\ r.split = FALSE /\ r.of = req /\ s.chunked /\ r.chunked
      /\ InSize(r, A, s, req, q)
  BY DEF Tracks, InHeader, InBody, InBytes, InRest, Whole
<1>2. PICK k \in Chunks(s) :
        /\ k.p <= q /\ k.p # q /\ r.buf = Cut(A, k.p, q) /\ r.body = Bytes(req, k.had)
  BY <1>1 DEF InSize
<1>3. ChunkAt(A, req, k) /\ A \in Seq(U)
  BY <1>1 DEF IsAnswer, IsChunked
<1>4. PICK p, d, m : p = k.p /\ d = k.d /\ m = k.m
  OBVIOUS
<1>5. p \in Nat /\ d \in Nat /\ m \in Nat /\ p < q /\ p <= q
  BY <1>2, <1>3, <1>4 DEF ChunkAt
<1>6. /\ Len(r.buf) = q - p
      /\ \A i \in 1..(q - p) : r.buf[i] = A[p + i]
  <2>1. r.buf = Cut(A, p, q)
    BY <1>2, <1>4
  <2>2. Len(Cut(A, p, q)) = q - p
    BY <1>3, <1>5, CutLen
  <2>3. \A i \in 1..(q - p) : Cut(A, p, q)[i] = A[p + i]
    BY <1>3, <1>5, CutAt
  <2> QED BY <2>1, <2>2, <2>3
<1>7. r.buf[1] = A[p + 1] /\ (q - p # 1 => r.buf[2] = A[p + 2])
  <2>1. 1 \in 1..(q - p) /\ (q - p # 1 => 2 \in 1..(q - p))
    BY <1>5
  <2> QED BY <1>6, <2>1
\* The size is known, and behind it are the bytes.
<1>8. ASSUME NEW x \in 0..(q - p), p + x = d, r2 = got(x, m)
      PROVE  Tracks(r2, A, s, req, q)
  <2>1. SubSeq(Cut(A, p, q), x + 1, q - p) = Cut(A, p + x, q)
    BY <1>3, <1>5, CutBehind
  <2>2. SubSeq(r.buf, x + 1, Len(r.buf)) = Cut(A, d, q)
    BY <1>2, <1>4, <1>6, <1>8, <2>1
  <2>3. /\ DOMAIN r2 = RecvFields /\ r2.at = "bytes" /\ r2.length = m
        /\ r2.buf = SubSeq(r.buf, x + 1, Len(r.buf))
        /\ r2.body = r.body /\ r2.of = r.of /\ r2.split = r.split /\ r2.chunked = r.chunked
    BY <1>1, <1>8 DEF RecvFields
  <2> HIDE DEF r2, got
  <2>4. d <= q
    BY <1>5, <1>8
  <2>5. InBytes(r2, A, s, req, q)
    BY <1>2, <1>4, <2>2, <2>3, <2>4 DEF InBytes
  <2> QED BY <1>1, <2>3, <2>5 DEF Tracks
<1>9. CASE d = p + 1 /\ A[p + 1] = Unit(req, "lo", m)
  <2>1. r.buf[1].t = "lo" /\ r.buf[1].v = m
    BY <1>7, <1>9 DEF Unit
  <2>2. r2 = got(1, m)
    BY <2>1 DEF ParseSize
  <2>3. 1 \in 0..(q - p)
    BY <1>5
  <2> QED BY <1>8, <1>9, <2>2, <2>3
<1>10. CASE /\ d = p + 2
            /\ \E v \in Nat, w \in Nat : /\ 2 * v + w = m
                   /\ A[p + 1] = Unit(req, "hi", v) /\ A[p + 2] = Unit(req, "lo", w)
  <2>1. PICK v \in Nat, w \in Nat : /\ 2 * v + w = m
                   /\ A[p + 1] = Unit(req, "hi", v) /\ A[p + 2] = Unit(req, "lo", w)
    BY <1>10
  <2>2. r.buf[1].t = "hi" /\ r.buf[1].v = v
    BY <1>7, <2>1 DEF Unit
  <2>3. CASE q - p = 1
    <3>1. r2 = [r EXCEPT !.buf = <<>>, !.at = "chunk", !.split = TRUE]
      BY <1>6, <2>2, <2>3 DEF ParseSize
    <3> QED BY <1>1, <3>1 DEF RecvFields
  <2>4. CASE q - p # 1
    <3>1. Len(r.buf) > 1 /\ Len(r.buf) # 1 /\ 2 \in 0..(q - p)
      BY <1>5, <1>6, <2>4
    <3>2. r.buf[2].v = w
      BY <1>7, <2>1, <2>4 DEF Unit
    <3>3. 2 * r.buf[1].v + r.buf[2].v = m
      BY <2>1, <2>2, <3>2
    <3>4. r2 = got(2, 2 * r.buf[1].v + r.buf[2].v)
      BY <2>2, <3>1 DEF ParseSize
    <3> QED BY <1>8, <1>10, <3>1, <3>3, <3>4
  <2> QED BY <2>3, <2>4
<1> QED BY <1>3, <1>4, <1>9, <1>10 DEF ChunkAt

\* The bytes of a chunk that the buffer has
LEMMA BytesTracks ==
    ASSUME NEW A, NEW req, NEW s \in ShapeSet, IsAnswer(A, req, s),
           NEW q \in Nat, q <= Len(A), NEW r, Tracks(r, A, s, req, q), r.at = "bytes"
    PROVE  Tracks(TakeBytes(r), A, s, req, q)
<1> DEFINE U == UnitsOf(req)
           r2 == TakeBytes(r)
           x == r.length + 2
           rest == SubSeq(r.buf, x + 1, Len(r.buf))
<1>1. /\ DOMAIN r = RecvFields /\ r.split = FALSE /\ r.of = req /\ s.chunked /\ r.chunked
      /\ InBytes(r, A, s, req, q)
  BY DEF Tracks, InHeader, InBody, InSize, InRest, Whole
<1>2. PICK k \in Chunks(s) : /\ r.length = k.m /\ k.d <= q /\ r.buf = Cut(A, k.d, q)
                             /\ r.body = Bytes(req, k.had)
  BY <1>1 DEF InBytes
<1>3. ChunkAt(A, req, k) /\ ChunkNext(A, s, k) /\ A \in Seq(U)
  BY <1>1 DEF IsAnswer, IsChunked
<1>4. PICK d, m, e : d = k.d /\ m = k.m /\ e = d + m
  OBVIOUS
<1>5. d \in Nat /\ m \in Nat /\ e \in Nat /\ d <= q /\ d <= e /\ e + 2 <= Len(A) /\ Len(A) \in Nat
  <2>1. k.d \in Nat /\ k.m \in Nat /\ k.d + k.m + 2 <= Len(A)
    BY <1>3 DEF ChunkAt
  <2>2. Len(A) \in Nat
    BY <1>3, LenProperties
  <2>3. d \in Nat /\ m \in Nat /\ d + m + 2 <= Len(A) /\ d <= q
    BY <1>2, <1>4, <2>1
  <2>4. e = d + m
    BY <1>4
  <2> QED BY <2>2, <2>3, <2>4
<1>6. r.buf = Cut(A, d, q) /\ r.length = m
  BY <1>2, <1>4
<1>7. Len(r.buf) = q - d
  BY <1>3, <1>5, <1>6, CutLen
<1>8. Bytes(req, k.had) \o Cut(A, d, e) = Bytes(req, s.n)
  BY <1>3, <1>4, ChunkBody
<1>9. CASE m + 2 <= q - d
  <2>1. e + 2 <= q
    BY <1>4, <1>5, <1>9
  <2>2. PICK z, y : z = e + 2 /\ y = m + 2
    OBVIOUS
  <2>a. d + m = e
    BY <1>4
  <2>b. /\ m \in 0..(q - d) /\ y \in 0..(q - d) /\ d + y = z /\ z \in Nat /\ z <= q
    BY <1>5, <1>9, <2>1, <2>2, <2>a
  <2>3. SubSeq(Cut(A, d, q), 1, m) = Cut(A, d, d + m)
    BY <1>3, <1>5, <2>b, CutFirst
  <2>4. SubSeq(Cut(A, d, q), y + 1, q - d) = Cut(A, d + y, q)
    BY <1>3, <1>5, <2>b, CutBehind, ZenonT(60)
  <2>5. rest = Cut(A, z, q)
    BY <1>6, <1>7, <2>2, <2>b, <2>4
  <2>6. r.body \o SubSeq(r.buf, 1, r.length) = Bytes(req, s.n)
    BY <1>2, <1>6, <1>8, <2>a, <2>3
  <2>7. r2 = [r EXCEPT !.body = @ \o SubSeq(r.buf, 1, r.length), !.buf = rest,
                       !.at = CASE r.length = 0 -> "ok"
                                [] r.length > 0 /\ rest = <<>> -> "chunk"
                                [] OTHER -> "size"]
    BY <1>6, <1>7, <1>9 DEF TakeBytes
  <2>8. rest = <<>> <=> z = q
    <3>1. Cut(A, z, q) = <<>> <=> z = q
      BY <1>3, <2>b, CutLen
    <3> HIDE DEF rest
    <3> QED BY <2>5, <3>1
  <2> HIDE DEF rest
  <2>9. /\ DOMAIN r2 = RecvFields /\ r2.body = Bytes(req, s.n) /\ r2.buf = rest
        /\ r2.of = r.of /\ r2.split = r.split /\ r2.chunked = r.chunked
    BY <1>1, <2>6, <2>7 DEF RecvFields
  <2>10. r2.at = CASE m = 0 -> "ok" [] m > 0 /\ rest = <<>> -> "chunk" [] OTHER -> "size"
    BY <1>1, <1>6, <2>7 DEF RecvFields
  <2> HIDE DEF r2
  <2>11. CASE m = 0
    <3>1. q = Len(A)
      <4>1. d + 2 = Len(A)
        BY <1>3, <1>4, <2>11 DEF ChunkNext
      <4> QED BY <1>4, <1>5, <2>1, <2>11, <4>1
    <3>2. r2.at = "ok"
      BY <2>10, <2>11
    <3>3. Whole(r2, A, s, req, q)
      BY <2>9, <3>1, <3>2 DEF Whole
    <3>4. Tracks(r2, A, s, req, q)
      BY <1>1, <2>9, <3>3 DEF Tracks
    <3> QED BY <3>4 DEF r2
  <2>12. CASE m # 0
    <3>1. r2.at = IF z = q THEN "chunk" ELSE "size"
      BY <1>5, <2>8, <2>10, <2>12
    <3>2. PICK l \in Chunks(s) : l.p = z /\ l.had = s.n
      BY <1>3, <1>4, <2>2, <2>12 DEF ChunkNext
    <3>3. InSize(r2, A, s, req, q)
      BY <2>b, <2>5, <2>9, <3>1, <3>2 DEF InSize
    <3>4. Tracks(r2, A, s, req, q)
      BY <1>1, <2>9, <3>3 DEF Tracks
    <3> QED BY <3>4 DEF r2
  <2> QED BY <2>11, <2>12
<1>10. CASE ~(m + 2 <= q - d)
  <2>1. r2 = [r EXCEPT !.body = @ \o r.buf, !.left = x - Len(r.buf), !.buf = <<>>, !.at = "rest"]
    BY <1>6, <1>7, <1>10 DEF TakeBytes
  <2>2. /\ DOMAIN r2 = RecvFields /\ r2.body = r.body \o r.buf /\ r2.left = x - Len(r.buf)
        /\ r2.buf = <<>> /\ r2.at = "rest" /\ r2.length = r.length /\ r2.of = r.of
        /\ r2.split = r.split /\ r2.chunked = r.chunked
    BY <1>1, <2>1 DEF RecvFields
  <2> HIDE DEF r2
  <2>3. q < d + m + 2 /\ r2.left = d + m + 2 - q
    BY <1>5, <1>6, <1>7, <1>10, <2>2
  <2>4. InRest(r2, A, s, req, q)
    BY <1>2, <1>4, <1>6, <2>2, <2>3 DEF InRest
  <2>5. Tracks(r2, A, s, req, q)
    BY <1>1, <2>2, <2>4 DEF Tracks
  <2> QED BY <2>5 DEF r2
<1> QED BY <1>9, <1>10

\* The work between two reads keeps up with the answer, unless a line was cut in two.
LEMMA ExecuteTracks ==
    ASSUME NEW A, NEW req, NEW s \in ShapeSet, IsAnswer(A, req, s),
           NEW q \in Nat, q <= Len(A), NEW r, Tracks(r, A, s, req, q),
           r.at \notin Reading, r.at # "ok"
    PROVE  Tracks(Execute(r), A, s, req, q) \/ Execute(r).split
<1>1. r.at \in {"parse", "size", "bytes"}
  BY DEF Tracks, InHeader, InBody, InSize, InBytes, InRest, Whole, Reading
<1>2. CASE r.at = "parse"
  BY <1>2, HeaderTracks DEF Execute
<1>3. CASE r.at = "size"
  BY <1>3, SizeTracks DEF Execute
<1>4. CASE r.at = "bytes"
  BY <1>4, BytesTracks DEF Execute
<1> QED BY <1>1, <1>2, <1>3, <1>4

\* A read that times out: it ends the request but for the one in the body, which goes on
\* and wants a unit too many.
LEMMA ErrorTracks ==
    ASSUME NEW A, NEW req, NEW s \in ShapeSet, NEW q \in Nat,
           NEW r, Tracks(r, A, s, req, q), r.at = "body", Len(A) \in Nat
    PROVE  Tracks(ReadError(r), A, s, req, q)
<1> DEFINE r2 == ReadError(r)
<1>1. /\ DOMAIN r = RecvFields /\ r.split = FALSE /\ r.of = req /\ ~s.chunked /\ ~r.chunked
      /\ InBody(r, A, s, req, q)
  BY DEF Tracks, InHeader, InSize, InBytes, InRest, Whole
<1>2. r2 = [r EXCEPT !.left = @ + 1]
  BY DEF ReadError
<1>3. /\ DOMAIN r2 = RecvFields /\ r2.at = r.at /\ r2.body = r.body /\ r2.left = r.left + 1
      /\ r2.of = r.of /\ r2.split = r.split /\ r2.chunked = r.chunked
  BY <1>1, <1>2 DEF RecvFields
<1> HIDE DEF r2
<1>4. r2.left \in Nat \ {0} /\ r2.left >= Len(A) - q
  BY <1>1, <1>3 DEF InBody
<1>5. InBody(r2, A, s, req, q)
  BY <1>1, <1>3, <1>4 DEF InBody
<1>6. Tracks(r2, A, s, req, q)
  BY <1>1, <1>3, <1>5 DEF Tracks
<1> QED BY <1>6 DEF r2

(***************************************************************************)
(* Steps: the fibers and the connections that one leaves alone, and what   *)
(* is to be shown of the others.                                           *)
(***************************************************************************)
Idles(g) == /\ pc'[g] = pc[g] /\ ptr'[g] = ptr[g] /\ rx'[g] = rx[g]
            /\ result'[g] = result[g] /\ n'[g] = n[g]
Rests(c) == /\ connected'[c] = connected[c] /\ asked'[c] = asked[c] /\ wire'[c] = wire[c]
            /\ c \in dirty' <=> c \in dirty

\* A fiber that a step leaves alone, its connection too, knows what it knew.
LEMMA FiberRests ==
    ASSUME NEW g \in Fibers, FiberOK(g), Idles(g), ptr[g] # None => Rests(ptr[g]),
           ptr[g] = None => pc[g] \notin {"recv", "release"}
    PROVE  FiberOK(g)'
<1> DEFINE c == ptr[g]
<1>1. Req(g)' = Req(g)
  BY DEF Req, Idles
<1>2. ASSUME c # None
      PROVE  /\ Waiting(g)' <=> Waiting(g)
             /\ Answered(g)' <=> Answered(g)
             /\ Returned(g)' <=> Returned(g)
             /\ Silent(c)' <=> Silent(c)
             /\ Kept(c)' <=> Kept(c)
  <2>1. ptr'[g] = c /\ rx'[g] = rx[g]
    BY DEF Idles
  <2>2. asked'[c] = asked[c] /\ wire'[c] = wire[c] /\ connected'[c] = connected[c]
    BY <1>2 DEF Rests
  <2>3. c \in dirty' <=> c \in dirty
    BY <1>2 DEF Rests
  <2>4. Waiting(g)' <=> Waiting(g)
    BY <1>1, <2>1, <2>2, Zenon DEF Waiting
  <2>5. Answered(g)' <=> Answered(g)
    BY <1>1, <2>1, <2>2, Zenon DEF Answered
  <2>6. Returned(g)' <=> Returned(g)
    BY <1>1, <2>1, Zenon DEF Returned
  <2>7. (asked'[ptr'[g]] = <<>> /\ wire'[ptr'[g]] = <<>>) <=> Silent(c)
    BY <2>1, <2>2 DEF Silent
  <2> QED BY <2>1, <2>2, <2>3, <2>4, <2>5, <2>6, <2>7 DEF Silent, Kept
<1>3. CASE c = None
  BY <1>3 DEF FiberOK, Idles
<1>4. CASE c # None
  <2>1. connected'[c] = connected[c] /\ (c \in dirty' <=> c \in dirty)
    BY <1>4 DEF Rests
  <2>2. ptr'[g] = c /\ rx'[g] = rx[g] /\ pc'[g] = pc[g] /\ result'[g] = result[g]
    BY DEF Idles
  <2> QED BY <1>2, <1>4, <2>1, <2>2 DEF FiberOK
<1> QED BY <1>3, <1>4

\* What a step must show: the fibers outside G, the connections in T.
LEMMA StepKeeps ==
    ASSUME PoolInv, ExchangeInv, NEW G \in SUBSET Fibers, NEW T,
           DOMAIN rx' = Fibers, DOMAIN asked' = Conns, DOMAIN wire' = Conns,
           \A g \in G : Idles(g) /\ (ptr[g] # None => ptr[g] \notin T),
           \A c \in Conns \ T : Rests(c),
           \A g \in Fibers \ G : FiberOK(g)',
           \A c \in Conns : c \in Range(m_conns)' => Kept(c)' \/ (c \in Range(m_conns) /\ c \notin T),
           \A c \in Conns : life'[c] = "unused" => life[c] = "unused" /\ c \notin T
    PROVE  ExchangeInv'
<1>1. ASSUME NEW g \in G PROVE FiberOK(g)'
  <2>1. FiberOK(g) /\ Idles(g) /\ g \in Fibers
    BY <1>1 DEF ExchangeInv
  <2>2. ptr[g] # None => ptr[g] \in Conns \ T
    BY <1>1 DEF PoolInv, OwnerInv, TypeOK
  <2>3. ptr[g] = None => pc[g] \notin {"recv", "release"}
    BY <2>1 DEF PoolInv, OwnerInv, Phase
  <2> QED BY <2>1, <2>2, <2>3, FiberRests
<1>2. ASSUME NEW c \in Conns, c \in Range(m_conns)' PROVE Kept(c)'
  <2>1. CASE c \in Range(m_conns) /\ c \notin T
    <3>1. Kept(c) /\ Rests(c)
      BY <2>1 DEF ExchangeInv
    <3> QED BY <3>1 DEF Kept, Silent, Rests
  <2> QED BY <1>2, <2>1
<1>3. ASSUME NEW c \in Conns, life'[c] = "unused" PROVE Silent(c)'
  <2>1. Silent(c) /\ Rests(c)
    BY <1>3 DEF ExchangeInv
  <2> QED BY <2>1 DEF Silent, Rests
<1>4. \A g \in Fibers : FiberOK(g)'
  BY <1>1
<1> QED BY <1>2, <1>3, <1>4 DEF ExchangeInv

\* The connection a fiber holds is nobody else's, and was made.
LEMMA OthersHold ==
    ASSUME PoolInv, NEW f \in Fibers, NEW c \in Conns, c \in Held(f) \/ life[c] = "unused"
    PROVE  /\ c \notin Range(m_conns)
           /\ \A g \in Fibers \ {f} : ptr[g] # None => ptr[g] # c
<1> USE DEF PoolInv, OwnerInv
<1>1. c \notin Range(m_conns)
  BY DEF OneOwner
<1>2. ASSUME NEW g \in Fibers \ {f}, ptr[g] # None PROVE ptr[g] # c
  <2>1. ptr[g] \in Held(g)
    BY <1>2 DEF Held
  <2>2. c \in Held(f) => c \notin Held(g)
    BY <1>2 DEF OneOwner
  <2>3. life[ptr[g]] \in {"live", "deleted"}
    BY <1>2 DEF OneOwner, Lives
  <2> QED BY <2>1, <2>2, <2>3
<1> QED BY <1>1, <1>2

\* A fiber whose place asks nothing of the answer: it has read none, and its connection is
\* silent while it is good.
LEMMA EarlyOK ==
    ASSUME NEW f \in Fibers, rx'[f] = NewRecv, pc'[f] \notin {"recv", "release"},
           pc'[f] \in {"purge", "deduct", "send", "push"} /\ ptr'[f] # None => Kept(ptr[f])'
    PROVE  FiberOK(f)'
BY DEF FiberOK

\* A step of f that leaves every connection alone and ends where nothing is asked of the
\* answer.
LEMMA QuietExchange ==
    ASSUME PoolInv, ExchangeInv, NEW f \in Fibers,
           UNCHANGED connVars, rx'[f] = NewRecv, DOMAIN rx' = Fibers,
           \A g \in Fibers \ {f} : Idles(g), pc'[f] \notin {"recv", "release"},
           pc'[f] \in {"purge", "deduct", "send", "push"} /\ ptr'[f] # None =>
               ptr'[f] \in Conns /\ Kept(ptr'[f]),
           \A c \in Conns : c \in Range(m_conns)' => c \in Range(m_conns) \/ Kept(c)
    PROVE  ExchangeInv'
<1>1. \A c \in Conns : Rests(c)
  BY DEF Rests, connVars
<1>2. \A c \in Conns : Kept(c)' <=> Kept(c)
  BY <1>1 DEF Kept, Silent, Rests
<1>3. FiberOK(f)'
  <2>1. pc'[f] \in {"purge", "deduct", "send", "push"} /\ ptr'[f] # None => Kept(ptr[f])'
    <3> SUFFICES ASSUME pc'[f] \in {"purge", "deduct", "send", "push"}, ptr'[f] # None
                 PROVE  Kept(ptr[f])'
      OBVIOUS
    <3>1. PICK d \in Conns : d = ptr'[f] /\ Kept(d)
      OBVIOUS
    <3>2. connected'[d] /\ d \notin dirty' => asked'[d] = <<>> /\ wire'[d] = <<>>
      BY <1>1, <3>1 DEF Kept, Silent, Rests
    <3> QED BY <3>1, <3>2 DEF Kept, Silent
  <2> QED BY <2>1, EarlyOK
<1>4. DOMAIN asked' = Conns /\ DOMAIN wire' = Conns /\ life' = life
  BY DEF ExchangeInv, connVars
<1>5. PICK G, T : G \in SUBSET Fibers /\ G = Fibers \ {f} /\ T = {}
  OBVIOUS
<1>6. \A g \in G : Idles(g) /\ (ptr[g] # None => ptr[g] \notin T)
  BY <1>5
<1>7. \A g \in Fibers \ G : FiberOK(g)'
  BY <1>3, <1>5
<1>8. /\ \A c \in Conns : c \in Range(m_conns)' => Kept(c)' \/ (c \in Range(m_conns) /\ c \notin T)
      /\ \A c \in Conns : life'[c] = "unused" => life[c] = "unused" /\ c \notin T
      /\ \A c \in Conns \ T : Rests(c)
  BY <1>1, <1>2, <1>4, <1>5
<1> QED BY <1>4, <1>5, <1>6, <1>7, <1>8, StepKeeps

\* Taking a connection from the list
LEMMA GetConnectionExchange ==
    ASSUME PoolInv, ExchangeInv, NEW f \in Fibers, GetConnection(f)
    PROVE  ExchangeInv'
<1> USE DEF PoolInv, OwnerInv
<1>1. PICK k \in 1..(Len(m_conns) + 1) :
        /\ pc[f] = "idle"
        /\ m_conns' = SubSeq(m_conns, k + 1, Len(m_conns))
        /\ ptr' = [ptr EXCEPT ![f] = IF k <= Len(m_conns) THEN m_conns[k] ELSE None]
        /\ n' = [n EXCEPT ![f] = @ + 1]
        /\ \E l \in {"purge", "connect", "send"} : Goto(f, l)
        /\ UNCHANGED <<connVars, rx, timeouts, result>>
  BY DEF GetConnection
<1>2. /\ pc'[f] \in {"purge", "connect", "send"} /\ ptr'[f] = (IF k <= Len(m_conns) THEN m_conns[k] ELSE None)
      /\ \A g \in Fibers \ {f} : Idles(g)
  BY <1>1 DEF Goto, TypeOK, Idles
<1>3. ptr'[f] # None => ptr'[f] \in Conns /\ ptr'[f] \in Range(m_conns)
  <2>1. k <= Len(m_conns) => k \in 1..Len(m_conns)
    BY ListRange
  <2> QED BY <1>2, <2>1, ListRange
<1>4. rx'[f] = NewRecv
  <2>1. rx[f] = NewRecv
    BY <1>1 DEF ExchangeInv, FiberOK
  <2> QED BY <1>1, <2>1
<1>5. ASSUME NEW c \in Conns, c \in Range(m_conns)' PROVE c \in Range(m_conns)
  <2>1. m_conns \in Seq(Conns)
    BY DEF TypeOK
  <2>2. /\ m_conns' \in Seq(Conns) /\ Len(m_conns') \in Nat
        /\ \A i \in 1..Len(m_conns') : k + i \in 1..Len(m_conns) /\ m_conns'[i] = m_conns[k + i]
    BY <1>1, <2>1, RestOfList
  <2>3. PICK i \in DOMAIN m_conns' : m_conns'[i] = c
    BY <1>5 DEF Range
  <2>4. i \in 1..Len(m_conns')
    BY <2>2, <2>3, LenProperties
  <2> QED BY <2>2, <2>3, <2>4, ListRange
<1>6. ptr'[f] # None => Kept(ptr'[f])
  BY <1>3 DEF ExchangeInv
<1>7. DOMAIN rx' = Fibers /\ UNCHANGED connVars
  BY <1>1 DEF ExchangeInv
<1>8. pc'[f] \notin {"recv", "release"}
  BY <1>2
<1> QED BY <1>2, <1>3, <1>4, <1>5, <1>6, <1>7, <1>8, QuietExchange

\* Deleting the bad connections
LEMMA PurgeDeleteExchange ==
    ASSUME PoolInv, ExchangeInv, NEW f \in Fibers, PurgeDelete(f)
    PROVE  ExchangeInv'
<1> USE DEF PoolInv, OwnerInv
<1> DEFINE T == invalid[f]
<1>1. /\ pc[f] = "purge" /\ pc'[f] = "deduct"
      /\ \A c \in Conns : connected'[c] = (connected[c] /\ c \notin T)
      /\ \A c \in Conns : life'[c] = IF c \in T THEN "deleted" ELSE life[c]
      /\ UNCHANGED <<m_conns, asked, wire, dirty, ptr, n, rx, result>>
      /\ \A g \in Fibers \ {f} : Idles(g)
  BY DEF PurgeDelete, Delete, Goto, TypeOK, Idles
<1>2. \A c \in Conns \ T : Rests(c)
  BY <1>1 DEF Rests, TypeOK
<1>3. \A c \in T : c \in Conns /\ c \in Held(f)
  BY DEF Held, TypeOK
<1>4. FiberOK(f)'
  <2>1. FiberOK(f)
    BY DEF ExchangeInv
  <2>2. rx'[f] = NewRecv
    BY <1>1, <2>1 DEF FiberOK
  <2>3. ASSUME ptr'[f] # None PROVE Kept(ptr[f])'
    <3>1. Kept(ptr[f]) /\ ptr[f] \in Conns /\ ptr'[f] = ptr[f]
      BY <1>1, <2>1, <2>3 DEF FiberOK, TypeOK
    <3>2. connected'[ptr[f]] => connected[ptr[f]]
      BY <1>1, <3>1
    <3> QED BY <1>1, <3>1, <3>2 DEF Kept, Silent
  <2> QED BY <1>1, <2>2, <2>3, EarlyOK
<1>5. \A g \in Fibers \ {f} : ptr[g] # None => ptr[g] \notin T
  BY <1>3, OthersHold
<1>6. \A c \in Conns : c \in Range(m_conns)' => c \in Range(m_conns) /\ c \notin T
  BY <1>1, <1>3, OthersHold
<1>7. \A c \in Conns : life'[c] = "unused" => life[c] = "unused" /\ c \notin T
  BY <1>1
<1>8. DOMAIN rx' = Fibers /\ DOMAIN asked' = Conns /\ DOMAIN wire' = Conns
  BY <1>1 DEF ExchangeInv
<1> HIDE DEF T
<1>9. \A g \in Fibers \ (Fibers \ {f}) : FiberOK(g)'
  BY <1>4
<1>10. \A g \in Fibers \ {f} : Idles(g)
  BY <1>1
<1> QED BY <1>2, <1>5, <1>6, <1>7, <1>8, <1>9, <1>10, StepKeeps

\* The steps that end a request, and the one behind the purge
LEMMA ForgetExchange ==
    ASSUME PoolInv, ExchangeInv, NEW f \in Fibers,
           PurgeCount(f) \/ Uncount(f) \/ Push(f) \/ Failed(f)
    PROVE  ExchangeInv'
<1> USE DEF PoolInv, OwnerInv
<1>1. FiberOK(f) /\ DOMAIN rx = Fibers
  BY DEF ExchangeInv
<1>2. ptr[f] # None => ptr[f] \in Conns
  BY DEF TypeOK
<1>3. CASE PurgeCount(f)
  <2>1. /\ pc[f] = "deduct" /\ pc'[f] \in {"connect", "send"}
        /\ UNCHANGED <<m_conns, connVars, ptr, n, rx, result>>
        /\ \A g \in Fibers \ {f} : Idles(g)
    BY <1>3 DEF PurgeCount, Goto, TypeOK, Idles
  <2>2. rx'[f] = NewRecv /\ DOMAIN rx' = Fibers
    BY <1>1, <2>1 DEF FiberOK
  <2>3. ptr'[f] # None => ptr'[f] \in Conns /\ Kept(ptr'[f])
    BY <1>1, <1>2, <2>1 DEF FiberOK
  <2>4. \A c \in Conns : c \in Range(m_conns)' => c \in Range(m_conns)
    BY <2>1
  <2> QED BY <2>1, <2>2, <2>3, <2>4, QuietExchange
<1>4. CASE Uncount(f) \/ Push(f) \/ Failed(f)
  <2>1. /\ Forget(f) /\ UNCHANGED <<connVars, n>>
        /\ m_conns' = m_conns \/ (pc[f] = "push" /\ m_conns' = Append(m_conns, ptr[f]))
    BY <1>4 DEF Uncount, Push, Failed
  <2>2. /\ pc'[f] = "idle" /\ rx'[f] = NewRecv /\ DOMAIN rx' = Fibers
        /\ \A g \in Fibers \ {f} : Idles(g)
    BY <1>1, <2>1 DEF Forget, Goto, TypeOK, Idles
  <2>3. ASSUME NEW c \in Conns, c \in Range(m_conns)' PROVE c \in Range(m_conns) \/ Kept(c)
    <3>1. CASE m_conns' = m_conns
      BY <2>3, <3>1
    <3>2. CASE pc[f] = "push" /\ m_conns' = Append(m_conns, ptr[f])
      <4>1. ptr[f] \in Conns /\ Kept(ptr[f])
        BY <1>1, <1>2, <3>2 DEF Phase, FiberOK
      <4>2. m_conns \in Seq(Conns)
        BY DEF TypeOK
      <4>3. /\ Len(m_conns') = Len(m_conns) + 1 /\ m_conns'[Len(m_conns) + 1] = ptr[f]
            /\ \A i \in 1..Len(m_conns) : m_conns'[i] = m_conns[i]
            /\ DOMAIN m_conns' = 1..(Len(m_conns) + 1) /\ Len(m_conns) \in Nat
        BY <3>2, <4>1, <4>2, AppendProperties, LenProperties
      <4>4. PICK i \in DOMAIN m_conns' : m_conns'[i] = c
        BY <2>3 DEF Range
      <4>5. i = Len(m_conns) + 1 \/ i \in 1..Len(m_conns)
        BY <4>3, <4>4
      <4> QED BY <4>1, <4>3, <4>4, <4>5, ListRange
    <3> QED BY <2>1, <3>1, <3>2
  <2>4. UNCHANGED connVars
    BY <2>1
  <2> QED BY <2>2, <2>3, <2>4, QuietExchange
<1> QED BY <1>3, <1>4

\* A step of f on a connection that is its own, or new
LEMMA OwnExchange ==
    ASSUME PoolInv, ExchangeInv, NEW f \in Fibers, NEW c \in Conns,
           c \in Held(f) \/ life[c] = "unused",
           \A g \in Fibers \ {f} : Idles(g), \A d \in Conns \ {c} : Rests(d),
           DOMAIN rx' = Fibers, DOMAIN asked' = Conns, DOMAIN wire' = Conns,
           FiberOK(f)', m_conns' = m_conns,
           \A d \in Conns : life'[d] = "unused" => life[d] = "unused" /\ d # c
    PROVE  ExchangeInv'
<1>1. PICK G, T : G \in SUBSET Fibers /\ G = Fibers \ {f} /\ T = {c}
  OBVIOUS
<1>2. \A g \in G : Idles(g) /\ (ptr[g] # None => ptr[g] \notin T)
  BY <1>1, OthersHold
<1>3. \A d \in Conns : d \in Range(m_conns)' => Kept(d)' \/ (d \in Range(m_conns) /\ d \notin T)
  <2>1. c \notin Range(m_conns)
    BY OthersHold
  <2>2. Range(m_conns)' = Range(m_conns)
    BY DEF Range
  <2> QED BY <1>1, <2>1, <2>2
<1>4. \A g \in Fibers \ G : FiberOK(g)'
  BY <1>1
<1>5. /\ \A d \in Conns : life'[d] = "unused" => life[d] = "unused" /\ d \notin T
      /\ \A d \in Conns \ T : Rests(d)
  BY <1>1
<1> QED BY <1>1, <1>2, <1>3, <1>4, <1>5, StepKeeps

\* A new connection, which is as silent as it was before it was made
LEMMA OpenExchange ==
    ASSUME PoolInv, ExchangeInv, NEW f \in Fibers, NEW c \in NewConns, Open(f, c),
           pc[f] \in {"idle", "connect"}, UNCHANGED <<m_conns, rx, result>>,
           n' = n \/ n' = [n EXCEPT ![f] = @ + 1]
    PROVE  ExchangeInv'
<1> USE DEF PoolInv, OwnerInv
<1>1. c \in Conns /\ life[c] = "unused"
  BY DEF NewConns
<1>2. /\ pc'[f] = "send" /\ ptr'[f] = c /\ \A g \in Fibers \ {f} : Idles(g)
      /\ \A d \in Conns \ {c} : Rests(d)
      /\ UNCHANGED <<asked, wire, dirty>>
      /\ \A d \in Conns : life'[d] = "unused" => life[d] = "unused" /\ d # c
  BY <1>1 DEF Open, Goto, TypeOK, Idles, Rests
<1>3. FiberOK(f)'
  <2>1. rx'[f] = NewRecv
    BY DEF ExchangeInv, FiberOK
  <2>2. Silent(c)
    BY <1>1 DEF ExchangeInv
  <2>3. Kept(ptr[f])'
    BY <1>2, <2>2 DEF Silent, Kept
  <2> QED BY <1>2, <2>1, <2>3, EarlyOK
<1>4. DOMAIN rx' = Fibers /\ DOMAIN asked' = Conns /\ DOMAIN wire' = Conns
  BY <1>2 DEF ExchangeInv
<1> QED BY <1>1, <1>2, <1>3, <1>4, OwnExchange

\* Connect and DoRequest: a new connection, or none
LEMMA ConnectExchange ==
    ASSUME PoolInv, ExchangeInv, NEW f \in Fibers, Connect(f) \/ DoRequest(f)
    PROVE  ExchangeInv'
<1> USE DEF PoolInv, OwnerInv
<1>1. /\ pc[f] \in {"idle", "connect"} /\ ptr[f] = None /\ UNCHANGED <<m_conns, rx>>
      /\ n' = n \/ n' = [n EXCEPT ![f] = @ + 1]
  BY DEF Connect, DoRequest, Phase
<1>2. \/ (\E r \in Errors : Done(f, r)) /\ UNCHANGED <<connVars, ptr>>
      \/ (\E c \in NewConns : Open(f, c)) /\ UNCHANGED result
  BY DEF Connect, DoRequest, Errors
<1>3. CASE (\E c \in NewConns : Open(f, c)) /\ UNCHANGED result
  BY <1>1, <1>3, OpenExchange
<1>4. CASE (\E r \in Errors : Done(f, r)) /\ UNCHANGED <<connVars, ptr>>
  <2>1. /\ pc'[f] = "failed" /\ \A g \in Fibers \ {f} : Idles(g)
    BY <1>1, <1>4 DEF Done, Goto, TypeOK, Idles
  <2>2. rx'[f] = NewRecv /\ DOMAIN rx' = Fibers
    BY <1>1 DEF ExchangeInv, FiberOK
  <2>3. \A c \in Conns : c \in Range(m_conns)' => c \in Range(m_conns)
    BY <1>1
  <2>4. UNCHANGED connVars
    BY <1>4
  <2> QED BY <2>1, <2>2, <2>3, <2>4, QuietExchange
<1> QED BY <1>2, <1>3, <1>4

\* Sending on a silent connection
LEMMA SendExchange ==
    ASSUME PoolInv, ExchangeInv, NEW f \in Fibers, Send(f)
    PROVE  ExchangeInv'
<1> USE DEF PoolInv, OwnerInv
<1>1. PICK c : c = ptr[f]
  OBVIOUS
<1>2. pc[f] = "send" /\ c \in Conns /\ c # None /\ c \in Held(f)
  BY <1>1 DEF Send, Phase, TypeOK, Held
<1>3. /\ UNCHANGED <<m_conns, life, connected, wire, dirty, ptr, n, rx, result>>
      /\ \E l \in {"recv", "spin"} : Goto(f, l)
      /\ asked' = asked \/ asked' = [asked EXCEPT ![c] = Append(@, Req(f))]
      /\ pc'[f] = "recv" => connected[c]
  BY <1>1, <1>2 DEF Send, Goto, TypeOK
<1>4. DOMAIN asked = Conns /\ DOMAIN rx = Fibers /\ DOMAIN wire = Conns /\ FiberOK(f)
  BY DEF ExchangeInv
<1>5. /\ \A g \in Fibers \ {f} : Idles(g)
      /\ \A d \in Conns \ {c} : Rests(d)
      /\ DOMAIN asked' = Conns /\ DOMAIN rx' = Fibers /\ DOMAIN wire' = Conns
      /\ pc'[f] \in {"recv", "spin"}
  BY <1>3, <1>4 DEF Goto, TypeOK, Idles, Rests
<1>6. rx[f] = NewRecv /\ Kept(c)
  BY <1>1, <1>2, <1>4 DEF FiberOK
<1>7. \A d \in Conns : life'[d] = "unused" => life[d] = "unused" /\ d # c
  BY <1>1, <1>2, <1>3 DEF OneOwner
<1>8. FiberOK(f)'
  <2>1. rx'[f] = NewRecv /\ ptr'[f] = c
    BY <1>1, <1>3, <1>6
  <2>2. CASE pc'[f] = "spin"
    BY <2>1, <2>2, EarlyOK
  <2>3. CASE pc'[f] = "recv"
    <3>1. connected'[c] /\ NewRecv.at = "head"
      BY <1>3, <2>3 DEF NewRecv
    <3>2. CASE c \in dirty
      BY <1>3, <2>1, <2>3, <3>1, <3>2 DEF FiberOK
    <3>3. CASE c \notin dirty
      <4>1. asked[c] = <<>> /\ wire[c] = <<>>
        BY <1>3, <1>6, <2>3, <3>3 DEF Kept, Silent
      <4>2. asked'[c] \in {<<>>, <<Req(f)>>}
        BY <1>2, <1>3, <1>4, <4>1
      <4>3. Req(f)' = Req(f)
        BY <1>3 DEF Req
      <4>4. Waiting(f)'
        BY <1>3, <2>1, <4>1, <4>2, <4>3 DEF Waiting
      <4> QED BY <2>1, <2>3, <3>1, <4>4 DEF FiberOK
    <3> QED BY <3>2, <3>3
  <2> QED BY <1>5, <2>2, <2>3
<1> QED BY <1>2, <1>3, <1>5, <1>7, <1>8, OwnExchange

(***************************************************************************)
(* The answer: what a fiber makes of a read or of the parser, and what the *)
(* server sends.                                                           *)
(***************************************************************************)

\* The shapes of the answers to a fiber
LEMMA ShapesOf ==
    ASSUME NEW f \in Fibers, NEW s \in Shapes[f]
    PROVE  s \in ShapeSet
BY PoolAssumption DEF ShapeSet

\* The whole answer was read when the receiver says so.
LEMMA WholeIs ==
    ASSUME NEW A, NEW req, NEW s \in ShapeSet, IsAnswer(A, req, s), NEW q,
           NEW r, Tracks(r, A, s, req, q), r.at = "ok"
    PROVE  /\ r.of = req /\ r.body = Units(req, "data", s.n) /\ (r.chunked <=> s.chunked)
           /\ Cut(A, q, Len(A)) = <<>>
<1>1. A \in Seq(UnitsOf(req)) /\ Len(A) \in Nat
  BY AnswerSeq
<1>2. r.of = req /\ (r.chunked <=> s.chunked) /\ Whole(r, A, s, req, q)
  BY DEF Tracks, InHeader, InBody, InSize, InBytes, InRest
<1>3. q = Len(A) /\ r.body = Units(req, "data", s.n)
  BY <1>2 DEF Whole, Bytes
<1>4. Cut(A, q, Len(A)) = <<>>
  BY <1>1, <1>3, CutLen
<1> QED BY <1>2, <1>3, <1>4

\* What Follow makes of the receiver's new state
LEMMA FollowOK ==
    ASSUME PoolInv, NEW f \in Fibers, pc[f] = "recv", connected[ptr[f]],
           UNCHANGED <<ptr, n>>, Follow(f, rx'[f]),
           \/ rx'[f].at = "null" \/ rx'[f].split \/ ptr[f] \in dirty
           \/ Waiting(f)' \/ Answered(f)'
    PROVE  /\ FiberOK(f)'
           /\ \A g \in Fibers \ {f} : pc'[g] = pc[g] /\ result'[g] = result[g]
           /\ \A d \in Conns \ {ptr[f]} : connected'[d] = connected[d] /\ (d \in dirty' <=> d \in dirty)
<1> USE NoneIsNoConn DEF PoolInv, OwnerInv
<1>1. PICK c, r : c = ptr[f] /\ r = rx'[f]
  OBVIOUS
<1>2. c \in Conns /\ c # None
  BY <1>1 DEF Phase, TypeOK
<1>3. /\ connected' = [connected EXCEPT ![c] = @ /\ r.at # "null"]
      /\ dirty' = IF r.split THEN dirty \cup {c} ELSE dirty
      /\ CASE r.at = "ok"   -> Done(f, "OK")
           [] r.at = "null" -> Done(f, "TIMEOUT")
           [] OTHER         -> UNCHANGED <<pc, result>>
  BY <1>1 DEF Follow
<1>4. /\ connected'[c] <=> r.at # "null"
      /\ \A d \in Conns \ {c} : connected'[d] = connected[d] /\ (d \in dirty' <=> d \in dirty)
      /\ c \in dirty \/ r.split => c \in dirty'
  BY <1>1, <1>2, <1>3 DEF TypeOK
<1>5. CASE r.at = "ok"
  <2>1. pc' = [pc EXCEPT ![f] = "release"] /\ result' = [result EXCEPT ![f] = "OK"]
    BY <1>1, <1>2, <1>3, <1>5 DEF Done, Goto
  <2>2. pc'[f] = "release" /\ result'[f] = "OK"
    BY <2>1 DEF TypeOK
  <2>3. c \in dirty' \/ (Silent(ptr[f])' /\ Returned(f)')
    <3>1. ~Waiting(f)'
      BY <1>1, <1>5 DEF Waiting, NewRecv
    <3>2. CASE Answered(f)'
      <4>1. PICK req : req = Req(f)'
        OBVIOUS
      <4>2. PICK s \in Shapes[f] : \E q \in 0..Len(Answer(req, s)) :
              /\ asked'[ptr'[f]] = <<>>
              /\ wire'[ptr'[f]] = Cut(Answer(req, s), q, Len(Answer(req, s)))
              /\ Tracks(rx'[f], Answer(req, s), s, req, q)
        BY <3>2, <4>1 DEF Answered
      <4>3. s \in ShapeSet /\ IsAnswer(Answer(req, s), req, s)
        BY <4>2, ShapesOf, AnswerIs
      <4>4. /\ asked'[ptr'[f]] = <<>> /\ wire'[ptr'[f]] = <<>>
            /\ r.of = req /\ r.body = Units(req, "data", s.n) /\ (r.chunked <=> s.chunked)
        BY <1>1, <1>5, <4>2, <4>3, WholeIs
      <4> QED BY <1>1, <4>1, <4>2, <4>4 DEF Silent, Returned
    <3>3. r.at # "null"
      BY <1>5
    <3> QED BY <1>1, <1>4, <3>1, <3>2, <3>3
  <2>4. FiberOK(f)'
    BY <1>1, <2>2, <2>3 DEF FiberOK
  <2> QED BY <1>1, <1>4, <2>1, <2>4 DEF TypeOK
<1>6. CASE r.at = "null"
  <2>1. pc' = [pc EXCEPT ![f] = "release"] /\ result' = [result EXCEPT ![f] = "TIMEOUT"]
    BY <1>1, <1>2, <1>3, <1>6 DEF Done, Goto
  <2>2. pc'[f] = "release" /\ result'[f] = "TIMEOUT"
    BY <2>1 DEF TypeOK
  <2>3. FiberOK(f)'
    BY <1>1, <1>4, <1>6, <2>2 DEF FiberOK
  <2> QED BY <1>1, <1>4, <2>1, <2>3 DEF TypeOK
<1>7. CASE r.at \notin {"ok", "null"}
  <2>1. UNCHANGED <<pc, result>>
    BY <1>3, <1>7
  <2>2. c \in dirty' \/ Waiting(f)' \/ Answered(f)'
    BY <1>1, <1>4, <1>7
  <2>3. FiberOK(f)'
    BY <1>1, <1>4, <1>7, <2>1, <2>2 DEF FiberOK
  <2> QED BY <1>1, <1>4, <2>1, <2>3
<1> QED BY <1>5, <1>6, <1>7

\* A read wants at least one unit.
LEMMA WantsSome ==
    ASSUME NEW A, NEW req, NEW s \in ShapeSet, IsAnswer(A, req, s),
           NEW q \in Nat, q <= Len(A), NEW r, Tracks(r, A, s, req, q), r.at \in Reading
    PROVE  /\ Wanted(r, BuffSize) \in Nat \ {0}
           /\ r.at \in {"rest", "body"} => Wanted(r, BuffSize) = r.left
<1>1. A \in Seq(UnitsOf(req)) /\ Len(A) \in Nat
  BY AnswerSeq
<1>2. BuffSize \in Nat \ {0}
  BY PoolAssumption
<1>3. CASE r.at \in {"head", "chunk"}
  <2>1. PICK p : p = q /\ r.buf = Cut(A, p, q)
    BY <1>3 DEF Tracks, InHeader, InBody, InSize, InBytes, InRest, Whole
  <2>2. r.buf = <<>>
    BY <1>1, <2>1, CutLen
  <2>3. Wanted(r, BuffSize) = BuffSize - Len(r.buf)
    BY <1>3 DEF Wanted
  <2>4. Len(r.buf) = 0
    BY <2>2
  <2> QED BY <1>2, <1>3, <2>3, <2>4
<1>4. CASE r.at = "body"
  <2>1. r.left \in Nat \ {0}
    BY <1>4 DEF Tracks, InHeader, InBody, InSize, InBytes, InRest, Whole
  <2> QED BY <1>4, <2>1 DEF Wanted
<1>5. CASE r.at = "rest"
  <2>1. s.chunked /\ InRest(r, A, s, req, q)
    BY <1>5 DEF Tracks, InHeader, InBody, InSize, InBytes, Whole
  <2>2. PICK k \in Chunks(s) : q < k.d + k.m + 2 /\ r.left = k.d + k.m + 2 - q
    BY <2>1 DEF InRest
  <2>3. k.d \in Nat /\ k.m \in Nat
    BY <2>1, <2>2 DEF IsAnswer, IsChunked, ChunkAt
  <2>4. r.left \in Nat \ {0}
    BY <2>2, <2>3
  <2> QED BY <1>5, <2>4 DEF Wanted
<1> QED BY <1>3, <1>4, <1>5 DEF Reading

\* A read of k of the units w, which are what is left of the answer
ReadSome(r, A, s, req, w, k) == \E t \in 0..Len(A) :
    /\ SubSeq(w, k + 1, Len(w)) = Cut(A, t, Len(A))
    /\ Tracks(Received(r, SubSeq(w, 1, Min({k, Len(w)}))), A, s, req, t)

\* Such a read leaves a rest of the answer, and the receiver keeps up.
LEMMA ReadOf ==
    ASSUME NEW A, NEW req, NEW s \in ShapeSet, IsAnswer(A, req, s),
           NEW q \in 0..Len(A), NEW r, Tracks(r, A, s, req, q), r.at \in Reading,
           NEW w, w = Cut(A, q, Len(A)), w # <<>>, NEW k \in {1, Wanted(r, BuffSize)}
    PROVE  ReadSome(r, A, s, req, w, k)
<1>1. A \in Seq(UnitsOf(req)) /\ Len(A) \in Nat
  BY AnswerSeq
<1>2. PICK l : l = Len(A)
  OBVIOUS
<1>3. l \in Nat /\ q \in Nat /\ q <= l /\ l <= Len(A)
  BY <1>1, <1>2
<1>4. w = Cut(A, q, l) /\ Len(w) = l - q /\ q # l
  <2>1. w = Cut(A, q, l)
    BY <1>2
  <2>2. Len(Cut(A, q, l)) = l - q /\ (Cut(A, q, l) = <<>> <=> q = l)
    BY <1>1, <1>3, CutLen
  <2> QED BY <2>1, <2>2
<1>5. k \in Nat \ {0} /\ (r.at \in {"rest", "body"} => k <= r.left)
  <2>1. /\ Wanted(r, BuffSize) \in Nat \ {0}
        /\ r.at \in {"rest", "body"} => Wanted(r, BuffSize) = r.left
    BY <1>2, <1>3, WantsSome
  <2> QED BY <2>1
<1>6. PICK x : x = IF k <= l - q THEN k ELSE l - q
  OBVIOUS
<1>7. x \in Nat \ {0} /\ x <= l - q /\ x <= k
  BY <1>3, <1>4, <1>5, <1>6
<1>8. Min({k, Len(w)}) = x
  <2>1. PICK y : y = l - q
    OBVIOUS
  <2>2. y \in Nat /\ Len(w) = y
    BY <1>3, <1>4, <2>1
  <2>3. x \in {k, y} /\ \A z \in {k, y} : x <= z
    BY <1>5, <1>6, <1>7, <2>1, <2>2
  <2>4. \A v \in {k, y} : (\A z \in {k, y} : v <= z) => v = x
    BY <1>5, <2>2, <2>3
  <2> QED BY <2>2, <2>3, <2>4 DEF Min
<1>9. PICK t : t = q + x
  OBVIOUS
<1>10. t \in Nat /\ q < t /\ t <= l /\ t - q = x /\ x \in 0..(l - q)
  BY <1>3, <1>7, <1>9
<1>11. SubSeq(w, 1, x) = Cut(A, q, t)
  <2>1. SubSeq(Cut(A, q, l), 1, x) = Cut(A, q, q + x)
    BY <1>1, <1>3, <1>10, CutFirst
  <2> QED BY <1>4, <1>9, <2>1
<1>12. SubSeq(w, k + 1, Len(w)) = Cut(A, t, l)
  <2>1. CASE k <= l - q
    <3>1. SubSeq(Cut(A, q, l), x + 1, l - q) = Cut(A, q + x, l)
      BY <1>1, <1>3, <1>10, CutBehind
    <3>2. x = k
      BY <1>6, <2>1
    <3> QED BY <1>4, <1>9, <3>1, <3>2
  <2>2. CASE ~(k <= l - q)
    <3>1. t = l
      BY <1>3, <1>5, <1>6, <1>9, <2>2
    <3>2. Cut(A, t, l) = <<>>
      BY <1>1, <1>2, <1>10, <3>1, CutLen
    <3>3. w \in Seq(UnitsOf(req)) /\ Len(w) \in Nat /\ ~(k + 1 <= Len(w))
      BY <1>1, <1>2, <1>3, <1>4, <1>5, <2>2, CutSeq
    <3>4. SubSeq(w, k + 1, Len(w)) = <<>>
      BY <1>5, <3>3
    <3> QED BY <3>2, <3>4
  <2> QED BY <2>1, <2>2
<1>13. Tracks(Received(r, Cut(A, q, t)), A, s, req, t)
  <2>1. r.at \in {"rest", "body"} => t - q <= r.left
    <3>1. CASE r.at \in {"rest", "body"}
      <4>1. Wanted(r, BuffSize) = r.left /\ r.left \in Nat
        BY <1>2, <1>3, <3>1, WantsSome
      <4> QED BY <1>5, <1>7, <1>10, <3>1, <4>1
    <3> QED BY <3>1
  <2> QED BY <1>2, <1>3, <1>10, <2>1, ReceivedTracks
<1>14. /\ t \in 0..Len(A) /\ SubSeq(w, k + 1, Len(w)) = Cut(A, t, Len(A))
       /\ Tracks(Received(r, SubSeq(w, 1, Min({k, Len(w)}))), A, s, req, t)
  <2>1. t \in 0..l
    BY <1>3, <1>10
  <2>2. Received(r, SubSeq(w, 1, Min({k, Len(w)}))) = Received(r, Cut(A, q, t))
    BY <1>8, <1>11
  <2> QED BY <1>2, <1>12, <1>13, <2>1, <2>2
<1> QED BY <1>14 DEF ReadSome

\* A read: what is on the way is still the rest of the answer, and the receiver has kept up.
LEMMA RecvAnswered ==
    ASSUME PoolInv, ExchangeInv, NEW f \in Fibers, Recv(f), ptr[f] \in Conns
    PROVE  \/ rx'[f].at = "null" \/ rx'[f].split \/ ptr[f] \in dirty
           \/ Waiting(f)' \/ Answered(f)'
<1>1. PICK c, r : c = ptr[f] /\ r = rx[f]
  OBVIOUS
<1>2. /\ pc[f] = "recv" /\ r.at \in Reading /\ UNCHANGED <<ptr, n, asked>>
      /\ \/ \E k \in {1, Wanted(r, BuffSize)} :
                /\ wire[c] # <<>>
                /\ rx' = [rx EXCEPT ![f] = Received(@, SubSeq(wire[c], 1, Min({k, Len(wire[c])})))]
                /\ wire' = [wire EXCEPT ![c] = SubSeq(@, k + 1, Len(@))]
         \/ wire[c] = <<>> /\ rx' = [rx EXCEPT ![f] = ReadZero(@)] /\ UNCHANGED wire
         \/ wire[c] = <<>> /\ rx' = [rx EXCEPT ![f] = ReadError(@)] /\ UNCHANGED wire
  BY <1>1 DEF Recv
<1>3. FiberOK(f) /\ DOMAIN rx = Fibers /\ DOMAIN wire = Conns
  BY DEF ExchangeInv
<1>4. c \in dirty \/ Waiting(f) \/ Answered(f)
  BY <1>1, <1>2, <1>3 DEF FiberOK
<1>5. PICK req : req = Req(f)
  OBVIOUS
<1>6. Req(f)' = req /\ ptr'[f] = c /\ asked' = asked
  BY <1>1, <1>2, <1>5 DEF Req
<1>7. CASE wire[c] = <<>> /\ rx' = [rx EXCEPT ![f] = ReadZero(@)] /\ DOMAIN r = RecvFields
  <2>1. rx'[f] = ReadZero(r)
    BY <1>1, <1>3, <1>7
  <2> QED BY <1>7, <2>1 DEF ReadZero, RecvFields
<1>8. CASE Waiting(f)
  <2>1. r = NewRecv /\ wire[c] = <<>>
    BY <1>1, <1>8 DEF Waiting
  <2>2. rx'[f] = ReadZero(r) \/ rx'[f] = ReadError(r)
    BY <1>1, <1>2, <1>3, <2>1
  <2>3. ReadZero(NewRecv).at = "null" /\ ReadError(NewRecv).at = "null"
    BY DEF ReadZero, ReadError, NewRecv
  <2> QED BY <2>1, <2>2, <2>3
<1>9. CASE Answered(f)
  <2>1. PICK s \in Shapes[f] : \E q \in 0..Len(Answer(req, s)) :
              /\ asked[c] = <<>>
              /\ wire[c] = Cut(Answer(req, s), q, Len(Answer(req, s)))
              /\ Tracks(r, Answer(req, s), s, req, q)
    BY <1>1, <1>5, <1>9 DEF Answered
  <2>2. PICK A : A = Answer(req, s)
    OBVIOUS
  <2>3. s \in ShapeSet /\ IsAnswer(A, req, s)
    BY <2>1, <2>2, ShapesOf, AnswerIs
  <2>4. PICK q \in 0..Len(A) : /\ asked[c] = <<>> /\ wire[c] = Cut(A, q, Len(A))
                               /\ Tracks(r, A, s, req, q)
    BY <2>1, <2>2
  <2>5. Len(A) \in Nat /\ q \in Nat /\ DOMAIN r = RecvFields
    BY <2>3, <2>4, AnswerSeq DEF Tracks
  \* It is enough to find how far the answer is read now.
  <2>6. ASSUME NEW t \in 0..Len(A), wire'[c] = Cut(A, t, Len(A)),
               Tracks(rx'[f], A, s, req, t)
        PROVE  Answered(f)'
    <3>1. asked'[ptr'[f]] = <<>> /\ wire'[ptr'[f]] = Cut(A, t, Len(A))
      BY <1>6, <2>4, <2>6
    <3> QED BY <1>6, <2>1, <2>2, <2>6, <3>1 DEF Answered
  <2>7. CASE \E k \in {1, Wanted(r, BuffSize)} :
                /\ wire[c] # <<>>
                /\ rx' = [rx EXCEPT ![f] = Received(@, SubSeq(wire[c], 1, Min({k, Len(wire[c])})))]
                /\ wire' = [wire EXCEPT ![c] = SubSeq(@, k + 1, Len(@))]
    <3>1. PICK k \in {1, Wanted(r, BuffSize)} :
            /\ wire[c] # <<>>
            /\ rx'[f] = Received(r, SubSeq(wire[c], 1, Min({k, Len(wire[c])})))
            /\ wire'[c] = SubSeq(wire[c], k + 1, Len(wire[c]))
      BY <1>1, <1>3, <2>7
    <3>2. PICK t \in 0..Len(A) :
            /\ SubSeq(wire[c], k + 1, Len(wire[c])) = Cut(A, t, Len(A))
            /\ Tracks(Received(r, SubSeq(wire[c], 1, Min({k, Len(wire[c])}))), A, s, req, t)
      <4>1. PICK w : w = wire[c]
        OBVIOUS
      <4>2. w = Cut(A, q, Len(A)) /\ w # <<>> /\ k \in {1, Wanted(r, BuffSize)}
        BY <2>4, <3>1, <4>1
      <4>a. r.at \in Reading
        BY <1>2
      <4>b. q \in 0..Len(A) /\ Tracks(r, A, s, req, q)
        BY <2>4
      <4>3. ReadSome(r, A, s, req, w, k)
        BY <2>3, <4>2, <4>a, <4>b, ReadOf
      <4> QED BY <4>1, <4>3 DEF ReadSome
    <3>3. wire'[c] = Cut(A, t, Len(A)) /\ Tracks(rx'[f], A, s, req, t)
      BY <3>1, <3>2
    <3> QED BY <2>6, <3>3
  <2>8. CASE wire[c] = <<>> /\ rx' = [rx EXCEPT ![f] = ReadError(@)] /\ UNCHANGED wire
    <3>1. rx'[f] = ReadError(r) /\ wire'[c] = wire[c]
      BY <1>1, <1>3, <2>8
    <3>2. CASE r.at = "body"
      <4>1. Tracks(ReadError(r), A, s, req, q)
        BY <2>3, <2>4, <2>5, <3>2, ErrorTracks
      <4>2. wire'[c] = Cut(A, q, Len(A)) /\ Tracks(rx'[f], A, s, req, q)
        BY <2>4, <3>1, <4>1
      <4> QED BY <2>4, <2>6, <4>2
    <3>3. CASE r.at # "body"
      BY <2>5, <3>1, <3>3 DEF ReadError, RecvFields
    <3> QED BY <3>2, <3>3
  <2> QED BY <1>2, <1>7, <2>5, <2>7, <2>8
<1> QED BY <1>1, <1>4, <1>8, <1>9

\* The work between two reads
LEMMA ParseAnswered ==
    ASSUME PoolInv, ExchangeInv, NEW f \in Fibers, Parse(f)
    PROVE  \/ rx'[f].at = "null" \/ rx'[f].split \/ ptr[f] \in dirty
           \/ Waiting(f)' \/ Answered(f)'
<1>1. PICK c, r, req : c = ptr[f] /\ r = rx[f] /\ req = Req(f)
  OBVIOUS
<1>2. /\ pc[f] = "recv" /\ r.at \notin Reading /\ UNCHANGED <<ptr, n, asked, wire>>
      /\ rx' = [rx EXCEPT ![f] = Execute(@)]
  BY <1>1 DEF Parse
<1>3. FiberOK(f) /\ DOMAIN rx = Fibers
  BY DEF ExchangeInv
<1>4. c \in dirty \/ Waiting(f) \/ Answered(f)
  BY <1>1, <1>2, <1>3 DEF FiberOK
<1>5. ~Waiting(f) /\ r.at # "ok"
  BY <1>1, <1>2, <1>3 DEF Waiting, NewRecv, Reading, FiberOK
<1>6. rx'[f] = Execute(r) /\ Req(f)' = req /\ ptr'[f] = c
  BY <1>1, <1>2, <1>3 DEF Req
<1>7. CASE Answered(f)
  <2>1. PICK s \in Shapes[f] : \E q \in 0..Len(Answer(req, s)) :
              /\ asked[c] = <<>>
              /\ wire[c] = Cut(Answer(req, s), q, Len(Answer(req, s)))
              /\ Tracks(r, Answer(req, s), s, req, q)
    BY <1>1, <1>7 DEF Answered
  <2>2. PICK A : A = Answer(req, s)
    OBVIOUS
  <2>3. s \in ShapeSet /\ IsAnswer(A, req, s)
    BY <2>1, <2>2, ShapesOf, AnswerIs
  <2>4. PICK q \in 0..Len(A) : /\ asked[c] = <<>> /\ wire[c] = Cut(A, q, Len(A))
                               /\ Tracks(r, A, s, req, q)
    BY <2>1, <2>2
  <2>5. q \in Nat /\ q <= Len(A)
    BY <2>3, <2>4, AnswerSeq
  <2>6. Tracks(Execute(r), A, s, req, q) \/ Execute(r).split
    BY <1>2, <1>5, <2>3, <2>4, <2>5, ExecuteTracks
  <2>7. asked'[ptr'[f]] = <<>> /\ wire'[ptr'[f]] = Cut(A, q, Len(A))
    BY <1>2, <1>6, <2>4
  <2>8. CASE Tracks(rx'[f], A, s, req, q)
    BY <1>6, <2>1, <2>2, <2>4, <2>7, <2>8 DEF Answered
  <2> QED BY <1>6, <2>6, <2>8
<1> QED BY <1>1, <1>4, <1>5, <1>7

\* Both, for the whole state
LEMMA ReceiveExchange ==
    ASSUME PoolInv, ExchangeInv, NEW f \in Fibers, Recv(f) \/ Parse(f)
    PROVE  ExchangeInv'
<1> USE NoneIsNoConn DEF PoolInv, OwnerInv
<1>1. /\ pc[f] = "recv" /\ UNCHANGED <<m_conns, life, ptr, n, asked>> /\ Follow(f, rx'[f])
      /\ \E r : rx' = [rx EXCEPT ![f] = r]
      /\ wire' = wire \/ \E w : wire' = [wire EXCEPT ![ptr[f]] = w]
  BY DEF Recv, Parse
<1>2. ptr[f] \in Conns /\ ptr[f] \in Held(f) /\ life[ptr[f]] = "live"
  BY <1>1 DEF Phase, TypeOK, Held, OneOwner
<1>3. connected[ptr[f]] /\ DOMAIN rx = Fibers /\ DOMAIN wire = Conns /\ DOMAIN asked = Conns
  BY <1>1 DEF ExchangeInv, FiberOK
<1>4. \/ rx'[f].at = "null" \/ rx'[f].split \/ ptr[f] \in dirty
      \/ Waiting(f)' \/ Answered(f)'
  BY <1>2, RecvAnswered, ParseAnswered
<1>5. /\ FiberOK(f)'
      /\ \A g \in Fibers \ {f} : pc'[g] = pc[g] /\ result'[g] = result[g]
      /\ \A d \in Conns \ {ptr[f]} : connected'[d] = connected[d] /\ (d \in dirty' <=> d \in dirty)
  BY <1>1, <1>3, <1>4, FollowOK
<1>6. /\ DOMAIN rx' = Fibers /\ DOMAIN asked' = Conns /\ DOMAIN wire' = Conns
      /\ \A g \in Fibers \ {f} : rx'[g] = rx[g] /\ ptr'[g] = ptr[g] /\ n'[g] = n[g]
      /\ \A d \in Conns \ {ptr[f]} : wire'[d] = wire[d] /\ asked'[d] = asked[d]
  BY <1>1, <1>3
<1>7. /\ \A g \in Fibers \ {f} : Idles(g)
      /\ \A d \in Conns \ {ptr[f]} : Rests(d)
  BY <1>5, <1>6 DEF Idles, Rests
<1>8. \A d \in Conns : life'[d] = "unused" => life[d] = "unused" /\ d # ptr[f]
  BY <1>1, <1>2
<1> QED BY <1>1, <1>2, <1>5, <1>6, <1>7, <1>8, OwnExchange

\* A connection is let go: one whose request failed is closed and deleted.
LEMMA ReleaseExchange ==
    ASSUME PoolInv, ExchangeInv, NEW f \in Fibers, Release(f)
    PROVE  ExchangeInv'
<1> USE NoneIsNoConn DEF PoolInv, OwnerInv
<1>1. PICK c : c = ptr[f]
  OBVIOUS
<1>2. /\ pc[f] = "release" /\ UNCHANGED <<m_conns, asked, wire, dirty, ptr, n, rx, result>>
      /\ \/ connected[c] /\ Goto(f, "push") /\ UNCHANGED <<life, connected>>
         \/ Delete({c}) /\ Goto(f, "uncount")
  BY <1>1 DEF Release
<1>3. c \in Conns /\ c # None /\ c \in Held(f) /\ life[c] = "live"
  BY <1>1, <1>2 DEF Phase, TypeOK, Held, OneOwner
<1>4. DOMAIN asked = Conns /\ DOMAIN rx = Fibers /\ DOMAIN wire = Conns /\ FiberOK(f)
  BY DEF ExchangeInv
<1>5. /\ \A g \in Fibers \ {f} : Idles(g)
      /\ \A d \in Conns \ {c} : Rests(d)
      /\ DOMAIN asked' = Conns /\ DOMAIN rx' = Fibers /\ DOMAIN wire' = Conns
      /\ \A d \in Conns : life'[d] = "unused" => life[d] = "unused" /\ d # c
  <2>1. \A g \in Fibers \ {f} : Idles(g)
    BY <1>2 DEF Goto, TypeOK, Idles
  <2>2. /\ \A d \in Conns \ {c} : connected'[d] = connected[d] /\ life'[d] = life[d]
        /\ life'[c] # "unused"
    BY <1>2, <1>3 DEF Delete, TypeOK
  <2>3. \A d \in Conns \ {c} : Rests(d)
    BY <1>2, <2>2 DEF Rests
  <2> QED BY <1>2, <1>3, <1>4, <2>1, <2>2, <2>3
<1>6. FiberOK(f)'
  <2>1. CASE connected[c] /\ Goto(f, "push") /\ UNCHANGED <<life, connected>>
    <3>1. c \in dirty \/ Silent(c)
      BY <1>1, <1>2, <1>4, <2>1 DEF FiberOK
    <3>2. pc'[f] = "push" /\ ptr'[f] = c
      BY <1>1, <1>2, <2>1 DEF Goto, TypeOK
    <3>3. c \in dirty' \/ (asked'[c] = <<>> /\ wire'[c] = <<>>)
      BY <1>2, <3>1 DEF Silent
    <3> QED BY <3>2, <3>3 DEF FiberOK, Kept, Silent
  <2>2. CASE Goto(f, "uncount")
    <3>1. pc'[f] = "uncount"
      BY <2>2 DEF Goto, TypeOK
    <3> QED BY <3>1 DEF FiberOK
  <2> QED BY <1>2, <2>1, <2>2
<1> QED BY <1>2, <1>3, <1>5, <1>6, OwnExchange

\* The receiver before the answer
LEMMA NewTracks ==
    ASSUME NEW A, NEW req, NEW s \in ShapeSet, IsAnswer(A, req, s)
    PROVE  Tracks(NewRecv, A, s, req, 0) /\ A = Cut(A, 0, Len(A))
<1>1. A \in Seq(UnitsOf(req)) /\ Len(A) \in Nat
  BY AnswerSeq
<1>2. Cut(A, 0, 0) = <<>>
  BY <1>1, CutLen
<1>3. A = Cut(A, 0, Len(A))
  BY <1>1, SubSeqFull DEF Cut
<1>4. /\ NewRecv.at = "head" /\ NewRecv.buf = <<>> /\ NewRecv.body = <<>> /\ NewRecv.length = 0
      /\ NewRecv.chunked = FALSE /\ NewRecv.of = <<>> /\ NewRecv.split = FALSE
      /\ DOMAIN NewRecv = RecvFields
  BY DEF NewRecv, RecvFields
<1>5. 0 \in (IF s.chunked THEN {0, 1} ELSE {0, 2}) /\ 0 < EndAt(s)
  BY DEF EndAt
<1>6. InHeader(NewRecv, A, s, req, 0)
  BY <1>2, <1>4, <1>5 DEF InHeader
<1> QED BY <1>3, <1>4, <1>6 DEF Tracks

\* The server answers the request it was sent.
LEMMA ServerAnswerExchange ==
    ASSUME PoolInv, ExchangeInv, NEW c \in Conns, ServerAnswer(c)
    PROVE  ExchangeInv'
<1> USE NoneIsNoConn DEF PoolInv, OwnerInv
<1>1. /\ asked[c] # <<>>
      /\ \E s \in Shapes[Head(asked[c])[1]] :
            wire' = [wire EXCEPT ![c] = @ \o Answer(Head(asked[c]), s)]
      /\ asked' = [asked EXCEPT ![c] = Tail(@)]
      /\ UNCHANGED <<m_conns, life, connected, dirty, pc, ptr, rx, n, result>>
  BY DEF ServerAnswer, fiberVars
<1>2. DOMAIN asked = Conns /\ DOMAIN rx = Fibers /\ DOMAIN wire = Conns
  BY DEF ExchangeInv
<1>3. /\ DOMAIN asked' = Conns /\ DOMAIN rx' = Fibers /\ DOMAIN wire' = Conns
      /\ \A g \in Fibers : Idles(g)
      /\ \A d \in Conns \ {c} : Rests(d)
  BY <1>1, <1>2 DEF Idles, Rests
<1>4. ~Silent(c) /\ life[c] # "unused"
  BY <1>1 DEF Silent, ExchangeInv
<1>5. ASSUME Kept(c) PROVE Kept(c)'
  BY <1>1, <1>4, <1>5 DEF Kept
<1>6. ASSUME NEW g \in Fibers, ptr[g] = c PROVE FiberOK(g)'
  <2>1. FiberOK(g) /\ c # None
    BY DEF ExchangeInv
  <2>2. ptr'[g] = c /\ rx'[g] = rx[g] /\ pc'[g] = pc[g] /\ result'[g] = result[g]
    BY <1>1, <1>6
  <2>3. CASE pc[g] = "recv" /\ c \notin dirty
    <3>1. ~Answered(g)
      BY <1>1, <1>6 DEF Answered
    <3>2. Waiting(g)
      BY <1>6, <2>1, <2>3, <3>1 DEF FiberOK
    <3>3. PICK req : req = Req(g)
      OBVIOUS
    <3>4. asked[c] = <<req>> /\ wire[c] = <<>> /\ rx[g] = NewRecv /\ req[1] = g
      BY <1>1, <1>6, <3>2, <3>3 DEF Waiting, Req
    <3>5. Head(asked[c]) = req /\ Tail(asked[c]) = <<>>
      BY <3>4
    <3>6. PICK s \in Shapes[g] : wire'[c] = wire[c] \o Answer(req, s)
      BY <1>1, <1>2, <3>4, <3>5
    <3>7. PICK A : A = Answer(req, s)
      OBVIOUS
    <3>8. s \in ShapeSet /\ IsAnswer(A, req, s)
      BY <3>6, <3>7, ShapesOf, AnswerIs
    <3>9. A \in Seq(UnitsOf(req)) /\ Len(A) \in Nat /\ 0 \in 0..Len(A)
      BY <3>8, AnswerSeq
    <3>10. wire'[c] = A /\ asked'[c] = <<>>
      <4>1. <<>> \o A = A
        BY <3>9, ConcatEmptySeq
      <4> QED BY <1>1, <1>2, <3>4, <3>5, <3>6, <3>7, <4>1
    <3>11. Tracks(NewRecv, A, s, req, 0) /\ A = Cut(A, 0, Len(A))
      BY <3>8, NewTracks
    <3>12. Req(g)' = req
      BY <1>1, <3>3 DEF Req
    <3>13. /\ asked'[ptr'[g]] = <<>> /\ wire'[ptr'[g]] = Cut(A, 0, Len(A))
           /\ Tracks(rx'[g], A, s, req, 0)
      BY <2>2, <3>4, <3>10, <3>11
    <3>14. Answered(g)'
      BY <3>6, <3>7, <3>9, <3>12, <3>13 DEF Answered
    <3>15. connected'[c] /\ rx'[g].at \notin {"ok", "null"}
      BY <1>1, <1>6, <2>1, <2>2, <2>3 DEF FiberOK
    <3> QED BY <2>2, <2>3, <3>14, <3>15 DEF FiberOK
  <2>4. CASE ~(pc[g] = "recv" /\ c \notin dirty)
    <3>1. pc[g] \in {"purge", "deduct", "send", "push"} => Kept(c)'
      BY <1>5, <1>6, <2>1 DEF FiberOK
    <3>2. pc[g] \in {"purge", "deduct", "send", "push"} => Kept(ptr[g])'
      BY <2>2, <3>1 DEF Kept, Silent
    <3> QED BY <1>1, <1>4, <1>6, <2>1, <2>2, <2>4, <3>2 DEF FiberOK
  <2> QED BY <2>3, <2>4
<1>7. PICK G, T : G \in SUBSET Fibers /\ G = {g \in Fibers : ptr[g] # c} /\ T = {c}
  OBVIOUS
<1>8. \A g \in G : Idles(g) /\ (ptr[g] # None => ptr[g] \notin T)
  BY <1>3, <1>7
<1>9. \A g \in Fibers \ G : FiberOK(g)'
  BY <1>6, <1>7
<1>10. \A d \in Conns : d \in Range(m_conns)' => Kept(d)' \/ (d \in Range(m_conns) /\ d \notin T)
  <2>1. c \in Range(m_conns) => Kept(c)'
    BY <1>5 DEF ExchangeInv
  <2>2. Range(m_conns)' = Range(m_conns)
    BY <1>1 DEF Range
  <2> QED BY <1>7, <2>1, <2>2
<1>11. /\ \A d \in Conns : life'[d] = "unused" => life[d] = "unused" /\ d \notin T
       /\ \A d \in Conns \ T : Rests(d)
  BY <1>1, <1>3, <1>4, <1>7
<1> QED BY <1>3, <1>7, <1>8, <1>9, <1>10, <1>11, StepKeeps

\* The server, or an owner of the socket, closes a connection.
LEMMA CloseExchange ==
    ASSUME PoolInv, ExchangeInv, NEW c \in Conns, ServerClose(c) \/ SocketClose(c)
    PROVE  ExchangeInv'
<1> USE NoneIsNoConn DEF PoolInv, OwnerInv
<1>1. /\ UNCHANGED <<m_conns, life, asked, wire, dirty, pc, ptr, rx, n, result>>
      /\ \/ UNCHANGED connected
         \/ c \in Range(m_conns) /\ connected' = [connected EXCEPT ![c] = FALSE]
  BY DEF ServerClose, SocketClose, fiberVars
<1>2. PICK T : T = IF connected' = connected THEN {} ELSE {c}
  OBVIOUS
<1>3. /\ DOMAIN asked' = Conns /\ DOMAIN rx' = Fibers /\ DOMAIN wire' = Conns
      /\ \A g \in Fibers : Idles(g)
      /\ \A d \in Conns \ T : Rests(d)
  BY <1>1, <1>2 DEF Idles, Rests, ExchangeInv, TypeOK
<1>4. \A g \in Fibers : ptr[g] # None => ptr[g] \notin T
  <2>1. \A g \in Fibers : ptr[g] # None => ptr[g] \notin Range(m_conns)
    BY DEF OneOwner, Held
  <2> QED BY <1>1, <1>2, <2>1
<1>5. \A d \in Conns : d \in Range(m_conns)' => Kept(d)' \/ (d \in Range(m_conns) /\ d \notin T)
  <2>1. Range(m_conns)' = Range(m_conns)
    BY <1>1 DEF Range
  <2>2. ASSUME NEW d \in Conns, d \in T PROVE Kept(d)'
    BY <1>1, <1>2, <2>2 DEF Kept, TypeOK
  <2> QED BY <2>1, <2>2
<1>6. \A d \in Conns : life'[d] = "unused" => life[d] = "unused" /\ d \notin T
  BY <1>1, <1>2 DEF OneOwner
<1>7. \A g \in Fibers : Idles(g) /\ (ptr[g] # None => ptr[g] \notin T)
  BY <1>3, <1>4
<1>8. \A g \in Fibers \ Fibers : FiberOK(g)'
  OBVIOUS
<1> QED BY <1>3, <1>5, <1>6, <1>7, <1>8, StepKeeps

\* Every step keeps the invariant of the exchange.
LEMMA ExchangeKept ==
    ASSUME PoolInv, ExchangeInv, [Next]_vars
    PROVE  ExchangeInv'
<1>1. ASSUME NEW f \in Fibers, GetConnection(f) \/ DoRequest(f) \/ Step(f)
      PROVE  ExchangeInv'
  BY <1>1, GetConnectionExchange, ConnectExchange, PurgeDeleteExchange, ForgetExchange,
     SendExchange, ReceiveExchange, ReleaseExchange DEF Step
<1>2. ASSUME NEW c \in Conns, ServerAnswer(c) \/ ServerClose(c) \/ SocketClose(c)
      PROVE  ExchangeInv'
  BY <1>2, ServerAnswerExchange, CloseExchange
<1>3. CASE UNCHANGED vars
  <2>1. /\ UNCHANGED <<m_conns, life, asked, wire, dirty, pc, ptr, rx, n, result, connected>>
    BY <1>3 DEF vars, connVars, fiberVars
  <2>a. PICK T : T = {}
    OBVIOUS
  <2>2. /\ DOMAIN asked' = Conns /\ DOMAIN rx' = Fibers /\ DOMAIN wire' = Conns
        /\ \A g \in Fibers : Idles(g) /\ (ptr[g] # None => ptr[g] \notin T)
        /\ \A d \in Conns \ T : Rests(d)
    BY <2>1, <2>a DEF Idles, Rests, ExchangeInv
  <2>3. /\ \A d \in Conns : d \in Range(m_conns)' => Kept(d)' \/ (d \in Range(m_conns) /\ d \notin T)
        /\ \A d \in Conns : life'[d] = "unused" => life[d] = "unused" /\ d \notin T
        /\ \A g \in Fibers \ Fibers : FiberOK(g)'
    BY <2>1, <2>a
  <2> QED BY <2>2, <2>3, StepKeeps
<1> QED BY <1>1, <1>2, <1>3 DEF Next

\* At the start nothing was sent.
LEMMA ExchangeStart ==
    ASSUME Init
    PROVE  ExchangeInv
<1>1. \A c \in Conns : Silent(c)
  BY DEF Init, Silent
<1>2. \A f \in Fibers : FiberOK(f)
  BY DEF Init, FiberOK
<1>3. DOMAIN rx = Fibers /\ DOMAIN asked = Conns /\ DOMAIN wire = Conns
  BY DEF Init
<1>4. \A c \in Conns : c \notin Range(m_conns)
  BY DEF Init, Range
<1> QED BY <1>1, <1>2, <1>3, <1>4 DEF ExchangeInv

\* No answer waits for the next request: whatever ends a request, a connection that the
\* pool keeps and that is still good is silent in both directions, unless a line of a
\* header was cut in two on it.
THEOREM PoolIdleClean == Spec => []IdleClean
<1>1. PoolInv /\ ExchangeInv => IdleClean
  <2> SUFFICES ASSUME PoolInv, ExchangeInv, NEW c \in Range(m_conns), connected[c], c \notin dirty
               PROVE  asked[c] = <<>> /\ wire[c] = <<>>
    BY DEF IdleClean
  <2>1. c \in Conns
    BY ListRange DEF PoolInv, OwnerInv
  <2> QED BY <2>1 DEF ExchangeInv, Kept, Silent
<1>2. PoolInv /\ ExchangeInv /\ [Next]_vars => ExchangeInv'
  BY ExchangeKept
<1>3. Init => ExchangeInv
  BY ExchangeStart
<1> QED BY <1>1, <1>2, <1>3, PoolStart, PoolStep, PTL DEF Spec

\* For every buffer size, every split of the answer into reads and every size of the
\* body: a response that is returned is the answer to its request, and all of its body
\* was received and nothing else. The response carries that body when it came in chunks;
\* when its length was given the body is discarded (http_connection.cpp:232) and the
\* response has none. Excepted are connections on which a line of a header was cut in two.
THEOREM PoolAnswerMatches == Spec => []AnswerMatches
<1>1. PoolInv /\ ExchangeInv => AnswerMatches
  <2> SUFFICES ASSUME ExchangeInv, NEW f \in Fibers, pc[f] = "release", result[f] = "OK",
                      ptr[f] \notin dirty
               PROVE  \E s \in Shapes[f] :
                        LET body == Units(Req(f), "data", s.n)
                        IN  /\ rx[f].body = body
                            /\ Response(rx[f]) = [of   |-> Req(f),
                                                  body |-> IF s.chunked THEN body ELSE <<>>]
    BY DEF AnswerMatches
  <2>1. Returned(f)
    BY DEF ExchangeInv, FiberOK
  <2>2. PICK s \in Shapes[f] : /\ rx[f].body = Units(Req(f), "data", s.n)
                               /\ rx[f].chunked <=> s.chunked
    BY <2>1 DEF Returned
  <2>3. rx[f].of = Req(f)
    BY <2>1 DEF Returned
  <2> QED BY <2>2, <2>3 DEF Response
<1>2. PoolInv /\ ExchangeInv /\ [Next]_vars => ExchangeInv'
  BY ExchangeKept
<1>3. Init => ExchangeInv
  BY ExchangeStart
<1> QED BY <1>1, <1>2, <1>3, PoolStart, PoolStep, PTL DEF Spec
=============================================================================
