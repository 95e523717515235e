---------------------------- MODULE ConfigProofs ----------------------------
(***************************************************************************)
(* Theorems about Config, for every set of threads, variables, files and   *)
(* loggers, every value and every number of calls and edits.               *)
(***************************************************************************)
EXTENDS Config, SequenceTheorems, TLAPS

(***************************************************************************)
(* The shape of a thread's record, whatever values it holds                *)
(***************************************************************************)
Fields == {"at", "name", "new", "todo", "work", "load", "members", "files", "st", "fresh", "level"}
IsRec(x) == DOMAIN x = Fields /\ x = [k \in Fields |-> x[k]]
ThOK == th = [t \in Threads |-> th[t]] /\ \A t \in Threads : IsRec(th[t])

\* A thread at rest is a record of a thread.
LEMMA IdleRec == IsRec(Idle) /\ Idle.at = "idle" /\ Idle.files = <<>> /\ Idle.fresh = {}
                 /\ Idle.load = FALSE /\ Idle.work = {} /\ Idle.todo = {}
  BY DEF IsRec, Idle, Fields

\* Where a thread goes on after a call, and what it keeps.
LEMMA ResumeRec ==
  ASSUME NEW x, IsRec(x)
  PROVE  /\ IsRec(Resume(x))
         /\ Resume(x).at = After(x)
         /\ After(x) \in {"members", "stat", "loaded", "idle"}
         /\ After(x) = "stat" => x.files # <<>>
         /\ After(x) \in {"loaded", "idle"} => x.files = <<>>
         /\ After(x) = "idle" => ~x.load
         /\ Resume(x).todo = x.todo /\ Resume(x).work = x.work
         /\ Resume(x).load = x.load /\ Resume(x).members = x.members /\ Resume(x).files = x.files
         /\ Resume(x).st = x.st /\ Resume(x).fresh = x.fresh /\ Resume(x).level = x.level
  BY DEF IsRec, Resume, After, Fields

\* A step of one thread leaves the others where they are.
LEMMA GotoThread ==
  ASSUME ThOK, NEW t \in Threads, NEW x, IsRec(x), Goto(t, x)
  PROVE  /\ ThOK' /\ th'[t] = x
         /\ \A s \in Threads \ {t} : th'[s] = th[s]
  <1>1. th' = [th EXCEPT ![t] = x]
    BY DEF Goto
  <1>2. DOMAIN th = Threads
    BY DEF ThOK
  <1>3. th' = [s \in Threads |-> IF s = t THEN x ELSE th[s]]
    BY <1>1, <1>2
  <1> QED
    BY <1>3 DEF ThOK

(***************************************************************************)
(* setValue and its listeners                                              *)
(***************************************************************************)
Busy == {"notify", "write"}

VarsOK ==
    /\ datas \subseteq VarNames
    /\ m_val = [n \in VarNames |-> m_val[n]]
    /\ m_cbs \in [VarNames -> SUBSET (1..MaxListeners)]
    /\ s_fun_id \in [VarNames -> 0..MaxListeners]
    /\ told = [n \in VarNames |-> told[n]]
    /\ \A n \in VarNames : told[n] = [i \in 1..MaxListeners |-> told[n][i]]
    /\ raced \in [VarNames -> BOOLEAN]

\* The read lock of a variable is held by the threads that are telling its listeners.
LockOK ==
    /\ readers = [n \in VarNames |-> readers[n]]
    /\ \A n \in VarNames : readers[n] = {t \in Threads : th[t].at = "notify" /\ th[t].name = n}

\* The listeners a thread has still to tell are listeners, and it stores when none is left.
SetterOK ==
    \A t \in Threads : th[t].at \in Busy =>
        /\ th[t].name \in VarNames
        /\ th[t].todo \subseteq m_cbs[th[t].name]
        /\ th[t].at = "write" => th[t].todo = {}

\* Unless two setValue overlapped there is one setter at most, and the listeners it has
\* passed know the new value, the others the old one.
Told(n) ==
    /\ Setting(n) = {} => \A i \in m_cbs[n] : told[n][i] = m_val[n]
    /\ \A s, t \in Setting(n) : s = t
    /\ \A t \in Setting(n) : \A i \in m_cbs[n] :
        told[n][i] = IF i \in th[t].todo THEN m_val[n] ELSE th[t].new
ToldOK == \A n \in VarNames : ~raced[n] => Told(n)

KnowInv == ThOK /\ VarsOK /\ LockOK /\ SetterOK /\ ToldOK

\* At the start no variable has a listener.
LEMMA KnowInit == Init => KnowInv
  <1> SUFFICES ASSUME Init PROVE KnowInv
    OBVIOUS
  <1>1. \A t \in Threads : th[t] = Idle
    BY DEF Init
  <1>2. ThOK
    BY <1>1, IdleRec DEF Init, ThOK
  <1>3. VarsOK
    BY ConfigConstants DEF Init, VarsOK
  <1>4. LockOK /\ SetterOK
    BY <1>1, IdleRec DEF Init, LockOK, SetterOK, Busy
  <1>5. \A n \in VarNames : Setting(n) = {}
    BY <1>1, IdleRec DEF Setting
  <1>6. ASSUME NEW n \in VarNames, NEW i \in m_cbs[n] PROVE told[n][i] = m_val[n]
    <2>1. i \in 1..MaxListeners
      BY <1>3, <1>6 DEF VarsOK
    <2>2. told[n] = [k \in 1..MaxListeners |-> Empty(KindOf[n])] /\ m_val[n] = Empty(KindOf[n])
      BY DEF Init
    <2> QED BY <2>1, <2>2
  <1>7. ToldOK
    BY <1>5, <1>6 DEF ToldOK, Told
  <1> QED BY <1>2, <1>3, <1>4, <1>7 DEF KnowInv

\* A step after which every thread is telling what it told before, and no variable changed.
SameSetter(s) ==
    \/ th[s].at \notin Busy /\ th'[s].at \notin Busy
    \/ /\ th'[s].at = th[s].at /\ th'[s].name = th[s].name
       /\ th'[s].todo = th[s].todo /\ th'[s].new = th[s].new

\* A step that changes neither a variable nor what a thread knows of one.
LEMMA KnowSame ==
  ASSUME KnowInv, ThOK', \A s \in Threads : SameSetter(s),
         m_val' = m_val, m_cbs' = m_cbs, s_fun_id' = s_fun_id, readers' = readers,
         told' = told, raced' = raced, datas' \subseteq VarNames
  PROVE  KnowInv'
  <1>1. \A n \in VarNames : Setting(n)' = Setting(n)
    BY DEF Setting, SameSetter, Busy
  <1>2. \A n \in VarNames : \A t \in Setting(n) : th'[t].todo = th[t].todo /\ th'[t].new = th[t].new
    BY DEF Setting, SameSetter, Busy
  <1>3. VarsOK'
    BY DEF KnowInv, VarsOK
  <1>4. LockOK'
    BY DEF KnowInv, LockOK, SameSetter, Busy
  <1>5. SetterOK'
    BY DEF KnowInv, SetterOK, SameSetter, Busy
  <1>6. ToldOK'
    BY <1>1, <1>2 DEF KnowInv, ToldOK, Told
  <1> QED BY <1>3, <1>4, <1>5, <1>6 DEF KnowInv

\* The same when one thread moves that tells nobody before or after.
LEMMA KnowMove ==
  ASSUME KnowInv, NEW t \in Threads, NEW x, IsRec(x), Goto(t, x),
         th[t].at \notin Busy, x.at \notin Busy,
         m_val' = m_val, m_cbs' = m_cbs, s_fun_id' = s_fun_id, readers' = readers,
         told' = told, raced' = raced, datas' = datas
  PROVE  KnowInv'
  <1>1. /\ ThOK' /\ th'[t] = x
        /\ \A s \in Threads \ {t} : th'[s] = th[s]
    BY GotoThread DEF KnowInv
  <1>2. \A s \in Threads : SameSetter(s)
    BY <1>1 DEF SameSetter
  <1>3. datas' \subseteq VarNames
    BY DEF KnowInv, VarsOK
  <1> QED BY <1>1, <1>2, <1>3, KnowSame

\* setValue: the read lock and the first look at the value.
LEMMA KnowBegin ==
  ASSUME KnowInv, NEW t \in Threads, NEW x, IsRec(x), NEW n \in VarNames, NEW v,
         BeginSet(t, x, n, v), th[t].at \notin Busy,
         m_val' = m_val, m_cbs' = m_cbs, s_fun_id' = s_fun_id, told' = told, datas' = datas
  PROVE  KnowInv'
  <1>1. CASE v = m_val[n]
    <2>1. Goto(t, Resume(x)) /\ readers' = readers /\ raced' = raced
      BY <1>1 DEF BeginSet
    <2>2. IsRec(Resume(x)) /\ Resume(x).at \notin Busy
      BY ResumeRec DEF Busy
    <2> QED BY <2>1, <2>2, KnowMove
  <1>2. CASE v # m_val[n]
    <2> DEFINE y == [x EXCEPT !.at = "notify", !.name = n, !.new = v, !.todo = Listeners(n)]
    <2>1. /\ Goto(t, y)
          /\ readers' = [readers EXCEPT ![n] = @ \cup {t}]
          /\ raced' = [raced EXCEPT ![n] = @ \/ Setting(n) # {}]
      BY <1>2 DEF BeginSet
    <2>2. IsRec(y) /\ y.at = "notify" /\ y.name = n /\ y.new = v /\ y.todo = m_cbs[n]
      BY DEF IsRec, Fields, Listeners
    <2> HIDE DEF y
    <2>3. /\ ThOK' /\ th'[t] = y
          /\ \A s \in Threads \ {t} : th'[s] = th[s]
      BY <2>1, <2>2, GotoThread DEF KnowInv
    <2>4. VarsOK'
      BY <2>1 DEF KnowInv, VarsOK
    <2>5. LockOK'
      <3> DEFINE Holds(m) == {s \in Threads : th[s].at = "notify" /\ th[s].name = m}
      <3>1. readers = [m \in VarNames |-> Holds(m)]
        BY DEF KnowInv, LockOK
      <3>2. readers' = [m \in VarNames |-> IF m = n THEN Holds(n) \cup {t} ELSE Holds(m)]
        BY <2>1, <3>1
      <3>3. \A m \in VarNames : Holds(m)' = IF m = n THEN Holds(n) \cup {t} ELSE Holds(m)
        BY <2>2, <2>3 DEF Busy
      <3>4. readers' = [m \in VarNames |-> Holds(m)']
        BY <3>2, <3>3
      <3> QED BY <3>4 DEF LockOK
    <2>6. SetterOK'
      BY <2>2, <2>3 DEF KnowInv, SetterOK, Busy
    <2>7. \A m \in VarNames \ {n} : Setting(m)' = Setting(m) /\ t \notin Setting(m)
      BY <2>2, <2>3 DEF Setting, Busy
    <2>8. Setting(n)' = Setting(n) \cup {t}
      BY <2>2, <2>3 DEF Setting, Busy
    <2>9. ASSUME NEW m \in VarNames, ~raced'[m] PROVE Told(m)'
      <3>1. raced \in [VarNames -> BOOLEAN]
        BY DEF KnowInv, VarsOK
      <3>2. CASE m = n
        <4>1. ~raced[n] /\ Setting(n) = {}
          BY <2>1, <2>9, <3>1, <3>2
        <4>2. \A i \in m_cbs[n] : told[n][i] = m_val[n]
          BY <4>1 DEF KnowInv, ToldOK, Told
        <4> QED BY <4>1, <4>2, <2>8, <2>2, <2>3, <3>2 DEF Told
      <3>3. CASE m # n
        <4>1. ~raced[m] /\ Told(m)
          BY <2>1, <2>9, <3>1, <3>3 DEF KnowInv, ToldOK
        <4>2. \A s \in Setting(m) : th'[s] = th[s]
          BY <2>7, <2>3, <3>3 DEF Setting
        <4> QED BY <4>1, <4>2, <2>7, <3>3 DEF Told
      <3> QED BY <3>2, <3>3
    <2>10. ToldOK'
      BY <2>9 DEF ToldOK
    <2> QED BY <2>3, <2>4, <2>5, <2>6, <2>10 DEF KnowInv
  <1> QED BY <1>1, <1>2

\* One listener is told.
LEMMA KnowTell ==
  ASSUME KnowInv, NEW t \in Threads, Tell(t)
  PROVE  KnowInv'
  <1> DEFINE n == th[t].name
  <1>1. /\ th[t].at = "notify" /\ m_val' = m_val /\ m_cbs' = m_cbs /\ s_fun_id' = s_fun_id
        /\ readers' = readers /\ raced' = raced /\ datas' = datas
    BY DEF Tell, At
  <1>2. PICK i \in th[t].todo :
          /\ told' = [told EXCEPT ![n][i] = th[t].new]
          /\ \E w : Goto(t, [th[t] EXCEPT !.todo = @ \ {i}, !.work = w])
    BY DEF Tell
  <1>w. PICK w : Goto(t, [th[t] EXCEPT !.todo = @ \ {i}, !.work = w])
    BY <1>2
  <1> DEFINE y == [th[t] EXCEPT !.todo = @ \ {i}, !.work = w]
  <1>3. IsRec(th[t])
    BY DEF KnowInv, ThOK
  <1>4. /\ IsRec(y) /\ y.at = "notify" /\ y.name = n /\ y.new = th[t].new
        /\ y.todo = th[t].todo \ {i}
    BY <1>1, <1>3 DEF IsRec, Fields
  <1> HIDE DEF y
  <1>5. /\ ThOK' /\ th'[t] = y
        /\ \A s \in Threads \ {t} : th'[s] = th[s]
    BY <1>w, <1>4, GotoThread DEF KnowInv, y
  <1>6. n \in VarNames /\ i \in m_cbs[n] /\ i \in 1..MaxListeners
    BY <1>1, <1>2 DEF KnowInv, SetterOK, VarsOK, Busy
  <1>7. /\ told' = [m \in VarNames |-> told'[m]]
        /\ \A m \in VarNames \ {n} : told'[m] = told[m]
        /\ told'[n] = [k \in 1..MaxListeners |-> IF k = i THEN th[t].new ELSE told[n][k]]
    BY <1>2, <1>6 DEF KnowInv, VarsOK
  <1>8. VarsOK'
    <2>1. \A m \in VarNames : told'[m] = [k \in 1..MaxListeners |-> told'[m][k]]
      BY <1>7 DEF KnowInv, VarsOK
    <2> QED BY <1>1, <1>7, <2>1 DEF KnowInv, VarsOK
  <1>9. LockOK'
    BY <1>1, <1>4, <1>5 DEF KnowInv, LockOK
  <1>10. SetterOK'
    BY <1>1, <1>4, <1>5 DEF KnowInv, SetterOK, Busy
  <1>11. \A m \in VarNames : Setting(m)' = Setting(m)
    BY <1>1, <1>4, <1>5 DEF Setting
  <1>12. t \in Setting(n)
    BY <1>1 DEF Setting
  <1>13. ASSUME NEW m \in VarNames, ~raced'[m] PROVE Told(m)'
    <2>1. Told(m)
      BY <1>1, <1>13 DEF KnowInv, ToldOK
    <2>2. CASE m = n
      <3>1. Setting(n) = {t}
        BY <2>1, <2>2, <1>12 DEF Told
      <3>2. \A k \in m_cbs[n] : k \in 1..MaxListeners
        BY <1>6 DEF KnowInv, VarsOK
      <3>3. \A k \in m_cbs[n] :
              told'[n][k] = IF k \in th[t].todo \ {i} THEN m_val[n] ELSE th[t].new
        BY <3>1, <3>2, <1>7, <2>1, <2>2 DEF Told
      <3> QED BY <3>1, <3>3, <1>1, <1>4, <1>5, <1>11, <2>2 DEF Told
    <2>3. CASE m # n
      <3>1. \A s \in Setting(m) : th'[s] = th[s]
        BY <1>5, <2>3 DEF Setting
      <3> QED BY <3>1, <1>1, <1>7, <1>11, <2>1, <2>3 DEF Told
    <2> QED BY <2>2, <2>3
  <1>14. ToldOK'
    BY <1>13 DEF ToldOK
  <1> QED BY <1>5, <1>8, <1>9, <1>10, <1>14 DEF KnowInv

\* All are told: the read lock is given back.
LEMMA KnowUnlock ==
  ASSUME KnowInv, NEW t \in Threads, Unlock(t)
  PROVE  KnowInv'
  <1> DEFINE n == th[t].name
             y == [th[t] EXCEPT !.at = "write"]
  <1>1. /\ th[t].at = "notify" /\ th[t].todo = {} /\ m_val' = m_val /\ m_cbs' = m_cbs
        /\ s_fun_id' = s_fun_id /\ told' = told /\ raced' = raced /\ datas' = datas
        /\ readers' = [readers EXCEPT ![n] = @ \ {t}] /\ Goto(t, y)
    BY DEF Unlock, At
  <1>2. IsRec(th[t])
    BY DEF KnowInv, ThOK
  <1>3. /\ IsRec(y) /\ y.at = "write" /\ y.name = n /\ y.new = th[t].new
        /\ y.todo = {}
    BY <1>1, <1>2 DEF IsRec, Fields
  <1> HIDE DEF y
  <1>4. /\ ThOK' /\ th'[t] = y
        /\ \A s \in Threads \ {t} : th'[s] = th[s]
    BY <1>1, <1>3, GotoThread DEF KnowInv
  <1>5. VarsOK'
    BY <1>1 DEF KnowInv, VarsOK
  <1>6. n \in VarNames
    BY <1>1 DEF KnowInv, SetterOK, Busy
  <1>7. LockOK'
    <2> DEFINE Holds(m) == {s \in Threads : th[s].at = "notify" /\ th[s].name = m}
    <2>1. readers = [m \in VarNames |-> Holds(m)]
      BY DEF KnowInv, LockOK
    <2>2. readers' = [m \in VarNames |-> IF m = n THEN Holds(n) \ {t} ELSE Holds(m)]
      BY <1>1, <2>1
    <2>3. \A m \in VarNames : Holds(m)' = IF m = n THEN Holds(n) \ {t} ELSE Holds(m)
      BY <1>1, <1>3, <1>4
    <2>4. readers' = [m \in VarNames |-> Holds(m)']
      BY <2>2, <2>3
    <2> QED BY <2>4 DEF LockOK
  <1>8. SetterOK'
    BY <1>1, <1>3, <1>4, <1>6 DEF KnowInv, SetterOK, Busy
  <1>9. \A m \in VarNames : Setting(m)' = Setting(m)
    BY <1>1, <1>3, <1>4 DEF Setting
  <1>10. \A s \in Threads : th'[s].todo = th[s].todo /\ th'[s].new = th[s].new
    BY <1>1, <1>3, <1>4
  <1>11. ToldOK'
    <2> SUFFICES ASSUME NEW m \in VarNames, ~raced[m] PROVE Told(m)'
      BY <1>1 DEF ToldOK
    <2>1. Told(m)
      BY DEF KnowInv, ToldOK
    <2>2. \A s \in Setting(m) : s \in Threads
      BY DEF Setting
    <2> QED BY <2>1, <2>2, <1>1, <1>9, <1>10 DEF Told
  <1> QED BY <1>4, <1>5, <1>7, <1>8, <1>11 DEF KnowInv

\* The value is stored: nobody is telling, and every listener knows it already.
LEMMA KnowStore ==
  ASSUME KnowInv, NEW t \in Threads, Store(t)
  PROVE  KnowInv'
  <1>0. th[t].at = "write" /\ th[t].name \in VarNames /\ th[t].todo = {}
    BY DEF KnowInv, SetterOK, Busy, Store, At
  <1>n. PICK n \in VarNames : n = th[t].name
    BY <1>0
  <1> DEFINE y == Resume(th[t])
  <1>1. /\ th[t].at = "write" /\ readers[n] = {} /\ m_val' = [m_val EXCEPT ![n] = th[t].new]
        /\ m_cbs' = m_cbs /\ readers' = readers
        /\ s_fun_id' = s_fun_id /\ told' = told /\ raced' = raced /\ datas' = datas /\ Goto(t, y)
    BY <1>n DEF Store, At
  <1>2. IsRec(th[t])
    BY DEF KnowInv, ThOK
  <1>3. IsRec(y) /\ y.at \notin Busy
    BY <1>2, ResumeRec DEF Busy
  <1> HIDE DEF y
  <1>4. /\ ThOK' /\ th'[t] = y
        /\ \A s \in Threads \ {t} : th'[s] = th[s]
    BY <1>1, <1>3, GotoThread DEF KnowInv
  <1>6. /\ m_val' = [m \in VarNames |-> m_val'[m]] /\ m_val'[n] = th[t].new
        /\ \A m \in VarNames \ {n} : m_val'[m] = m_val[m]
    BY <1>1 DEF KnowInv, VarsOK
  <1>7. VarsOK'
    BY <1>1, <1>6 DEF KnowInv, VarsOK
  <1>8. LockOK'
    BY <1>1, <1>3, <1>4 DEF KnowInv, LockOK, Busy
  <1>9. SetterOK'
    BY <1>1, <1>3, <1>4 DEF KnowInv, SetterOK
  <1>10. \A m \in VarNames \ {n} : Setting(m)' = Setting(m) /\ t \notin Setting(m)
    BY <1>n, <1>1, <1>3, <1>4 DEF Setting, Busy
  <1>11. Setting(n)' = Setting(n) \ {t} /\ t \in Setting(n)
    BY <1>n, <1>1, <1>3, <1>4 DEF Setting, Busy
  <1>12. ASSUME NEW m \in VarNames, ~raced[m] PROVE Told(m)'
    <2>1. Told(m)
      BY <1>12 DEF KnowInv, ToldOK
    <2>2. CASE m = n
      <3>1. Setting(n)' = {}
        BY <1>11, <2>1, <2>2 DEF Told
      <3>2. \A i \in m_cbs[n] : told[n][i] = th[t].new
        BY <1>0, <1>11, <2>1, <2>2 DEF Told
      <3> QED BY <3>1, <3>2, <1>1, <1>6, <2>2 DEF Told
    <2>3. CASE m # n
      <3>1. \A s \in Setting(m) : th'[s] = th[s]
        BY <1>4, <1>10, <2>3 DEF Setting
      <3> QED BY <3>1, <1>1, <1>6, <1>10, <2>1, <2>3 DEF Told
    <2> QED BY <2>2, <2>3
  <1>13. ToldOK'
    BY <1>1, <1>12 DEF ToldOK
  <1> QED BY <1>4, <1>7, <1>8, <1>9, <1>13 DEF KnowInv

\* addListener(), under the lock of the variable.
LEMMA KnowAddListener ==
  ASSUME KnowInv, NEW t \in Threads, NEW n \in VarNames, AddListener(t, n)
  PROVE  KnowInv'
  <1> DEFINE k == s_fun_id[n] + 1
  <1>1. /\ m_val' = m_val /\ readers' = readers /\ th' = th /\ datas' = datas
        /\ readers[n] = {} /\ s_fun_id[n] < MaxListeners
        /\ s_fun_id' = [s_fun_id EXCEPT ![n] = @ + 1]
        /\ raced' = [raced EXCEPT ![n] = @ \/ Setting(n) # {}]
    BY DEF AddListener
  <1>2. s_fun_id'[n] = k /\ k \in 1..MaxListeners /\ s_fun_id' \in [VarNames -> 0..MaxListeners]
    BY <1>1, ConfigConstants DEF KnowInv, VarsOK
  <1> HIDE DEF k
  <1>3. /\ m_cbs' = [m_cbs EXCEPT ![n] = @ \cup {k}]
        /\ told' = [told EXCEPT ![n][k] = m_val[n]]
    BY <1>2 DEF AddListener
  <1>4. /\ told' = [m \in VarNames |-> told'[m]]
        /\ \A m \in VarNames \ {n} : told'[m] = told[m] /\ m_cbs'[m] = m_cbs[m]
        /\ told'[n] = [i \in 1..MaxListeners |-> IF i = k THEN m_val[n] ELSE told[n][i]]
        /\ m_cbs'[n] = m_cbs[n] \cup {k}
        /\ m_cbs' \in [VarNames -> SUBSET (1..MaxListeners)]
    BY <1>2, <1>3 DEF KnowInv, VarsOK
  <1>5. VarsOK'
    <2>1. \A m \in VarNames : told'[m] = [i \in 1..MaxListeners |-> told'[m][i]]
      BY <1>4 DEF KnowInv, VarsOK
    <2> QED BY <1>1, <1>2, <1>4, <2>1 DEF KnowInv, VarsOK
  <1>6. LockOK'
    BY <1>1 DEF KnowInv, LockOK
  <1>7. SetterOK'
    BY <1>1, <1>4 DEF KnowInv, SetterOK
  <1>8. \A m \in VarNames : Setting(m)' = Setting(m)
    BY <1>1 DEF Setting
  <1>9. ASSUME NEW m \in VarNames, ~raced'[m] PROVE Told(m)'
    <2>1. ~raced[m] /\ Told(m) /\ (m = n => Setting(n) = {})
      BY <1>1, <1>9 DEF KnowInv, ToldOK, VarsOK
    <2>2. CASE m = n
      <3>1. \A i \in m_cbs[n] : i \in 1..MaxListeners /\ told[n][i] = m_val[n]
        BY <2>1, <2>2 DEF Told, KnowInv, VarsOK
      <3>2. \A i \in m_cbs'[n] : told'[n][i] = m_val[n]
        BY <3>1, <1>2, <1>4
      <3> QED BY <3>2, <1>1, <1>8, <2>1, <2>2 DEF Told
    <2>3. CASE m # n
      BY <1>1, <1>4, <1>8, <2>1, <2>3 DEF Told
    <2> QED BY <2>2, <2>3
  <1>10. ToldOK'
    BY <1>9 DEF ToldOK
  <1>11. ThOK'
    BY <1>1 DEF KnowInv, ThOK
  <1> QED BY <1>5, <1>6, <1>7, <1>10, <1>11 DEF KnowInv

\* delListener() and clearListener(), under the lock of the variable.
LEMMA KnowDelListeners ==
  ASSUME KnowInv, NEW t \in Threads, NEW n \in VarNames, NEW gone, DelListeners(t, n, gone)
  PROVE  KnowInv'
  <1>1. /\ m_val' = m_val /\ readers' = readers /\ th' = th /\ datas' = datas /\ told' = told
        /\ readers[n] = {} /\ s_fun_id' = s_fun_id /\ raced' = raced
        /\ m_cbs' = [m_cbs EXCEPT ![n] = @ \ gone]
    BY DEF DelListeners
  <1>2. /\ \A m \in VarNames \ {n} : m_cbs'[m] = m_cbs[m]
        /\ m_cbs'[n] = m_cbs[n] \ gone
        /\ m_cbs' \in [VarNames -> SUBSET (1..MaxListeners)]
    BY <1>1 DEF KnowInv, VarsOK
  <1>3. ThOK' /\ VarsOK' /\ LockOK'
    BY <1>1, <1>2, ZenonT(60) DEF KnowInv, ThOK, VarsOK, LockOK
  <1>4. \A s \in Threads : ~(th[s].at = "notify" /\ th[s].name = n)
    BY <1>1 DEF KnowInv, LockOK
  <1>5. SetterOK'
    BY <1>1, <1>2, <1>4 DEF KnowInv, SetterOK, Busy
  <1>6. \A m \in VarNames : Setting(m)' = Setting(m) /\ m_cbs'[m] \subseteq m_cbs[m]
    BY <1>1, <1>2 DEF Setting
  <1>7. ToldOK'
    BY <1>1, <1>6 DEF KnowInv, ToldOK, Told
  <1> QED BY <1>3, <1>5, <1>7 DEF KnowInv

\* The steps of a thread that is inside a call.
LEMMA KnowProceed ==
  ASSUME KnowInv, NEW t \in Threads, Proceed(t)
  PROVE  KnowInv'
  <1>1. IsRec(th[t]) /\ datas \subseteq VarNames
    BY DEF KnowInv, ThOK, VarsOK
  <1>2. CASE Tell(t)
    BY <1>2, KnowTell
  <1>3. CASE ConfigureLogger(t)
    <2>1. PICK w : Goto(t, [th[t] EXCEPT !.work = w])
      BY <1>3 DEF ConfigureLogger
    <2> DEFINE x == [th[t] EXCEPT !.work = w]
    <2>2. /\ IsRec(x) /\ x.at = th[t].at /\ x.name = th[t].name /\ x.todo = th[t].todo
          /\ x.new = th[t].new
      BY <1>1 DEF IsRec, Fields
    <2> HIDE DEF x
    <2>3. ThOK' /\ th'[t] = x /\ \A s \in Threads \ {t} : th'[s] = th[s]
      BY <2>1, <2>2, GotoThread DEF KnowInv, x
    <2>4. \A s \in Threads : SameSetter(s)
      BY <2>2, <2>3 DEF SameSetter
    <2>5. cfgVars' = cfgVars
      BY <1>3 DEF ConfigureLogger
    <2> QED BY <2>3, <2>4, <2>5, <1>1, KnowSame DEF cfgVars
  <1>4. CASE Unlock(t)
    BY <1>4, KnowUnlock
  <1>5. CASE Store(t)
    BY <1>5, KnowStore
  <1>6. CASE WriteLog(t)
    <2>1. th[t].at \notin Busy /\ Goto(t, Idle) /\ cfgVars' = cfgVars
      BY <1>6 DEF WriteLog, At, Busy
    <2> QED BY <2>1, IdleRec, KnowMove DEF cfgVars, Busy
  <1>7. CASE Stat(t)
    <2>1. PICK st : Goto(t, [th[t] EXCEPT !.at = "check", !.st = st])
      BY <1>7 DEF Stat
    <2> DEFINE x == [th[t] EXCEPT !.at = "check", !.st = st]
    <2>2. IsRec(x) /\ x.at \notin Busy /\ th[t].at \notin Busy /\ cfgVars' = cfgVars
      BY <1>1, <1>7 DEF IsRec, Fields, Busy, Stat, At
    <2> HIDE DEF x
    <2>3. Goto(t, x)
      BY <2>1 DEF x
    <2> QED BY <2>2, <2>3, KnowMove DEF cfgVars
  <1>8. CASE Check(t)
    <2> DEFINE x == [th[t] EXCEPT !.files = Tail(@), !.st = 0]
               y == [th[t] EXCEPT !.at = "read"]
    <2>1. IsRec(x) /\ IsRec(y) /\ y.at \notin Busy /\ th[t].at \notin Busy /\ cfgVars' = cfgVars
      BY <1>1, <1>8 DEF IsRec, Fields, Busy, Check, At
    <2>2. IsRec(Resume(x)) /\ Resume(x).at \notin Busy
      BY <2>1, ResumeRec DEF Busy
    <2>3. Goto(t, Resume(x)) \/ Goto(t, y)
      BY <1>8 DEF Check
    <2> HIDE DEF x, y
    <2> QED BY <2>1, <2>2, <2>3, KnowMove DEF cfgVars
  <1>9. CASE ReadFile(t)
    <2>1. PICK ms : Goto(t, Resume([th[t] EXCEPT !.files = Tail(@), !.st = 0, !.members = ms]))
      BY <1>9 DEF ReadFile
    <2> DEFINE x == [th[t] EXCEPT !.files = Tail(@), !.st = 0, !.members = ms]
    <2>2. IsRec(x) /\ th[t].at \notin Busy /\ cfgVars' = cfgVars
      BY <1>1, <1>9 DEF IsRec, Fields, Busy, ReadFile, At
    <2>3. IsRec(Resume(x)) /\ Resume(x).at \notin Busy
      BY <2>2, ResumeRec DEF Busy
    <2>4. Goto(t, Resume(x))
      BY <2>1
    <2> HIDE DEF x
    <2> QED BY <2>2, <2>3, <2>4, KnowMove DEF cfgVars
  <1>10. CASE LoadMember(t)
    <2> DEFINE x == [th[t] EXCEPT !.members = Tail(@)]
               m == Head(th[t].members)
    <2>1. IsRec(x) /\ th[t].at \notin Busy
      BY <1>1, <1>10 DEF IsRec, Fields, Busy, LoadMember, At
    <2>2. IsRec(Resume(x)) /\ Resume(x).at \notin Busy
      BY <2>1, ResumeRec DEF Busy
    <2>3. datas' = datas /\ m_val' = m_val /\ m_cbs' = m_cbs /\ s_fun_id' = s_fun_id /\ told' = told
      BY <1>10 DEF LoadMember
    <2>4. \/ m.name \in datas /\ \E v : BeginSet(t, x, m.name, v)
          \/ Goto(t, Resume(x)) /\ readers' = readers /\ raced' = raced
      BY <1>10 DEF LoadMember
    <2> HIDE DEF x, m
    <2> QED BY <2>1, <2>2, <2>3, <2>4, <1>1, KnowMove, KnowBegin
  <1>11. CASE Loaded(t)
    <2>1. th[t].at \notin Busy /\ Goto(t, Idle) /\ cfgVars' = cfgVars
      BY <1>11 DEF Loaded, At, Busy
    <2> QED BY <2>1, IdleRec, KnowMove DEF cfgVars, Busy
  <1> QED
    BY <1>2, <1>3, <1>4, <1>5, <1>6, <1>7, <1>8, <1>9, <1>10, <1>11 DEF Proceed

\* Steps that leave the threads and the variables alone.
LEMMA KnowRest ==
  ASSUME KnowInv, th' = th, m_val' = m_val, m_cbs' = m_cbs, s_fun_id' = s_fun_id,
         readers' = readers, told' = told, raced' = raced, datas' \subseteq VarNames
  PROVE  KnowInv'
  <1>1. ThOK'
    BY DEF KnowInv, ThOK
  <1>2. \A s \in Threads : SameSetter(s)
    BY DEF SameSetter
  <1> QED BY <1>1, <1>2, KnowSame

\* The calls of the program.
LEMMA KnowBeginCall ==
  ASSUME KnowInv, NEW t \in Threads, Begin(t)
  PROVE  KnowInv'
  <1>1. IsRec(th[t]) /\ datas \subseteq VarNames
    BY DEF KnowInv, ThOK, VarsOK
  <1>2. ASSUME NEW n \in VarNames, Lookup(t, n) PROVE KnowInv'
    <2>1. datas' \subseteq VarNames
      BY <1>1, <1>2 DEF Lookup
    <2> QED BY <2>1, <1>2, KnowRest DEF Lookup
  <1>3. ASSUME NEW n \in VarNames, AddListener(t, n) PROVE KnowInv'
    BY <1>3, KnowAddListener
  <1>4. ASSUME NEW n \in VarNames, DelListener(t, n) \/ ClearListener(t, n) PROVE KnowInv'
    BY <1>4, KnowDelListeners DEF DelListener, ClearListener
  <1>5. ASSUME NEW x \in Texts, FromString(t, x) PROVE KnowInv'
    <2>1. x.name \in VarNames
      BY <1>1, <1>5 DEF FromString
    <2>2. /\ th[t].at \notin Busy /\ datas' = datas /\ m_val' = m_val /\ m_cbs' = m_cbs
          /\ s_fun_id' = s_fun_id /\ told' = told
      BY <1>5 DEF FromString, Call, Busy
    <2>3. \/ \E v : BeginSet(t, th[t], x.name, v)
          \/ th' = th /\ readers' = readers /\ raced' = raced
      BY <1>5 DEF FromString
    <2> QED BY <2>1, <2>2, <2>3, <1>1, KnowBegin, KnowRest
  <1>6. ASSUME NEW n \in Loggers, NEW level, Log(t, n, level) PROVE KnowInv'
    <2> DEFINE x == [th[t] EXCEPT !.at = "log", !.name = n, !.level = level]
    <2>1. cfgVars' = cfgVars /\ th[t].at \notin Busy /\ (th' = th \/ Goto(t, x))
      BY <1>6 DEF Log, Call, Busy
    <2>2. IsRec(x) /\ x.at \notin Busy
      BY <1>1 DEF IsRec, Fields, Busy
    <2> HIDE DEF x
    <2> QED BY <2>1, <2>2, <1>1, KnowMove, KnowRest DEF cfgVars
  <1>7. ASSUME NEW n \in Loggers, AddAppender(t, n) \/ DelAppender(t, n) \/ \E p \in Formats : SetFormatter(t, n, p)
        PROVE  KnowInv'
    <2>1. cfgVars' = cfgVars /\ th' = th
      BY <1>7 DEF AddAppender, DelAppender, SetFormatter
    <2> QED BY <2>1, <1>1, KnowRest DEF cfgVars
  <1>8. CASE LoadFromConfDir(t)
    <2> DEFINE x == [th[t] EXCEPT !.load = TRUE, !.files = Files, !.fresh = ToSet(Files)]
    <2>1. IsRec(x)
      BY <1>1 DEF IsRec, Fields
    <2>2. Goto(t, Resume(x)) /\ th[t].at \notin Busy /\ cfgVars' = cfgVars
      BY <1>8 DEF LoadFromConfDir, Call, Busy
    <2> HIDE DEF x
    <2>3. IsRec(Resume(x)) /\ Resume(x).at \notin Busy
      BY <2>1, ResumeRec DEF Busy
    <2> QED BY <2>2, <2>3, KnowMove DEF cfgVars
  <1> QED
    BY <1>2, <1>3, <1>4, <1>5, <1>6, <1>7, <1>8 DEF Begin

\* An edit of a file touches no variable.
LEMMA KnowEdit ==
  ASSUME KnowInv, NEW f, NEW c, NEW m, Edit(f, c, m)
  PROVE  KnowInv'
  <1>1. th' = [t \in Threads |-> [th[t] EXCEPT !.fresh = @ \ {f}]] /\ cfgVars' = cfgVars
    BY DEF Edit
  <1>2. \A s \in Threads : IsRec(th[s])
    BY DEF KnowInv, ThOK
  <1>3. \A s \in Threads : IsRec(th'[s]) /\ SameSetter(s)
    BY <1>1, <1>2 DEF IsRec, Fields, SameSetter
  <1>4. ThOK'
    BY <1>1, <1>3 DEF ThOK
  <1> QED BY <1>1, <1>3, <1>4, KnowSame DEF cfgVars, KnowInv, VarsOK

\* Every step keeps what the listeners know.
LEMMA KnowNext == KnowInv /\ [Next]_vars => KnowInv'
  <1> SUFFICES ASSUME KnowInv, [Next]_vars PROVE KnowInv'
    OBVIOUS
  <1>1. ASSUME NEW t \in Threads, Proceed(t) PROVE KnowInv'
    BY <1>1, KnowProceed
  <1>2. ASSUME NEW t \in Threads, Begin(t) PROVE KnowInv'
    BY <1>2, KnowBeginCall
  <1>3. ASSUME NEW f, NEW c, NEW m, Edit(f, c, m) PROVE KnowInv'
    BY <1>3, KnowEdit
  <1>4. CASE UNCHANGED vars
    BY <1>4, KnowRest DEF vars, cfgVars, KnowInv, VarsOK
  <1> QED BY <1>1, <1>2, <1>3, <1>4 DEF Next

\* Every listener of a variable has been told the value it has, whenever nobody is setting
\* it and no two setValue overlapped: setValue tells the listeners before it stores, under
\* two locks, and nothing else comes between.
THEOREM ConfigListenersKnow == Spec => []ListenersKnow
  <1>1. KnowInv => ListenersKnow
    BY DEF KnowInv, ToldOK, Told, ListenersKnow
  <1> QED BY <1>1, KnowInit, KnowNext, PTL DEF Spec

(***************************************************************************)
(* LoadFromConfDir and the edits of files                                  *)
(***************************************************************************)
LEMMA HeadAndTail ==
  ASSUME NEW S, NEW s \in Seq(S), s # <<>>
  PROVE  /\ Head(s) \in S /\ Tail(s) \in Seq(S)
         /\ ToSet(s) = {Head(s)} \cup ToSet(Tail(s))
  <1>1. Len(s) \in Nat /\ Len(s) > 0 /\ DOMAIN s = 1..Len(s) /\ Head(s) = s[1]
    OBVIOUS
  <1>2. Tail(s) \in Seq(S) /\ Len(Tail(s)) = Len(s) - 1 /\ \A i \in 1..(Len(s) - 1) : Tail(s)[i] = s[i + 1]
    BY <1>1
  <1>3. DOMAIN Tail(s) = 1..(Len(s) - 1)
    BY <1>2
  <1>4. \A i \in DOMAIN s : i = 1 \/ (i - 1 \in DOMAIN Tail(s) /\ s[i] = Tail(s)[i - 1])
    BY <1>1, <1>2, <1>3
  <1>5. ToSet(s) \subseteq {Head(s)} \cup ToSet(Tail(s))
    BY <1>1, <1>4, ZenonT(60) DEF ToSet
  <1>6. \A i \in DOMAIN Tail(s) : i + 1 \in DOMAIN s /\ Tail(s)[i] = s[i + 1]
    BY <1>1, <1>2, <1>3
  <1>7. {Head(s)} \cup ToSet(Tail(s)) \subseteq ToSet(s)
    BY <1>1, <1>6 DEF ToSet
  <1>8. Head(s) \in S
    BY <1>1
  <1> QED BY <1>2, <1>5, <1>7, <1>8

FilesOK ==
    /\ content = [f \in ToSet(Files) |-> content[f]] /\ mtime = [f \in ToSet(Files) |-> mtime[f]]
    /\ stamp = [f \in ToSet(Files) |-> stamp[f]] /\ seen = [f \in ToSet(Files) |-> seen[f]]
    /\ sameTime \in [ToSet(Files) -> BOOLEAN]
    /\ settled \subseteq ToSet(Files)

Left(x) ==
    /\ x.files \in Seq(ToSet(Files)) /\ x.fresh \subseteq ToSet(Files)
    /\ x.at \in {"stat", "check", "read"} => x.files # <<>>
    /\ x.at = "loaded" => x.files = <<>>

\* The content of a file was read, or has the recorded time, or somebody who recorded the
\* time has still to read it.
Known(f) == sameTime[f] \/ seen[f] = content[f]
Reads(t, f) == th[t].at = "read" /\ Head(th[t].files) = f
Covered(f) == Known(f) \/ \E t \in Threads : Reads(t, f)

\* Every thread that has passed a file since its last edit left it covered, and one that
\* has asked for the time of a file since then knows the time there is.
Passed(t) ==
    /\ \A f \in th[t].fresh : f \notin ToSet(th[t].files) => Covered(f)
    /\ th[t].at = "check" /\ Head(th[t].files) \in th[t].fresh =>
            th[t].st = mtime[Head(th[t].files)]

FileInv ==
    /\ ThOK /\ FilesOK
    /\ \A t \in Threads : Left(th[t]) /\ Passed(t)
    /\ \A f \in ToSet(Files) : stamp[f] = mtime[f] => Covered(f)
    /\ \A f \in settled : Covered(f)

\* At the start nothing was read.
LEMMA FileInit == Init => FileInv
  <1> SUFFICES ASSUME Init PROVE FileInv
    OBVIOUS
  <1>1. \A t \in Threads : th[t] = Idle
    BY DEF Init
  <1>2. ThOK
    BY <1>1, IdleRec DEF Init, ThOK
  <1>3. FilesOK
    BY DEF Init, FilesOK
  <1>4. \A t \in Threads : Left(th[t]) /\ Passed(t)
    <2>1. Left(Idle)
      BY IdleRec DEF Left
    <2> QED BY <1>1, <2>1, IdleRec DEF Passed
  <1>5. \A f \in ToSet(Files) : stamp[f] # mtime[f]
    BY ConfigConstants DEF Init
  <1>6. settled = {}
    BY DEF Init
  <1> QED BY <1>2, <1>3, <1>4, <1>5, <1>6 DEF FileInv

\* A step of a thread that looks at no file before or after, and changes none.
LEMMA FileMove ==
  ASSUME FileInv, NEW t \in Threads, NEW x, IsRec(x), Goto(t, x), Left(x),
         x.files = th[t].files, x.fresh = th[t].fresh,
         th[t].at \notin {"check", "read"}, x.at \notin {"check", "read"},
         fileVars' = fileVars
  PROVE  FileInv'
  <1>1. ThOK' /\ th'[t] = x /\ \A s \in Threads \ {t} : th'[s] = th[s]
    BY GotoThread DEF FileInv
  <1>2. \A f : \A s \in Threads : Reads(s, f)' <=> Reads(s, f)
    BY <1>1 DEF Reads
  <1>3. \A f : Covered(f)' <=> Covered(f)
    BY <1>2 DEF Covered, Known, fileVars
  <1>4. \A s \in Threads : Left(th'[s])
    BY <1>1 DEF FileInv
  <1>5. \A s \in Threads : Passed(s)'
    BY <1>1, <1>3 DEF FileInv, Passed, fileVars
  <1>6. FilesOK'
    BY DEF FileInv, FilesOK, fileVars
  <1> QED BY <1>1, <1>3, <1>4, <1>5, <1>6 DEF FileInv, fileVars

\* A thread that is still in its call goes on with the next member, the next file or ends.
LEMMA LeftResume ==
  ASSUME NEW x, IsRec(x), x.files \in Seq(ToSet(Files)), x.fresh \subseteq ToSet(Files)
  PROVE  Left(Resume(x)) /\ Resume(x).at \notin {"check", "read"}
  BY ResumeRec DEF Left

\* A call or a load begins to change a value.
LEMMA FileBegin ==
  ASSUME FileInv, NEW t \in Threads, NEW x, IsRec(x), NEW n, NEW v, BeginSet(t, x, n, v),
         x.files = th[t].files, x.fresh = th[t].fresh, th[t].at \notin {"check", "read"},
         fileVars' = fileVars
  PROVE  FileInv'
  <1>1. x.files \in Seq(ToSet(Files)) /\ x.fresh \subseteq ToSet(Files)
    BY DEF FileInv, Left
  <1>2. CASE Goto(t, Resume(x))
    <2>1. IsRec(Resume(x)) /\ Resume(x).files = th[t].files /\ Resume(x).fresh = th[t].fresh
      BY ResumeRec
    <2> QED BY <1>1, <1>2, <2>1, LeftResume, FileMove
  <1>3. CASE Goto(t, [x EXCEPT !.at = "notify", !.name = n, !.new = v, !.todo = Listeners(n)])
    <2> DEFINE y == [x EXCEPT !.at = "notify", !.name = n, !.new = v, !.todo = Listeners(n)]
    <2>1. IsRec(y) /\ y.at = "notify" /\ y.files = x.files /\ y.fresh = x.fresh
      BY DEF IsRec, Fields
    <2>2. Goto(t, y)
      BY <1>3
    <2> HIDE DEF y
    <2>3. Left(y)
      BY <1>1, <2>1 DEF Left
    <2> QED BY <2>1, <2>2, <2>3, FileMove
  <1> QED BY <1>2, <1>3 DEF BeginSet

\* lstat(): the time of a file is looked up.
LEMMA FileStat ==
  ASSUME FileInv, NEW t \in Threads, Stat(t)
  PROVE  FileInv'
  <1> DEFINE x == [th[t] EXCEPT !.at = "check", !.st = mtime[Head(th[t].files)]]
  <1>1. th[t].at = "stat" /\ Goto(t, x) /\ fileVars' = fileVars /\ IsRec(th[t]) /\ Left(th[t])
    BY DEF Stat, At, FileInv, ThOK
  <1>2. /\ IsRec(x) /\ x.at = "check" /\ x.files = th[t].files /\ x.fresh = th[t].fresh
        /\ x.st = mtime[Head(th[t].files)]
    BY <1>1 DEF IsRec, Fields
  <1> HIDE DEF x
  <1>3. ThOK' /\ th'[t] = x /\ \A s \in Threads \ {t} : th'[s] = th[s]
    BY <1>1, <1>2, GotoThread DEF FileInv
  <1>4. \A f : \A s \in Threads : Reads(s, f)' <=> Reads(s, f)
    BY <1>1, <1>2, <1>3 DEF Reads
  <1>5. \A f : Covered(f)' <=> Covered(f)
    BY <1>1, <1>4 DEF Covered, Known, fileVars
  <1>6. \A s \in Threads : Left(th'[s])
    BY <1>1, <1>2, <1>3 DEF FileInv, Left
  <1>7. \A s \in Threads : Passed(s)'
    BY <1>1, <1>2, <1>3, <1>5 DEF FileInv, Passed, fileVars
  <1>8. FilesOK'
    BY <1>1 DEF FileInv, FilesOK, fileVars
  <1> QED BY <1>1, <1>3, <1>5, <1>6, <1>7, <1>8 DEF FileInv, fileVars

\* A file is skipped only when its recorded time is the one it has, or had before an edit
\* that the thread need not see.
LEMMA FileCheck ==
  ASSUME FileInv, NEW t \in Threads, Check(t)
  PROVE  FileInv'
  <1>1. /\ th[t].at = "check" /\ IsRec(th[t]) /\ Left(th[t]) /\ Passed(t)
        /\ content' = content /\ mtime' = mtime /\ seen' = seen /\ sameTime' = sameTime
        /\ settled' = settled
    BY DEF Check, At, FileInv, ThOK
  <1>2. PICK f \in ToSet(Files) : /\ f = Head(th[t].files) /\ Tail(th[t].files) \in Seq(ToSet(Files))
                                  /\ ToSet(th[t].files) = {f} \cup ToSet(Tail(th[t].files))
    BY <1>1, HeadAndTail DEF Left
  <1>3. CASE Skips(f, th[t].st)
    <2> DEFINE x == [th[t] EXCEPT !.files = Tail(@), !.st = 0]
               y == Resume(x)
    <2>1. Goto(t, y) /\ stamp' = stamp /\ stamp[f] = th[t].st
      BY <1>2, <1>3 DEF Check, Skips
    <2>2. IsRec(x) /\ x.files = Tail(th[t].files) /\ x.fresh = th[t].fresh
      BY <1>1 DEF IsRec, Fields
    <2> HIDE DEF x
    <2>3. IsRec(y) /\ y.files = Tail(th[t].files) /\ y.fresh = th[t].fresh
      BY <2>2, ResumeRec
    <2>4. Left(y) /\ y.at \notin {"check", "read"}
      BY <1>1, <1>2, <2>2, LeftResume DEF Left
    <2> HIDE DEF y
    <2>5. ThOK' /\ th'[t] = y /\ \A s \in Threads \ {t} : th'[s] = th[s]
      BY <2>1, <2>3, GotoThread DEF FileInv
    <2>6. \A g : \A s \in Threads : Reads(s, g)' <=> Reads(s, g)
      BY <1>1, <2>4, <2>5 DEF Reads
    <2>7. \A g : Covered(g)' <=> Covered(g)
      BY <1>1, <2>6 DEF Covered, Known
    <2>8. f \in th[t].fresh => Covered(f)
      BY <1>1, <1>2, <2>1 DEF Passed, FileInv
    <2>9. \A s \in Threads : Passed(s)'
      BY <1>1, <1>2, <2>3, <2>4, <2>5, <2>7, <2>8 DEF Passed, FileInv
    <2>10. \A s \in Threads : Left(th'[s])
      BY <2>4, <2>5 DEF FileInv
    <2>11. FilesOK'
      BY <1>1, <2>1 DEF FileInv, FilesOK
    <2> QED BY <1>1, <2>1, <2>5, <2>7, <2>9, <2>10, <2>11 DEF FileInv
  <1>4. CASE ~Skips(f, th[t].st)
    <2> DEFINE y == [th[t] EXCEPT !.at = "read"]
    <2>1. Goto(t, y) /\ stamp' = [stamp EXCEPT ![f] = th[t].st]
      BY <1>2, <1>4 DEF Check
    <2>2. IsRec(y) /\ y.at = "read" /\ y.files = th[t].files /\ y.fresh = th[t].fresh
      BY <1>1 DEF IsRec, Fields
    <2> HIDE DEF y
    <2>3. ThOK' /\ th'[t] = y /\ \A s \in Threads \ {t} : th'[s] = th[s]
      BY <2>1, <2>2, GotoThread DEF FileInv
    <2>4. \A g : \A s \in Threads : Reads(s, g) => Reads(s, g)'
      BY <1>1, <2>3 DEF Reads
    <2>5. \A g : Covered(g) => Covered(g)'
      BY <1>1, <2>4 DEF Covered, Known
    <2>6. Covered(f)'
      BY <1>2, <2>2, <2>3 DEF Covered, Reads
    <2>7. \A s \in Threads : Passed(s)'
      BY <1>1, <2>2, <2>3, <2>5 DEF Passed, FileInv
    <2>8. \A s \in Threads : Left(th'[s])
      BY <1>1, <2>2, <2>3 DEF FileInv, Left
    <2>9. FilesOK' /\ \A g \in ToSet(Files) \ {f} : stamp'[g] = stamp[g]
      BY <1>1, <2>1 DEF FileInv, FilesOK
    <2> QED BY <1>1, <2>3, <2>5, <2>6, <2>7, <2>8, <2>9 DEF FileInv
  <1> QED BY <1>3, <1>4

\* The file is read, after its time was looked up.
LEMMA FileRead ==
  ASSUME FileInv, NEW t \in Threads, ReadFile(t)
  PROVE  FileInv'
  <1>1. /\ th[t].at = "read" /\ IsRec(th[t]) /\ Left(th[t]) /\ Passed(t)
        /\ content' = content /\ mtime' = mtime /\ stamp' = stamp /\ settled' = settled
    BY DEF ReadFile, At, FileInv, ThOK
  <1>2. PICK f \in ToSet(Files) : /\ f = Head(th[t].files) /\ Tail(th[t].files) \in Seq(ToSet(Files))
                                  /\ ToSet(th[t].files) = {f} \cup ToSet(Tail(th[t].files))
    BY <1>1, HeadAndTail DEF Left
  <1>3. PICK ms : Goto(t, Resume([th[t] EXCEPT !.files = Tail(@), !.st = 0, !.members = ms]))
    BY DEF ReadFile
  <1> DEFINE x == [th[t] EXCEPT !.files = Tail(@), !.st = 0, !.members = ms]
             y == Resume(x)
  <1>4. IsRec(x) /\ x.files = Tail(th[t].files) /\ x.fresh = th[t].fresh
    BY <1>1 DEF IsRec, Fields
  <1>5. Goto(t, y)
    BY <1>3
  <1> HIDE DEF x
  <1>6. IsRec(y) /\ y.files = Tail(th[t].files) /\ y.fresh = th[t].fresh
    BY <1>4, ResumeRec
  <1>7. Left(y) /\ y.at \notin {"check", "read"}
    BY <1>1, <1>2, <1>4, LeftResume DEF Left
  <1> HIDE DEF y
  <1>8. ThOK' /\ th'[t] = y /\ \A s \in Threads \ {t} : th'[s] = th[s]
    BY <1>5, <1>6, GotoThread DEF FileInv
  <1>9. /\ seen' = [seen EXCEPT ![f] = content[f]]
        /\ sameTime' = [sameTime EXCEPT ![f] = FALSE]
    BY <1>2 DEF ReadFile
  <1>10. Known(f)'
    BY <1>1, <1>9 DEF Known, FileInv, FilesOK
  <1>11. \A g \in ToSet(Files) \ {f} : Known(g)' <=> Known(g)
    BY <1>1, <1>9 DEF Known, FileInv, FilesOK
  <1>12. \A s \in Threads, g \in ToSet(Files) \ {f} : Reads(s, g) => Reads(s, g)'
    BY <1>2, <1>8 DEF Reads
  <1>13. \A g \in ToSet(Files) : Covered(g) => Covered(g)'
    BY <1>10, <1>11, <1>12 DEF Covered
  <1>14. Covered(f)'
    BY <1>10 DEF Covered
  <1>15. \A s \in Threads : Passed(s)'
    <2>1. \A s \in Threads : th[s].fresh \subseteq ToSet(Files)
      BY DEF FileInv, Left
    <2> QED BY <2>1, <1>1, <1>2, <1>6, <1>7, <1>8, <1>13, <1>14 DEF Passed, FileInv
  <1>16. \A s \in Threads : Left(th'[s])
    BY <1>7, <1>8 DEF FileInv
  <1>17. FilesOK'
    BY <1>1, <1>9 DEF FileInv, FilesOK
  <1>18. \A g \in settled : g \in ToSet(Files)
    BY DEF FileInv, FilesOK
  <1> QED BY <1>1, <1>8, <1>13, <1>15, <1>16, <1>17, <1>18 DEF FileInv

\* The end of LoadFromConfDir().
LEMMA FileLoaded ==
  ASSUME FileInv, NEW t \in Threads, Loaded(t)
  PROVE  FileInv'
  <1>1. /\ th[t].at = "loaded" /\ IsRec(th[t]) /\ Left(th[t]) /\ Passed(t) /\ Goto(t, Idle)
        /\ content' = content /\ mtime' = mtime /\ stamp' = stamp /\ sameTime' = sameTime
        /\ seen' = seen /\ settled' = settled \cup th[t].fresh
    BY DEF Loaded, At, FileInv, ThOK
  <1>2. ThOK' /\ th'[t] = Idle /\ \A s \in Threads \ {t} : th'[s] = th[s]
    BY <1>1, IdleRec, GotoThread DEF FileInv
  <1>3. \A g : \A s \in Threads : Reads(s, g)' <=> Reads(s, g)
    BY <1>1, <1>2, IdleRec DEF Reads
  <1>4. \A g : Covered(g)' <=> Covered(g)
    BY <1>1, <1>3 DEF Covered, Known
  <1>5. Left(Idle)
    BY IdleRec DEF Left
  <1>6. \A f \in th[t].fresh : Covered(f)
    BY <1>1 DEF Left, Passed, ToSet
  <1>7. \A s \in Threads : Left(th'[s]) /\ Passed(s)'
    BY <1>1, <1>2, <1>4, <1>5, IdleRec DEF FileInv, Passed
  <1>8. FilesOK'
    BY <1>1 DEF FileInv, FilesOK, Left
  <1> QED BY <1>1, <1>2, <1>4, <1>6, <1>7, <1>8 DEF FileInv

\* LoadFromConfDir() lists the files.
LEMMA FileLoad ==
  ASSUME FileInv, NEW t \in Threads, LoadFromConfDir(t)
  PROVE  FileInv'
  <1> DEFINE x == [th[t] EXCEPT !.load = TRUE, !.files = Files, !.fresh = ToSet(Files)]
             y == Resume(x)
  <1>1. th[t].at = "idle" /\ IsRec(th[t]) /\ Goto(t, y) /\ fileVars' = fileVars
    BY DEF LoadFromConfDir, Call, FileInv, ThOK
  <1>2. IsRec(x) /\ x.files = Files /\ x.fresh = ToSet(Files)
    BY <1>1 DEF IsRec, Fields
  <1> HIDE DEF x
  <1>3. IsRec(y) /\ y.files = Files /\ y.fresh = ToSet(Files)
    BY <1>2, ResumeRec
  <1>4. Left(y) /\ y.at \notin {"check", "read"}
    BY <1>2, LeftResume, ConfigConstants
  <1> HIDE DEF y
  <1>5. ThOK' /\ th'[t] = y /\ \A s \in Threads \ {t} : th'[s] = th[s]
    BY <1>1, <1>3, GotoThread DEF FileInv
  <1>6. \A g : \A s \in Threads : Reads(s, g)' <=> Reads(s, g)
    BY <1>1, <1>4, <1>5 DEF Reads
  <1>7. \A g : Covered(g)' <=> Covered(g)
    BY <1>1, <1>6 DEF Covered, Known, fileVars
  <1>8. \A s \in Threads : Left(th'[s]) /\ Passed(s)'
    BY <1>1, <1>3, <1>4, <1>5, <1>7 DEF FileInv, Passed, fileVars
  <1>9. FilesOK'
    BY <1>1 DEF FileInv, FilesOK, fileVars
  <1> QED BY <1>1, <1>5, <1>7, <1>8, <1>9 DEF FileInv, fileVars

\* An edit takes the file back from those who had passed it; an edit that gives it the
\* recorded time is the one that is missed.
LEMMA FileEdit ==
  ASSUME FileInv, NEW f \in ToSet(Files), NEW c, NEW m, Edit(f, c, m)
  PROVE  FileInv'
  <1>1. /\ th' = [t \in Threads |-> [th[t] EXCEPT !.fresh = @ \ {f}]]
        /\ content' = [content EXCEPT ![f] = c] /\ mtime' = [mtime EXCEPT ![f] = m]
        /\ sameTime' = [sameTime EXCEPT ![f] = m = stamp[f]] /\ settled' = settled \ {f}
        /\ stamp' = stamp /\ seen' = seen
    BY DEF Edit
  <1>2. \A s \in Threads : IsRec(th[s])
    BY DEF FileInv, ThOK
  <1>3. \A s \in Threads : /\ IsRec(th'[s]) /\ th'[s].at = th[s].at /\ th'[s].files = th[s].files
                           /\ th'[s].st = th[s].st /\ th'[s].fresh = th[s].fresh \ {f}
    BY <1>1, <1>2 DEF IsRec, Fields
  <1>4. ThOK'
    BY <1>1, <1>3 DEF ThOK
  <1>5. \A g : \A s \in Threads : Reads(s, g)' <=> Reads(s, g)
    BY <1>3 DEF Reads
  <1>6. \A g \in ToSet(Files) \ {f} : Known(g)' <=> Known(g)
    BY <1>1 DEF Known, FileInv, FilesOK
  <1>7. \A g \in ToSet(Files) \ {f} : Covered(g)' <=> Covered(g)
    BY <1>5, <1>6 DEF Covered
  <1>8. \A g \in ToSet(Files) \ {f} : mtime'[g] = mtime[g]
    BY <1>1 DEF FileInv, FilesOK
  <1>9. stamp'[f] = mtime'[f] => Covered(f)'
    BY <1>1 DEF Covered, Known, FileInv, FilesOK
  <1>10. \A s \in Threads : Left(th'[s])
    BY <1>3 DEF FileInv, Left
  <1>11. \A s \in Threads : Passed(s)'
    BY <1>3, <1>7, <1>8, <1>10 DEF FileInv, Passed, Left
  <1>12. FilesOK'
    BY <1>1 DEF FileInv, FilesOK
  <1> QED BY <1>1, <1>4, <1>7, <1>8, <1>9, <1>10, <1>11, <1>12 DEF FileInv, FilesOK

\* Steps that change no thread and no file.
LEMMA FileRest ==
  ASSUME FileInv, th' = th, fileVars' = fileVars
  PROVE  FileInv'
  <1>1. \A f : Covered(f)' <=> Covered(f)
    BY DEF Covered, Known, Reads, fileVars
  <1> QED BY <1>1 DEF FileInv, ThOK, FilesOK, Passed, fileVars

\* The steps of a call in progress.
LEMMA FileProceed ==
  ASSUME FileInv, NEW t \in Threads, Proceed(t)
  PROVE  FileInv'
  <1>1. IsRec(th[t]) /\ Left(th[t])
    BY DEF FileInv, ThOK
  <1>2. CASE Tell(t)
    <2>1. PICK d : \E w : Goto(t, [th[t] EXCEPT !.todo = d, !.work = w])
      BY <1>2 DEF Tell
    <2>2. PICK w : Goto(t, [th[t] EXCEPT !.todo = d, !.work = w])
      BY <2>1
    <2> DEFINE x == [th[t] EXCEPT !.todo = d, !.work = w]
    <2>3. IsRec(x) /\ x.at = th[t].at /\ x.files = th[t].files /\ x.fresh = th[t].fresh
      BY <1>1 DEF IsRec, Fields
    <2>4. Goto(t, x) /\ th[t].at = "notify" /\ fileVars' = fileVars
      BY <2>2, <1>2 DEF Tell, At
    <2> HIDE DEF x
    <2> QED BY <1>1, <2>3, <2>4, FileMove DEF Left
  <1>3. CASE ConfigureLogger(t)
    <2>1. PICK w : Goto(t, [th[t] EXCEPT !.work = w])
      BY <1>3 DEF ConfigureLogger
    <2> DEFINE x == [th[t] EXCEPT !.work = w]
    <2>2. IsRec(x) /\ x.at = th[t].at /\ x.files = th[t].files /\ x.fresh = th[t].fresh
      BY <1>1 DEF IsRec, Fields
    <2>3. Goto(t, x) /\ th[t].at = "notify" /\ fileVars' = fileVars
      BY <2>1, <1>3 DEF ConfigureLogger, At
    <2> HIDE DEF x
    <2> QED BY <1>1, <2>2, <2>3, FileMove DEF Left
  <1>4. CASE Unlock(t)
    <2> DEFINE x == [th[t] EXCEPT !.at = "write"]
    <2>1. IsRec(x) /\ x.at = "write" /\ x.files = th[t].files /\ x.fresh = th[t].fresh
      BY <1>1 DEF IsRec, Fields
    <2>2. Goto(t, x) /\ th[t].at = "notify" /\ fileVars' = fileVars
      BY <1>4 DEF Unlock, At
    <2> HIDE DEF x
    <2> QED BY <1>1, <2>1, <2>2, FileMove DEF Left
  <1>5. CASE Store(t)
    <2>1. Goto(t, Resume(th[t])) /\ th[t].at = "write" /\ fileVars' = fileVars
      BY <1>5 DEF Store, At
    <2>2. Left(Resume(th[t])) /\ Resume(th[t]).at \notin {"check", "read"}
      BY <1>1, LeftResume DEF Left
    <2>3. /\ IsRec(Resume(th[t])) /\ Resume(th[t]).files = th[t].files
          /\ Resume(th[t]).fresh = th[t].fresh
      BY <1>1, ResumeRec
    <2> QED BY <2>1, <2>2, <2>3, FileMove
  <1>6. CASE WriteLog(t)
    \* An idle thread has passed no file.
    <2>1. Goto(t, Idle) /\ th[t].at = "log" /\ fileVars' = fileVars
      BY <1>6 DEF WriteLog, At
    <2>2. ThOK' /\ th'[t] = Idle /\ \A s \in Threads \ {t} : th'[s] = th[s]
      BY <2>1, IdleRec, GotoThread DEF FileInv
    <2>3. \A g : \A s \in Threads : Reads(s, g)' <=> Reads(s, g)
      BY <2>1, <2>2, IdleRec DEF Reads
    <2>4. \A g : Covered(g)' <=> Covered(g)
      BY <2>1, <2>3 DEF Covered, Known, fileVars
    <2>5. Left(Idle)
      BY IdleRec DEF Left
    <2>6. \A s \in Threads : Left(th'[s]) /\ Passed(s)'
      BY <2>1, <2>2, <2>4, <2>5, IdleRec DEF FileInv, Passed, fileVars
    <2>7. FilesOK'
      BY <2>1 DEF FileInv, FilesOK, fileVars
    <2> QED BY <2>1, <2>2, <2>4, <2>6, <2>7 DEF FileInv, fileVars
  <1>7. CASE Stat(t)
    BY <1>7, FileStat
  <1>8. CASE Check(t)
    BY <1>8, FileCheck
  <1>9. CASE ReadFile(t)
    BY <1>9, FileRead
  <1>10. CASE LoadMember(t)
    <2> DEFINE x == [th[t] EXCEPT !.members = Tail(@)]
               m == Head(th[t].members)
    <2>1. IsRec(x) /\ x.files = th[t].files /\ x.fresh = th[t].fresh
      BY <1>1 DEF IsRec, Fields
    <2>2. th[t].at = "members" /\ fileVars' = fileVars
      BY <1>10 DEF LoadMember, At
    <2>3. (\E v : BeginSet(t, x, m.name, v)) \/ Goto(t, Resume(x))
      BY <1>10 DEF LoadMember
    <2> HIDE DEF x, m
    <2>4. /\ IsRec(Resume(x)) /\ Resume(x).files = th[t].files /\ Resume(x).fresh = th[t].fresh
          /\ Left(Resume(x)) /\ Resume(x).at \notin {"check", "read"}
      BY <1>1, <2>1, ResumeRec, LeftResume DEF Left
    <2> QED BY <2>1, <2>2, <2>3, <2>4, FileMove, FileBegin
  <1>11. CASE Loaded(t)
    BY <1>11, FileLoaded
  <1> QED
    BY <1>2, <1>3, <1>4, <1>5, <1>6, <1>7, <1>8, <1>9, <1>10, <1>11 DEF Proceed

\* The first step of a call.
LEMMA FileBeginCall ==
  ASSUME FileInv, NEW t \in Threads, Begin(t)
  PROVE  FileInv'
  <1>1. IsRec(th[t]) /\ Left(th[t])
    BY DEF FileInv, ThOK
  <1>2. ASSUME NEW n \in VarNames,
               Lookup(t, n) \/ AddListener(t, n) \/ DelListener(t, n) \/ ClearListener(t, n)
        PROVE  FileInv'
    <2>1. th' = th /\ fileVars' = fileVars
      BY <1>2 DEF Lookup, AddListener, DelListener, ClearListener, DelListeners
    <2> QED BY <2>1, FileRest
  <1>3. ASSUME NEW x \in Texts, FromString(t, x) PROVE FileInv'
    <2>1. th[t].at = "idle" /\ fileVars' = fileVars
      BY <1>3 DEF FromString, Call
    <2>2. (\E v : BeginSet(t, th[t], x.name, v)) \/ th' = th
      BY <1>3 DEF FromString
    <2> QED BY <1>1, <2>1, <2>2, FileBegin, FileRest
  <1>4. ASSUME NEW n \in Loggers, NEW level, Log(t, n, level) PROVE FileInv'
    <2> DEFINE x == [th[t] EXCEPT !.at = "log", !.name = n, !.level = level]
    <2>1. fileVars' = fileVars /\ th[t].at = "idle" /\ (th' = th \/ Goto(t, x))
      BY <1>4 DEF Log, Call
    <2>2. IsRec(x) /\ x.at = "log" /\ x.files = th[t].files /\ x.fresh = th[t].fresh
      BY <1>1 DEF IsRec, Fields
    <2> HIDE DEF x
    <2>3. Left(x)
      BY <1>1, <2>2 DEF Left
    <2> QED BY <2>1, <2>2, <2>3, FileMove, FileRest
  <1>5. ASSUME NEW n \in Loggers, AddAppender(t, n) \/ DelAppender(t, n) \/ \E p \in Formats : SetFormatter(t, n, p)
        PROVE  FileInv'
    <2>1. fileVars' = fileVars /\ th' = th
      BY <1>5 DEF AddAppender, DelAppender, SetFormatter
    <2> QED BY <2>1, FileRest
  <1>6. CASE LoadFromConfDir(t)
    BY <1>6, FileLoad
  <1> QED BY <1>2, <1>3, <1>4, <1>5, <1>6 DEF Begin

\* Every step keeps what is known of the files.
LEMMA FileNext == FileInv /\ [Next]_vars => FileInv'
  <1> SUFFICES ASSUME FileInv, [Next]_vars PROVE FileInv'
    OBVIOUS
  <1>1. ASSUME NEW t \in Threads, Proceed(t) PROVE FileInv'
    BY <1>1, FileProceed
  <1>2. ASSUME NEW t \in Threads, Begin(t) PROVE FileInv'
    BY <1>2, FileBeginCall
  <1>3. ASSUME NEW f \in ToSet(Files), NEW c, NEW m, Edit(f, c, m) PROVE FileInv'
    BY <1>3, FileEdit
  <1>4. CASE UNCHANGED vars
    BY <1>4, FileRest DEF vars
  <1> QED BY <1>1, <1>2, <1>3, <1>4 DEF Next

\* Once a LoadFromConfDir that began after the last edit of a file is over and no other is
\* under way, the content of the file was read, unless the edit gave it the recorded time:
\* the time is taken before the lock and compared under it, by any number of threads.
THEOREM ConfigEditsSeen == Spec => []EditsSeen
  <1>1. FileInv => EditsSeen
    BY DEF FileInv, Covered, Known, Reads, EditsSeen, Quiet
  <1> QED BY <1>1, FileInit, FileNext, PTL DEF Spec

(***************************************************************************)
(* The loggers and their appenders                                         *)
(***************************************************************************)
IsSeq(s) == s \in Seq(ToSet(s))

\* The elements of a sequence, by their places.
LEMMA ElementsIn == ASSUME NEW S, NEW s \in Seq(S) PROVE IsSeq(s)
  BY DEF IsSeq, ToSet

\* Appending leaves every element at its place.
LEMMA SeqAppend ==
  ASSUME NEW s, IsSeq(s), NEW a
  PROVE  /\ IsSeq(Append(s, a))
         /\ \A i \in DOMAIN s : i \in DOMAIN Append(s, a) /\ Append(s, a)[i] = s[i]
         /\ \A i \in DOMAIN Append(s, a) : Append(s, a)[i] = a \/ (i \in DOMAIN s /\ Append(s, a)[i] = s[i])
  <1> DEFINE S == ToSet(s) \cup {a}
  <1>1. s \in Seq(S)
    BY DEF IsSeq, ToSet
  <1> HIDE DEF S
  <1>2. Append(s, a) \in Seq(S)
    BY <1>1 DEF S
  <1>3. IsSeq(Append(s, a))
    BY <1>2, ElementsIn
  <1> QED BY <1>1, <1>2, <1>3

\* Removing one leaves every other element.
LEMMA SeqRemove ==
  ASSUME NEW s, IsSeq(s), NEW i \in DOMAIN s
  PROVE  /\ IsSeq(RemoveAt(s, i))
         /\ \A j \in DOMAIN RemoveAt(s, i) : \E k \in DOMAIN s : RemoveAt(s, i)[j] = s[k]
         /\ \A k \in DOMAIN s \ {i} : \E j \in DOMAIN RemoveAt(s, i) : RemoveAt(s, i)[j] = s[k]
  <1> DEFINE S == ToSet(s)
             a == SubSeq(s, 1, i - 1)
             b == SubSeq(s, i + 1, Len(s))
  <1>1. s \in Seq(S) /\ Len(s) \in Nat /\ DOMAIN s = 1..Len(s) /\ i \in 1..Len(s)
    BY DEF IsSeq
  <1> HIDE DEF S
  <1>2. a \in Seq(S) /\ Len(a) = i - 1 /\ \A j \in 1..(i - 1) : a[j] = s[j]
    BY <1>1
  <1>3. b \in Seq(S) /\ Len(b) = Len(s) - i /\ \A j \in 1..(Len(s) - i) : b[j] = s[i + j]
    BY <1>1
  <1> HIDE DEF a, b
  <1>4. /\ a \o b \in Seq(S) /\ DOMAIN (a \o b) = 1..(Len(s) - 1)
        /\ \A j \in 1..(Len(s) - 1) : (a \o b)[j] = IF j < i THEN s[j] ELSE s[j + 1]
    <2>0. a \o b \in Seq(S) /\ Len(a \o b) = Len(a) + Len(b)
      BY <1>2, <1>3, ConcatProperties
    <2>1. a \o b \in Seq(S) /\ Len(a \o b) = Len(s) - 1
      BY <2>0, <1>1, <1>2, <1>3
    <2>2. \A j \in 1..(Len(s) - 1) : (a \o b)[j] = IF j <= i - 1 THEN a[j] ELSE b[j - (i - 1)]
      BY <1>1, <1>2, <1>3
    <2>3. ASSUME NEW j \in 1..(Len(s) - 1) PROVE (a \o b)[j] = IF j < i THEN s[j] ELSE s[j + 1]
      <3>1. CASE j < i
        BY <3>1, <2>2, <1>1, <1>2
      <3>2. CASE ~(j < i)
        <4>1. j - (i - 1) \in 1..(Len(s) - i) /\ i + (j - (i - 1)) = j + 1
          BY <3>2, <1>1
        <4>2. b[j - (i - 1)] = s[j + 1]
          BY <4>1, <1>3
        <4>3. ~(j <= i - 1)
          BY <3>2, <1>1
        <4> QED BY <3>2, <4>2, <4>3, <2>2
      <3> QED BY <3>1, <3>2
    <2>4. DOMAIN (a \o b) = 1..(Len(s) - 1)
      BY <2>1, <1>1
    <2> QED BY <2>1, <2>3, <2>4
  <1>5. RemoveAt(s, i) = a \o b
    BY DEF RemoveAt, a, b
  <1> DEFINE r == RemoveAt(s, i)
  <1>6. /\ r \in Seq(S) /\ DOMAIN r = 1..(Len(s) - 1)
        /\ \A j \in 1..(Len(s) - 1) : r[j] = IF j < i THEN s[j] ELSE s[j + 1]
    BY <1>4, <1>5
  <1> HIDE DEF r
  <1>7. IsSeq(r)
    BY <1>6, ElementsIn
  <1>8. \A j \in DOMAIN r : \E k \in DOMAIN s : r[j] = s[k]
    <2> SUFFICES ASSUME NEW j \in DOMAIN r PROVE \E k \in DOMAIN s : r[j] = s[k]
      OBVIOUS
    <2>1. j \in DOMAIN s /\ j + 1 \in DOMAIN s
      BY <1>1, <1>6
    <2> QED BY <1>6, <2>1
  <1>9. \A k \in DOMAIN s \ {i} : \E j \in DOMAIN r : r[j] = s[k]
    <2> SUFFICES ASSUME NEW k \in DOMAIN s \ {i} PROVE \E j \in DOMAIN r : r[j] = s[k]
      OBVIOUS
    <2>1. CASE k < i
      <3>1. k \in DOMAIN r /\ r[k] = s[k]
        BY <1>1, <1>6, <2>1
      <3> QED BY <3>1
    <2>2. CASE k > i
      <3>1. k - 1 \in DOMAIN r /\ r[k - 1] = s[k]
        BY <1>1, <1>6, <2>2
      <3> QED BY <3>1
    <2> QED BY <1>1, <2>1, <2>2
  <1> QED BY <1>7, <1>8, <1>9 DEF r

AppenderFields == {"type", "file", "level", "m_hasFormatter", "m_formatter", "back"}

\* An appender as the program or the configuration makes it: every event gets through it.
Loose(a) ==
    /\ DOMAIN a = AppenderFields /\ a = [k \in AppenderFields |-> a[k]]
    /\ a.m_hasFormatter \in BOOLEAN /\ a.back \in BOOLEAN
    /\ a.level \in {UNKNOW, DEBUG}

\* An appender in a logger whose formatter is p.
Fits(a, p) ==
    /\ Loose(a) /\ a.m_formatter # None
    /\ (~a.m_hasFormatter /\ ~a.back) => a.m_formatter = p

LoggerFields == {"made", "m_level", "m_formatter", "m_appenders"}
LoggerOK(l) ==
    /\ DOMAIN l = LoggerFields /\ l = [k \in LoggerFields |-> l[k]]
    /\ l.m_formatter # None /\ ~isError(l.m_formatter)
    /\ IsSeq(l.m_appenders)
    /\ \A i \in DOMAIN l.m_appenders : Fits(l.m_appenders[i], l.m_formatter)

\* The root logger keeps its level, and the appender it was made with.
RootOK(l) == l.m_level = DEBUG /\ \E i \in DOMAIN l.m_appenders : l.m_appenders[i].type = 2

\* A new appender lets every event through.
LEMMA NewAppenderLoose == ASSUME NEW type, NEW file PROVE Loose(NewAppender(type, file))
  BY DEF Loose, NewAppender, AppenderFields, DEBUG

\* So does one that a definition makes.
LEMMA AppenderLoose == ASSUME NEW a, a.level = UNKNOW PROVE Loose(Appender(a))
  <1> DEFINE new == [NewAppender(a.type, a.file) EXCEPT !.level = a.level]
  <1>1. Loose(new)
    BY DEF Loose, NewAppender, AppenderFields, DEBUG, UNKNOW
  <1>2. Loose([new EXCEPT !.m_formatter = a.formatter, !.m_hasFormatter = a.formatter # None])
    BY <1>1 DEF Loose, AppenderFields
  <1> QED BY <1>1, <1>2 DEF Appender, appenderSetFormatter

\* setFormatter() of a logger hands the pattern on to its appenders.
LEMMA SetPatternOK ==
  ASSUME NEW l, LoggerOK(l), NEW p, p # None
  PROVE  LoggerOK(setPattern(l, p)) /\ (RootOK(l) => RootOK(setPattern(l, p)))
  <1>1. CASE isError(p)
    BY <1>1 DEF setPattern
  <1>2. CASE ~isError(p)
    <2> DEFINE as == l.m_appenders
               r == [i \in DOMAIN as |->
                        IF as[i].m_hasFormatter THEN as[i] ELSE [as[i] EXCEPT !.m_formatter = p]]
               y == [l EXCEPT !.m_formatter = p, !.m_appenders = r]
    <2>1. setPattern(l, p) = y
      BY <1>2 DEF setPattern, setFormatter
    <2>2. y.m_level = l.m_level /\ y.m_formatter = p /\ y.m_appenders = r
          /\ DOMAIN y = LoggerFields /\ y = [k \in LoggerFields |-> y[k]]
      BY DEF LoggerOK, LoggerFields
    <2>3. \A i \in DOMAIN as : Fits(as[i], l.m_formatter)
      BY DEF LoggerOK
    <2>4. \A i \in DOMAIN as : Fits(r[i], p) /\ r[i].type = as[i].type
      <3> SUFFICES ASSUME NEW i \in DOMAIN as PROVE Fits(r[i], p) /\ r[i].type = as[i].type
        OBVIOUS
      <3>1. Fits(as[i], l.m_formatter)
        BY <2>3
      <3>2. CASE as[i].m_hasFormatter
        BY <3>1, <3>2 DEF Fits
      <3>3. CASE ~as[i].m_hasFormatter
        <4> DEFINE b == [as[i] EXCEPT !.m_formatter = p]
        <4>1. r[i] = b
          BY <3>3
        <4>2. Loose(b) /\ b.m_formatter = p /\ b.type = as[i].type
          BY <3>1 DEF Fits, Loose, AppenderFields
        <4> QED BY <4>1, <4>2 DEF Fits
      <3> QED BY <3>2, <3>3
    <2>5. DOMAIN r = DOMAIN as
      OBVIOUS
    <2>6. r \in Seq(ToSet(r))
      <3>1. as \in Seq(ToSet(as))
        BY DEF LoggerOK, IsSeq
      <3>2. \A i \in DOMAIN r : r[i] \in ToSet(r)
        BY DEF ToSet
      <3>3. PICK n \in Nat : DOMAIN as = 1..n
        BY <3>1
      <3>4. r \in [1..n -> ToSet(r)]
        BY <2>5, <3>2, <3>3
      <3> HIDE DEF r
      <3> QED BY <3>3, <3>4
    <2> HIDE DEF r
    <2>7. LoggerOK(y)
      BY <1>2, <2>2, <2>4, <2>5, <2>6 DEF LoggerOK, IsSeq
    <2>8. RootOK(l) => RootOK(y)
      BY <2>2, <2>4, <2>5 DEF RootOK
    <2> QED BY <2>1, <2>7, <2>8
  <1> QED BY <1>1, <1>2

\* addAppender() gives the logger's formatter to an appender without one.
LEMMA AddAppenderOK ==
  ASSUME NEW l, LoggerOK(l), NEW a, Loose(a)
  PROVE  LoggerOK(addAppender(l, a)) /\ (RootOK(l) => RootOK(addAppender(l, a)))
  <1> DEFINE b == IF a.m_formatter = None THEN [a EXCEPT !.m_formatter = l.m_formatter]
                  ELSE [a EXCEPT !.back = ~a.m_hasFormatter]
             s == Append(l.m_appenders, b)
             y == [l EXCEPT !.m_appenders = s]
  <1>1. addAppender(l, a) = y
    BY DEF addAppender
  <1>2. Fits(b, l.m_formatter)
    <2>1. CASE a.m_formatter = None
      BY <2>1 DEF LoggerOK, Fits, Loose, AppenderFields
    <2>2. CASE a.m_formatter # None
      <3> DEFINE c == [a EXCEPT !.back = ~a.m_hasFormatter]
      <3>1. c.m_formatter = a.m_formatter /\ c.m_hasFormatter = a.m_hasFormatter /\ c.level = a.level
            /\ c.back = ~a.m_hasFormatter
            /\ DOMAIN c = AppenderFields /\ c = [k \in AppenderFields |-> c[k]]
        BY DEF Loose, AppenderFields
      <3>2. b = c
        BY <2>2
      <3> HIDE DEF c, b
      <3> QED BY <2>2, <3>1, <3>2 DEF Fits, Loose
    <2> QED BY <2>1, <2>2
  <1> HIDE DEF b
  <1>3. /\ IsSeq(s)
        /\ \A i \in DOMAIN l.m_appenders : i \in DOMAIN s /\ s[i] = l.m_appenders[i]
        /\ \A i \in DOMAIN s : s[i] = b \/ (i \in DOMAIN l.m_appenders /\ s[i] = l.m_appenders[i])
    BY SeqAppend DEF LoggerOK
  <1> HIDE DEF s
  <1>4. /\ y.m_level = l.m_level /\ y.m_formatter = l.m_formatter /\ y.m_appenders = s
        /\ DOMAIN y = LoggerFields /\ y = [k \in LoggerFields |-> y[k]]
    BY DEF LoggerOK, LoggerFields
  <1> HIDE DEF y
  <1>5. LoggerOK(y)
    BY <1>2, <1>3, <1>4 DEF LoggerOK
  <1>6. RootOK(l) => RootOK(y)
    BY <1>3, <1>4 DEF RootOK
  <1> QED BY <1>1, <1>5, <1>6

\* delAppender() leaves the other appenders as they are.
LEMMA DelAppenderOK ==
  ASSUME NEW l, LoggerOK(l), NEW i \in DOMAIN l.m_appenders, l.m_appenders[i].type = 3
  PROVE  LoggerOK(delAppender(l, i)) /\ (RootOK(l) => RootOK(delAppender(l, i)))
  <1> DEFINE s == RemoveAt(l.m_appenders, i)
             y == [l EXCEPT !.m_appenders = s]
  <1>1. delAppender(l, i) = y
    BY DEF delAppender
  <1>2. /\ IsSeq(s)
        /\ \A j \in DOMAIN s : \E k \in DOMAIN l.m_appenders : s[j] = l.m_appenders[k]
        /\ \A k \in DOMAIN l.m_appenders \ {i} : \E j \in DOMAIN s : s[j] = l.m_appenders[k]
    BY SeqRemove DEF LoggerOK
  <1> HIDE DEF s
  <1>3. /\ y.m_level = l.m_level /\ y.m_formatter = l.m_formatter /\ y.m_appenders = s
        /\ DOMAIN y = LoggerFields /\ y = [k \in LoggerFields |-> y[k]]
    BY DEF LoggerOK, LoggerFields
  <1> HIDE DEF y
  <1>4. LoggerOK(y)
    BY <1>2, <1>3 DEF LoggerOK
  <1>5. RootOK(l) => RootOK(y)
    <2> SUFFICES ASSUME RootOK(l) PROVE RootOK(y)
      OBVIOUS
    <2>1. PICK k \in DOMAIN l.m_appenders : l.m_appenders[k].type = 2
      BY DEF RootOK
    <2>2. k # i
      BY <2>1
    <2>3. PICK j \in DOMAIN s : s[j] = l.m_appenders[k]
      BY <1>2, <2>2
    <2> QED BY <1>3, <2>1, <2>3 DEF RootOK
  <1> QED BY <1>1, <1>4, <1>5

\* The other changes of a logger: it is made, gets a level or loses its appenders.
LEMMA ChangeOK ==
  ASSUME NEW l, LoggerOK(l), NEW v
  PROVE  /\ LoggerOK([l EXCEPT !.made = TRUE]) /\ LoggerOK([l EXCEPT !.m_level = v])
         /\ LoggerOK(clearAppenders(l)) /\ (RootOK(l) => RootOK([l EXCEPT !.made = TRUE]))
  <1> DEFINE a == [l EXCEPT !.made = TRUE]
             b == [l EXCEPT !.m_level = v]
             c == [l EXCEPT !.m_appenders = <<>>]
  <1>1. /\ a.m_level = l.m_level /\ a.m_formatter = l.m_formatter /\ a.m_appenders = l.m_appenders
        /\ DOMAIN a = LoggerFields /\ a = [k \in LoggerFields |-> a[k]]
    BY DEF LoggerOK, LoggerFields
  <1>2. /\ b.m_formatter = l.m_formatter /\ b.m_appenders = l.m_appenders
        /\ DOMAIN b = LoggerFields /\ b = [k \in LoggerFields |-> b[k]]
    BY DEF LoggerOK, LoggerFields
  <1>3. /\ c.m_formatter = l.m_formatter /\ c.m_appenders = <<>>
        /\ DOMAIN c = LoggerFields /\ c = [k \in LoggerFields |-> c[k]]
    BY DEF LoggerOK, LoggerFields
  <1>4. IsSeq(<<>>)
    <2>1. <<>> \in Seq({})
      OBVIOUS
    <2> QED BY <2>1, ElementsIn
  <1>5. clearAppenders(l) = c
    BY DEF clearAppenders
  <1> HIDE DEF a, b, c
  <1>6. LoggerOK(a) /\ (RootOK(l) => RootOK(a))
    BY <1>1 DEF LoggerOK, RootOK
  <1>7. LoggerOK(b)
    BY <1>2 DEF LoggerOK
  <1>8. LoggerOK(c)
    BY <1>3, <1>4 DEF LoggerOK
  <1> QED BY <1>5, <1>6, <1>7, <1>8 DEF a, b

\* What the listener of the logs has still to do touches named loggers only, sets no empty
\* pattern and adds appenders that every event gets through.
OpOK(o) ==
    /\ o.name \in ToSet(Names)
    /\ o.op \in {"null", "level", "format", "clear", "add"}
    /\ o.op = "format" => o.arg # None
    /\ o.op = "add" => Loose(o.arg)

\* A value of "logs": no appender of a definition has a level of its own.
DefinesOK(v) == \A n \in DOMAIN v : \A k \in DOMAIN v[n].appenders : v[n].appenders[k].level = UNKNOW

LogThread(x) ==
    /\ \A o \in x.work : OpOK(o)
    /\ x.at = "notify" /\ x.name = Logs => DefinesOK(x.new)
    /\ x.at = "log" => x.name \in Loggers /\ x.level \in {DEBUG, FATAL}

LogInv ==
    /\ ThOK /\ \A t \in Threads : LogThread(th[t])
    /\ m_loggers = [n \in Loggers |-> m_loggers[n]]
    /\ \A n \in Loggers : LoggerOK(m_loggers[n])
    /\ RootOK(m_loggers[Root])
    /\ \A a \in own : Loose(a)

\* What the configuration parses into is a set of definitions.
LEMMA LogsValue == ASSUME NEW text PROVE DefinesOK(FromStr(KindOf[Logs], text).v)
  <1>1. FromStr("logs", text).v = LogsFromYaml(text)
    BY DEF FromStr
  <1>2. \A e : \A k \in DOMAIN LogDefine(e).appenders : LogDefine(e).appenders[k].level = UNKNOW
    BY DEF LogDefine, LogAppenderDefine
  <1>3. \A n \in DOMAIN LogsFromYaml(text) : \E e : LogsFromYaml(text)[n] = LogDefine(e)
    BY DEF LogsFromYaml
  <1>4. DefinesOK(LogsFromYaml(text))
    BY <1>2, <1>3 DEF DefinesOK
  <1> QED BY <1>1, <1>4, ConfigConstants

\* So what the listener of the loggers has to do is well formed.
LEMMA WorkOK ==
  ASSUME NEW old, NEW new, DefinesOK(new), NEW o \in LogIniter(old, new)
  PROVE  OpOK(o)
  <1> DEFINE gone == {j \in DOMAIN Names : Names[j] \in DOMAIN old \ DOMAIN new}
  <1>1. PICK i \in DOMAIN Names : /\ Names[i] \in DOMAIN new
                                  /\ o \in Configure(old, new, i) \cup RemoveOld(i, gone)
    BY DEF LogIniter
  <1>2. \A j \in DOMAIN Names : Names[j] \in ToSet(Names)
    BY DEF ToSet
  <1>3. CASE o \in RemoveOld(i, gone)
    BY <1>2, <1>3 DEF RemoveOld, Op, OpOK
  <1>4. CASE o \in Configure(old, new, i)
    <2> DEFINE n == Names[i]
               d == new[n]
    <2>1. \/ \E p, k, x : o = Op(i, p, k, "null", n, x) \/ o = Op(i, p, k, "level", n, x)
                          \/ o = Op(i, p, k, "clear", n, x)
          \/ \E p \in {d.formatter} \ {None} : o = Op(i, 2, 0, "format", n, p)
          \/ \E k \in DOMAIN d.appenders : o = Op(i, 4, k, "add", n, Appender(d.appenders[k]))
      BY <1>4 DEF Configure
    <2>2. CASE \E p, k, x : o = Op(i, p, k, "null", n, x) \/ o = Op(i, p, k, "level", n, x)
                            \/ o = Op(i, p, k, "clear", n, x)
      BY <1>2, <2>2 DEF Op, OpOK
    <2>3. CASE \E p \in {d.formatter} \ {None} : o = Op(i, 2, 0, "format", n, p)
      BY <1>2, <2>3 DEF Op, OpOK
    <2>4. ASSUME NEW k \in DOMAIN d.appenders, o = Op(i, 4, k, "add", n, Appender(d.appenders[k]))
          PROVE  OpOK(o)
      <3>1. d.appenders[k].level = UNKNOW
        BY <1>1 DEF DefinesOK
      <3>2. Loose(Appender(d.appenders[k]))
        BY <3>1, AppenderLoose
      <3> QED BY <1>2, <2>4, <3>2 DEF Op, OpOK
    <2> QED BY <2>1, <2>2, <2>3, <2>4
  <1> QED BY <1>1, <1>3, <1>4

\* At the start no logger has an appender.
LEMMA LogInit == Init => LogInv
  <1> SUFFICES ASSUME Init PROVE LogInv
    OBVIOUS
  <1>1. \A t \in Threads : th[t] = Idle
    BY DEF Init
  <1>2. ThOK
    BY <1>1, IdleRec DEF Init, ThOK
  <1>3. \A t \in Threads : LogThread(th[t])
    BY <1>1, IdleRec DEF LogThread
  <1>4. \A a \in own : Loose(a)
    BY NewAppenderLoose DEF Init
  <1>5. LoggerOK(NewLogger)
    <2>1. IsSeq(<<>>)
      <3>1. <<>> \in Seq({})
        OBVIOUS
      <3> QED BY <3>1, ElementsIn
    <2> QED BY <2>1, LogConstants DEF LoggerOK, NewLogger, LoggerFields, None
  <1> DEFINE l == [NewLogger EXCEPT !.made = TRUE]
             a == NewAppender(2, None)
  <1>6. LoggerOK(l) /\ l.m_level = DEBUG
    BY <1>5, ChangeOK DEF NewLogger
  <1>7. LoggerOK(addAppender(l, a))
    BY <1>6, AddAppenderOK, NewAppenderLoose
  <1>8. RootOK(addAppender(l, a))
    <2> DEFINE b == [a EXCEPT !.m_formatter = l.m_formatter]
    <2>1. addAppender(l, a) = [l EXCEPT !.m_appenders = Append(@, b)]
      BY DEF addAppender, NewAppender
    <2>2. l.m_appenders = <<>>
      BY DEF NewLogger
    <2>3. b.type = 2
      BY DEF NewAppender
    <2> HIDE DEF l, a, b
    <2>4. Append(<<>>, b) = <<b>>
      OBVIOUS
    <2>5. addAppender(l, a).m_level = DEBUG /\ addAppender(l, a).m_appenders = <<b>>
      BY <1>6, <2>1, <2>2, <2>4 DEF LoggerOK, LoggerFields
    <2>6. 1 \in DOMAIN <<b>> /\ <<b>>[1] = b
      OBVIOUS
    <2> QED BY <2>3, <2>5, <2>6 DEF RootOK
  <1>9. m_loggers = [n \in Loggers |-> IF n # Root THEN NewLogger ELSE addAppender(l, a)]
    BY DEF Init, LoggerManager
  <1>10. Root \in Loggers
    BY DEF Loggers
  <1> HIDE DEF l, a
  <1> QED BY <1>2, <1>3, <1>4, <1>5, <1>7, <1>8, <1>9, <1>10 DEF LogInv

\* A step of a thread that leaves the loggers alone.
LEMMA LogMove ==
  ASSUME LogInv, NEW t \in Threads, NEW x, IsRec(x), Goto(t, x), LogThread(x),
         m_loggers' = m_loggers, own' = own
  PROVE  LogInv'
  <1>1. ThOK' /\ th'[t] = x /\ \A s \in Threads \ {t} : th'[s] = th[s]
    BY GotoThread DEF LogInv
  <1> QED BY <1>1 DEF LogInv

\* A step that changes one logger.
LEMMA LogChange ==
  ASSUME LogInv, ThOK', \A t \in Threads : LogThread(th'[t]),
         NEW n \in Loggers, NEW l, m_loggers' = [m_loggers EXCEPT ![n] = l],
         LoggerOK(l), n = Root => RootOK(l), \A a \in own' : Loose(a)
  PROVE  LogInv'
  <1>1. m_loggers' = [k \in Loggers |-> IF k = n THEN l ELSE m_loggers[k]]
    BY DEF LogInv
  <1>2. Root \in Loggers
    BY DEF Loggers
  <1> QED BY <1>1, <1>2 DEF LogInv

\* A thread that goes on with its work.
LEMMA LogResume == ASSUME NEW x, IsRec(x), \A o \in x.work : OpOK(o) PROVE LogThread(Resume(x))
  BY ResumeRec DEF LogThread

\* A call or a load begins to change a value.
LEMMA LogBegin ==
  ASSUME LogInv, NEW t \in Threads, NEW x, IsRec(x), NEW n, NEW v, BeginSet(t, x, n, v),
         x.work = th[t].work, n = Logs => DefinesOK(v), m_loggers' = m_loggers, own' = own
  PROVE  LogInv'
  <1>1. \A o \in x.work : OpOK(o)
    BY DEF LogInv, LogThread
  <1>2. CASE Goto(t, Resume(x))
    BY <1>1, <1>2, ResumeRec, LogResume, LogMove
  <1>3. CASE Goto(t, [x EXCEPT !.at = "notify", !.name = n, !.new = v, !.todo = Listeners(n)])
    <2> DEFINE y == [x EXCEPT !.at = "notify", !.name = n, !.new = v, !.todo = Listeners(n)]
    <2>1. IsRec(y) /\ y.at = "notify" /\ y.name = n /\ y.new = v /\ y.work = x.work
      BY DEF IsRec, Fields
    <2>2. Goto(t, y)
      BY <1>3
    <2> HIDE DEF y
    <2>3. LogThread(y)
      BY <1>1, <2>1 DEF LogThread
    <2> QED BY <2>1, <2>2, <2>3, LogMove
  <1> QED BY <1>2, <1>3 DEF BeginSet

\* A listener is called.
LEMMA LogTell ==
  ASSUME LogInv, NEW t \in Threads, Tell(t)
  PROVE  LogInv'
  <1>1. /\ IsRec(th[t]) /\ LogThread(th[t]) /\ th[t].at = "notify"
        /\ m_loggers' = m_loggers /\ own' = own
    BY DEF LogInv, ThOK, Tell, At
  <1>2. PICK i : Goto(t, [th[t] EXCEPT !.todo = @ \ {i},
                              !.work = IF th[t].name = Logs /\ i = 1
                                       THEN LogIniter(m_val[th[t].name], th[t].new) ELSE {}])
    BY DEF Tell
  <1> DEFINE w == IF th[t].name = Logs /\ i = 1 THEN LogIniter(m_val[th[t].name], th[t].new) ELSE {}
             x == [th[t] EXCEPT !.todo = @ \ {i}, !.work = w]
  <1>3. /\ IsRec(x) /\ x.at = th[t].at /\ x.name = th[t].name /\ x.new = th[t].new /\ x.work = w
        /\ x.level = th[t].level
    BY <1>1 DEF IsRec, Fields
  <1>4. Goto(t, x)
    BY <1>2
  <1>5. \A o \in w : OpOK(o)
    BY <1>1, WorkOK DEF LogThread
  <1> HIDE DEF x, w
  <1>6. LogThread(x)
    BY <1>1, <1>3, <1>5 DEF LogThread
  <1> QED BY <1>1, <1>3, <1>4, <1>6, LogMove

\* One operation of the listener of the loggers.
LEMMA LogConfigure ==
  ASSUME LogInv, NEW t \in Threads, ConfigureLogger(t)
  PROVE  LogInv'
  <1>1. IsRec(th[t]) /\ LogThread(th[t]) /\ th[t].at = "notify" /\ own' = own
    BY DEF LogInv, ThOK, ConfigureLogger, At
  <1>2. PICK o \in th[t].work :
          /\ m_loggers' = IF o.op = "null" THEN m_loggers ELSE Done(m_loggers, o)
          /\ Goto(t, [th[t] EXCEPT !.work = @ \ {o}])
    BY DEF ConfigureLogger
  <1> DEFINE x == [th[t] EXCEPT !.work = @ \ {o}]
  <1>3. /\ IsRec(x) /\ x.at = th[t].at /\ x.name = th[t].name /\ x.new = th[t].new
        /\ x.work = th[t].work \ {o} /\ x.level = th[t].level
    BY <1>1 DEF IsRec, Fields
  <1> HIDE DEF x
  <1>4. LogThread(x)
    BY <1>1, <1>3 DEF LogThread
  <1>5. Goto(t, x)
    BY <1>2 DEF x
  <1>6. CASE o.op = "null"
    BY <1>1, <1>2, <1>3, <1>4, <1>5, <1>6, LogMove
  <1>7. CASE o.op # "null"
    <2>1. OpOK(o) /\ o.name \in Loggers /\ o.name # Root
      BY <1>1, LogConstants DEF LogThread, OpOK, Loggers
    <2> DEFINE l == [m_loggers[o.name] EXCEPT !.made = TRUE]
               r == CASE o.op = "level"  -> [l EXCEPT !.m_level = o.arg]
                      [] o.op = "format" -> setPattern(l, o.arg)
                      [] o.op = "clear"  -> clearAppenders(l)
                      [] o.op = "add"    -> addAppender(l, o.arg)
    <2>2. m_loggers' = [m_loggers EXCEPT ![o.name] = r]
      BY <1>2, <1>7 DEF Done
    <2>3. LoggerOK(l)
      BY <2>1, ChangeOK DEF LogInv
    <2> HIDE DEF l
    <2>4. LoggerOK(r)
      <3>1. CASE o.op = "level"
        <4>1. r = [l EXCEPT !.m_level = o.arg]
          BY <3>1
        <4>2. LoggerOK([l EXCEPT !.m_level = o.arg])
          BY <2>3, ChangeOK
        <4> HIDE DEF r
        <4> QED BY <4>1, <4>2
      <3>2. CASE o.op = "format"
        BY <3>2, <2>1, <2>3, SetPatternOK DEF OpOK
      <3>3. CASE o.op = "clear"
        BY <3>3, <2>3, ChangeOK
      <3>4. CASE o.op = "add"
        BY <3>4, <2>1, <2>3, AddAppenderOK DEF OpOK
      <3> QED BY <1>7, <2>1, <3>1, <3>2, <3>3, <3>4 DEF OpOK
    <2> HIDE DEF r
    <2>5. ThOK' /\ th'[t] = x /\ \A s \in Threads \ {t} : th'[s] = th[s]
      BY <1>3, <1>5, GotoThread DEF LogInv
    <2>6. \A s \in Threads : LogThread(th'[s])
      BY <1>4, <2>5 DEF LogInv
    <2>7. \A a \in own' : Loose(a)
      BY <1>1 DEF LogInv
    <2> QED BY <2>1, <2>2, <2>4, <2>5, <2>6, <2>7, LogChange
  <1> QED BY <1>6, <1>7

\* The steps of a call in progress.
LEMMA LogProceed ==
  ASSUME LogInv, NEW t \in Threads, Proceed(t)
  PROVE  LogInv'
  <1>1. IsRec(th[t]) /\ LogThread(th[t]) /\ \A o \in th[t].work : OpOK(o)
    BY DEF LogInv, ThOK, LogThread
  <1>2. LogThread(Idle) /\ IsRec(Idle)
    BY IdleRec DEF LogThread
  <1>3. CASE Tell(t)
    BY <1>3, LogTell
  <1>4. CASE ConfigureLogger(t)
    BY <1>4, LogConfigure
  <1>5. CASE Unlock(t)
    <2> DEFINE x == [th[t] EXCEPT !.at = "write"]
    <2>1. IsRec(x) /\ x.at = "write" /\ x.work = th[t].work
      BY <1>1 DEF IsRec, Fields
    <2>2. Goto(t, x) /\ logVars' = logVars
      BY <1>5 DEF Unlock
    <2> HIDE DEF x
    <2>3. LogThread(x)
      BY <1>1, <2>1 DEF LogThread
    <2> QED BY <2>1, <2>2, <2>3, LogMove DEF logVars
  <1>6. CASE Store(t)
    <2>1. Goto(t, Resume(th[t])) /\ logVars' = logVars
      BY <1>6 DEF Store
    <2> QED BY <1>1, <2>1, ResumeRec, LogResume, LogMove DEF logVars
  <1>7. CASE WriteLog(t)
    BY <1>2, <1>7, LogMove DEF WriteLog
  <1>8. CASE Stat(t)
    <2>1. PICK st : Goto(t, [th[t] EXCEPT !.at = "check", !.st = st])
      BY <1>8 DEF Stat
    <2> DEFINE x == [th[t] EXCEPT !.at = "check", !.st = st]
    <2>2. IsRec(x) /\ x.at = "check" /\ x.work = th[t].work
      BY <1>1 DEF IsRec, Fields
    <2>3. Goto(t, x) /\ logVars' = logVars
      BY <1>8, <2>1 DEF Stat
    <2> HIDE DEF x
    <2>4. LogThread(x)
      BY <1>1, <2>2 DEF LogThread
    <2> QED BY <2>2, <2>3, <2>4, LogMove DEF logVars
  <1>9. CASE Check(t)
    <2> DEFINE x == [th[t] EXCEPT !.files = Tail(@), !.st = 0]
               y == [th[t] EXCEPT !.at = "read"]
    <2>1. IsRec(x) /\ x.work = th[t].work /\ IsRec(y) /\ y.at = "read" /\ y.work = th[t].work
      BY <1>1 DEF IsRec, Fields
    <2>2. (Goto(t, Resume(x)) \/ Goto(t, y)) /\ logVars' = logVars
      BY <1>9 DEF Check
    <2> HIDE DEF x, y
    <2>3. LogThread(y)
      BY <1>1, <2>1 DEF LogThread
    <2>4. LogThread(Resume(x)) /\ IsRec(Resume(x))
      BY <1>1, <2>1, LogResume, ResumeRec
    <2> QED BY <2>1, <2>2, <2>3, <2>4, LogMove DEF logVars
  <1>10. CASE ReadFile(t)
    <2>1. PICK ms : Goto(t, Resume([th[t] EXCEPT !.files = Tail(@), !.st = 0, !.members = ms]))
      BY <1>10 DEF ReadFile
    <2> DEFINE x == [th[t] EXCEPT !.files = Tail(@), !.st = 0, !.members = ms]
    <2>2. IsRec(x) /\ x.work = th[t].work
      BY <1>1 DEF IsRec, Fields
    <2>3. Goto(t, Resume(x)) /\ logVars' = logVars
      BY <1>10, <2>1 DEF ReadFile
    <2> HIDE DEF x
    <2>4. LogThread(Resume(x)) /\ IsRec(Resume(x))
      BY <1>1, <2>2, LogResume, ResumeRec
    <2> QED BY <2>3, <2>4, LogMove DEF logVars
  <1>11. CASE LoadMember(t)
    <2> DEFINE x == [th[t] EXCEPT !.members = Tail(@)]
               m == Head(th[t].members)
               v == FromStr(KindOf[m.name], m.text)
    <2>1. IsRec(x) /\ x.work = th[t].work
      BY <1>1 DEF IsRec, Fields
    <2>2. (BeginSet(t, x, m.name, v.v) \/ Goto(t, Resume(x))) /\ logVars' = logVars
      BY <1>11 DEF LoadMember
    <2>3. m.name = Logs => DefinesOK(v.v)
      BY LogsValue
    <2> HIDE DEF x, m, v
    <2>4. LogThread(Resume(x)) /\ IsRec(Resume(x))
      BY <1>1, <2>1, LogResume, ResumeRec
    <2> QED BY <2>1, <2>2, <2>3, <2>4, LogMove, LogBegin DEF logVars
  <1>12. CASE Loaded(t)
    BY <1>2, <1>12, LogMove DEF Loaded, logVars
  <1> QED
    BY <1>3, <1>4, <1>5, <1>6, <1>7, <1>8, <1>9, <1>10, <1>11, <1>12 DEF Proceed

\* Steps that change no thread and no logger.
LEMMA LogRest ==
  ASSUME LogInv, th' = th, m_loggers' = m_loggers, own' = own
  PROVE  LogInv'
  BY DEF LogInv, ThOK

\* The first step of a call.
LEMMA LogBeginCall ==
  ASSUME LogInv, NEW t \in Threads, Begin(t)
  PROVE  LogInv'
  <1>1. IsRec(th[t]) /\ LogThread(th[t]) /\ \A o \in th[t].work : OpOK(o)
    BY DEF LogInv, ThOK, LogThread
  <1>2. ASSUME NEW n \in VarNames,
               Lookup(t, n) \/ AddListener(t, n) \/ DelListener(t, n) \/ ClearListener(t, n)
        PROVE  LogInv'
    <2>1. th' = th /\ logVars' = logVars
      BY <1>2 DEF Lookup, AddListener, DelListener, ClearListener, DelListeners
    <2> QED BY <2>1, LogRest DEF logVars
  <1>3. ASSUME NEW x \in Texts, FromString(t, x) PROVE LogInv'
    <2> DEFINE v == FromStr(KindOf[x.name], x.text)
    <2>1. (BeginSet(t, th[t], x.name, v.v) \/ th' = th) /\ logVars' = logVars
      BY <1>3 DEF FromString
    <2>2. x.name = Logs => DefinesOK(v.v)
      BY LogsValue
    <2> HIDE DEF v
    <2> QED BY <1>1, <2>1, <2>2, LogBegin, LogRest DEF logVars
  <1>4. ASSUME NEW n \in Loggers, NEW level \in {DEBUG, FATAL}, Log(t, n, level) PROVE LogInv'
    <2> DEFINE x == [th[t] EXCEPT !.at = "log", !.name = n, !.level = level]
               l == [m_loggers[n] EXCEPT !.made = TRUE]
    <2>1. /\ (th' = th \/ Goto(t, x)) /\ own' = own
          /\ m_loggers' = [m_loggers EXCEPT ![n].made = TRUE]
      BY <1>4 DEF Log
    <2>2. m_loggers' = [m_loggers EXCEPT ![n] = l]
      BY <2>1 DEF LogInv
    <2>3. IsRec(x) /\ x.at = "log" /\ x.name = n /\ x.level = level /\ x.work = th[t].work
      BY <1>1 DEF IsRec, Fields
    <2> HIDE DEF x
    <2>4. LogThread(x)
      BY <1>1, <2>3 DEF LogThread
    <2>5. LoggerOK(l) /\ (n = Root => RootOK(l))
      BY ChangeOK DEF LogInv
    <2> HIDE DEF l
    <2>6. ThOK' /\ \A s \in Threads : LogThread(th'[s])
      <3>1. CASE th' = th
        BY <3>1 DEF LogInv, ThOK
      <3>2. CASE Goto(t, x)
        <4>1. ThOK' /\ th'[t] = x /\ \A s \in Threads \ {t} : th'[s] = th[s]
          BY <2>3, <3>2, GotoThread DEF LogInv
        <4> QED BY <4>1, <2>4 DEF LogInv
      <3> QED BY <2>1, <3>1, <3>2
    <2>7. \A a \in own' : Loose(a)
      BY <2>1 DEF LogInv
    <2> QED BY <2>2, <2>5, <2>6, <2>7, LogChange
  <1>5. th' = th => ThOK' /\ \A s \in Threads : LogThread(th'[s])
    BY DEF LogInv, ThOK
  <1>6. ASSUME NEW n \in Loggers, NEW p \in Formats, SetFormatter(t, n, p) PROVE LogInv'
    <2>1. /\ th' = th /\ own' = own /\ p # None
          /\ m_loggers' = [m_loggers EXCEPT ![n] = setPattern(m_loggers[n], p)]
      BY <1>6, ConfigConstants DEF SetFormatter
    <2>2. /\ LoggerOK(setPattern(m_loggers[n], p))
          /\ n = Root => RootOK(setPattern(m_loggers[n], p))
      BY <2>1, SetPatternOK DEF LogInv
    <2>3. \A a \in own' : Loose(a)
      BY <2>1 DEF LogInv
    <2> QED BY <1>5, <2>1, <2>2, <2>3, LogChange
  <1>7. ASSUME NEW n \in Loggers, AddAppender(t, n) PROVE LogInv'
    <2>1. PICK a \in own : m_loggers' = [m_loggers EXCEPT ![n] = addAppender(m_loggers[n], a)]
      BY <1>7 DEF AddAppender
    <2>2. th' = th /\ own' = {}
      BY <1>7 DEF AddAppender
    <2>3. /\ LoggerOK(addAppender(m_loggers[n], a))
          /\ n = Root => RootOK(addAppender(m_loggers[n], a))
      BY AddAppenderOK DEF LogInv
    <2> QED BY <1>5, <2>1, <2>2, <2>3, LogChange
  <1>8. ASSUME NEW n \in Loggers, DelAppender(t, n) PROVE LogInv'
    <2>1. PICK i \in DOMAIN m_loggers[n].m_appenders :
            /\ m_loggers[n].m_appenders[i].type = 3
            /\ m_loggers' = [m_loggers EXCEPT ![n] = delAppender(m_loggers[n], i)]
            /\ own' = {m_loggers[n].m_appenders[i]}
      BY <1>8 DEF DelAppender
    <2>2. th' = th
      BY <1>8 DEF DelAppender
    <2>3. /\ LoggerOK(delAppender(m_loggers[n], i))
          /\ n = Root => RootOK(delAppender(m_loggers[n], i))
      BY <2>1, DelAppenderOK DEF LogInv
    <2>4. \A a \in own' : Loose(a)
      BY <2>1 DEF LogInv, LoggerOK, Fits
    <2> QED BY <1>5, <2>1, <2>2, <2>3, <2>4, LogChange
  <1>9. CASE LoadFromConfDir(t)
    <2> DEFINE x == [th[t] EXCEPT !.load = TRUE, !.files = Files, !.fresh = ToSet(Files)]
    <2>1. IsRec(x) /\ x.work = th[t].work
      BY <1>1 DEF IsRec, Fields
    <2>2. Goto(t, Resume(x)) /\ logVars' = logVars
      BY <1>9 DEF LoadFromConfDir
    <2> HIDE DEF x
    <2> QED BY <1>1, <2>1, <2>2, ResumeRec, LogResume, LogMove DEF logVars
  <1> QED BY <1>2, <1>3, <1>4, <1>6, <1>7, <1>8, <1>9 DEF Begin

\* An edit of a file.
LEMMA LogEdit ==
  ASSUME LogInv, NEW f, NEW c, NEW m, Edit(f, c, m)
  PROVE  LogInv'
  <1>1. th' = [t \in Threads |-> [th[t] EXCEPT !.fresh = @ \ {f}]] /\ logVars' = logVars
    BY DEF Edit
  <1>2. \A s \in Threads : IsRec(th[s]) /\ LogThread(th[s])
    BY DEF LogInv, ThOK
  <1>3. \A s \in Threads : /\ IsRec(th'[s]) /\ th'[s].at = th[s].at /\ th'[s].name = th[s].name
                           /\ th'[s].new = th[s].new /\ th'[s].work = th[s].work
                           /\ th'[s].level = th[s].level
    BY <1>1, <1>2 DEF IsRec, Fields
  <1>4. ThOK'
    BY <1>1, <1>3 DEF ThOK
  <1>5. \A s \in Threads : LogThread(th'[s])
    BY <1>2, <1>3 DEF LogThread
  <1> QED BY <1>1, <1>4, <1>5 DEF LogInv, logVars

\* Every step keeps the formats of the loggers.
LEMMA LogNext == LogInv /\ [Next]_vars => LogInv'
  <1> SUFFICES ASSUME LogInv, [Next]_vars PROVE LogInv'
    OBVIOUS
  <1>1. ASSUME NEW t \in Threads, Proceed(t) PROVE LogInv'
    BY <1>1, LogProceed
  <1>2. ASSUME NEW t \in Threads, Begin(t) PROVE LogInv'
    BY <1>2, LogBeginCall
  <1>3. ASSUME NEW f, NEW c, NEW m, Edit(f, c, m) PROVE LogInv'
    BY <1>3, LogEdit
  <1>4. CASE UNCHANGED vars
    BY <1>4, LogRest DEF vars, logVars
  <1> QED BY <1>1, <1>2, <1>3, <1>4 DEF Next

\* An appender without a format of its own has that of the logger it is in, whatever the
\* program and the configuration do to both, in whatever order.
THEOREM ConfigFormatInherited == Spec => []FormatInherited
  <1>1. LogInv => FormatInherited
    BY DEF LogInv, LoggerOK, Fits, FormatInherited
  <1> QED BY <1>1, LogInit, LogNext, PTL DEF Spec

\* No logger ever takes a pattern with errors, and what init() makes of the patterns it was
\* compared with is a matter of those patterns, not of the run.
THEOREM ConfigPatternKept == ASSUME SpeltAgain PROVE Spec => []PatternKept
  <1>1. LogInv => PatternKept
    BY DEF LogInv, LoggerOK, PatternKept
  <1> QED BY <1>1, LogInit, LogNext, PTL DEF Spec

\* An event leaves a thread only by being written.
LEMMA LogEnds ==
  ASSUME LogInv, [Next]_vars, NEW t \in Threads, th[t].at = "log", th'[t].at = "idle"
  PROVE  WriteLog(t)
  <1>1. ASSUME NEW s \in Threads, Proceed(s) PROVE WriteLog(t)
    <2>1. \E x : Goto(s, x)
      BY <1>1 DEF Proceed, Tell, ConfigureLogger, Unlock, Store, WriteLog, Stat, Check, ReadFile,
                 LoadMember, BeginSet, Loaded
    <2>2. s # t => th'[t] = th[t]
      BY <2>1 DEF Goto, LogInv, ThOK
    <2>3. s = t
      BY <2>2
    <2> QED BY <1>1, <2>3 DEF Proceed, Tell, ConfigureLogger, Unlock, Store, Stat, Check, ReadFile,
                 LoadMember, Loaded, At
  <1>2. ASSUME NEW s \in Threads, Begin(s) PROVE FALSE
    <2>1. th[s].at = "idle"
      BY <1>2 DEF Begin, Lookup, AddListener, DelListener, ClearListener, DelListeners, FromString,
                 Log, AddAppender, DelAppender, SetFormatter, LoadFromConfDir, Call
    <2>2. th' = th \/ \E x : Goto(s, x)
      BY <1>2 DEF Begin, Lookup, AddListener, DelListener, ClearListener, DelListeners, FromString,
                 BeginSet, Log, AddAppender, DelAppender, SetFormatter, LoadFromConfDir
    <2>3. s # t => th'[t] = th[t]
      BY <2>2 DEF Goto, LogInv, ThOK
    <2> QED BY <2>1, <2>3
  <1>3. ASSUME NEW f, NEW c, NEW m, Edit(f, c, m) PROVE FALSE
    <2>1. th'[t] = [th[t] EXCEPT !.fresh = @ \ {f}] /\ IsRec(th[t])
      BY <1>3 DEF Edit, LogInv, ThOK
    <2>2. th'[t].at = th[t].at
      BY <2>1 DEF IsRec, Fields
    <2> QED BY <2>2
  <1>4. CASE UNCHANGED vars
    BY <1>4 DEF vars
  <1> QED BY <1>1, <1>2, <1>3, <1>4 DEF Next

OutOK == DOMAIN out = Threads

\* Every thread keeps the record of what it wrote.
LEMMA OutNext == OutOK /\ [Next]_vars => OutOK'
  <1> SUFFICES ASSUME DOMAIN out = Threads, [Next]_vars PROVE DOMAIN out' = Threads
    BY DEF OutOK
  <1>1. ASSUME NEW t \in Threads, Proceed(t) PROVE DOMAIN out' = Threads
    BY <1>1 DEF Proceed, Tell, ConfigureLogger, Unlock, Store, WriteLog, Stat, Check, ReadFile,
               LoadMember, Loaded, logVars
  <1>2. ASSUME NEW t \in Threads, Begin(t) PROVE DOMAIN out' = Threads
    BY <1>2 DEF Begin, Lookup, AddListener, DelListener, ClearListener, DelListeners, FromString,
               Log, AddAppender, DelAppender, SetFormatter, LoadFromConfDir, logVars
  <1>3. ASSUME NEW f, NEW c, NEW m, Edit(f, c, m) PROVE DOMAIN out' = Threads
    BY <1>3 DEF Edit, logVars
  <1>4. CASE UNCHANGED vars
    BY <1>4 DEF vars, logVars
  <1> QED BY <1>1, <1>2, <1>3, <1>4 DEF Next

\* An event at or above the level meets an appender that writes it.
LEMMA SomebodyWrites ==
  ASSUME LogInv, NEW n \in Loggers, NEW level \in {DEBUG, FATAL}, m_loggers[n].m_level <= level
  PROVE  Written(m_loggers, n, level) # {}
  <1> DEFINE r == IF m_loggers[n].m_appenders = <<>> THEN Root ELSE n
  <1>1. Root \in Loggers /\ RootOK(m_loggers[Root]) /\ LoggerOK(m_loggers[n]) /\ LoggerOK(m_loggers[Root])
    BY DEF LogInv, Loggers
  <1>2. r \in Loggers /\ m_loggers[r].m_level <= level /\ LoggerOK(m_loggers[r])
    BY <1>1 DEF RootOK, DEBUG, FATAL
  <1>3. PICK i \in DOMAIN m_loggers[r].m_appenders : TRUE
    <2>1. CASE m_loggers[n].m_appenders = <<>>
      BY <1>1, <2>1 DEF RootOK
    <2>2. CASE m_loggers[n].m_appenders # <<>>
      <3>1. PICK s : s = m_loggers[n].m_appenders /\ s \in Seq(ToSet(s)) /\ s # <<>>
        BY <1>1, <2>2 DEF LoggerOK, IsSeq
      <3>2. 1 \in DOMAIN s
        BY <3>1
      <3> QED BY <2>2, <3>1, <3>2
    <2> QED BY <2>1, <2>2
  <1> DEFINE a == m_loggers[r].m_appenders[i]
  <1>4. a.level <= level
    <2>1. a.level \in {UNKNOW, DEBUG}
      BY <1>2, <1>3 DEF LoggerOK, Fits, Loose
    <2> HIDE DEF a
    <2> QED BY <2>1 DEF UNKNOW, DEBUG, FATAL
  <1>5. appenderLog(a, n, level) # {}
    BY <1>4 DEF appenderLog
  <1>6. Written(m_loggers, n, level) =
          UNION {appenderLog(m_loggers[r].m_appenders[k], n, level) : k \in DOMAIN m_loggers[r].m_appenders}
    BY <1>2 DEF Written
  <1> QED BY <1>3, <1>5, <1>6

\* Every event that its logger accepts is written by somebody: by an appender of the logger
\* or, in the middle of a change when the logger has none, by the root logger's.
THEOREM ConfigNoEventLost == Spec => NoEventLost
  <1>1. Init => OutOK
    BY DEF Init, OutOK
  <1>2. LogInv /\ OutOK /\ [Next]_vars =>
          [\A t \in Threads :
            (th[t].at = "log" /\ th'[t].at = "idle" /\ m_loggers[th[t].name].m_level <= th[t].level)
                => out'[t] # {}]_vars
    <2> SUFFICES ASSUME LogInv, DOMAIN out = Threads, [Next]_vars, NEW t \in Threads,
                        th[t].at = "log", th'[t].at = "idle",
                        m_loggers[th[t].name].m_level <= th[t].level
                 PROVE  out'[t] # {}
      BY DEF OutOK
    <2>1. WriteLog(t)
      BY LogEnds
    <2>2. out'[t] = Written(m_loggers, th[t].name, th[t].level)
      BY <2>1 DEF WriteLog
    <2>3. th[t].name \in Loggers /\ th[t].level \in {DEBUG, FATAL}
      BY DEF LogInv, LogThread
    <2> QED BY <2>2, <2>3, SomebodyWrites
  <1> QED BY <1>1, <1>2, OutNext, LogInit, LogNext, PTL DEF Spec, NoEventLost


(***************************************************************************)
(* The loggers follow the configuration                                    *)
(***************************************************************************)
\* A value of "logs": it defines loggers, and each has a list of appenders.
LogsOK(v) == DOMAIN v \subseteq ToSet(Names) /\ \A n \in DOMAIN v : IsSeq(v[n].appenders)

\* What a thread still has to load, the value it is setting, and when it configures loggers.
LoadThread(x) ==
    /\ x.members \in Seq(AllMembers) /\ (x.at = "members" => x.members # <<>>)
    /\ x.at \in Busy /\ x.name = Logs => LogsOK(x.new)
    /\ x.work # {} => x.at = "notify" /\ x.name = Logs /\ 1 \notin x.todo

LoadInv ==
    /\ ThOK /\ \A t \in Threads : LoadThread(th[t])
    /\ LogsOK(m_val[Logs]) /\ 1 \in m_cbs[Logs]
    /\ content = [f \in ToSet(Files) |-> content[f]]
    /\ \A f \in ToSet(Files) : content[f] \in Contents \cup {InitialContent}

\* An appender as it was defined, in a logger whose formatter is p.
AsDefined(a, d, p) ==
    /\ a.type = d.type /\ a.file = d.file /\ a.level = d.level
    /\ a.m_formatter = IF a.m_hasFormatter THEN d.formatter ELSE p

Formatted(l, d) == d.formatter # None /\ ~isError(d.formatter) => l.m_formatter = d.formatter

\* The first j appenders of the definition d were added to the logger l.
Built(l, d, j) ==
    /\ Len(l.m_appenders) = j
    /\ \A k \in 1..j : AsDefined(l.m_appenders[k], d.appenders[k], l.m_formatter)

Off(l) == l.m_appenders = <<>> /\ l.m_level = Removed

\* The logger l of the name n is as the value v says.
Follows(l, v, n) ==
    IF n \in DOMAIN v
    THEN l.made /\ l.m_level = v[n].level /\ Formatted(l, v[n]) /\ Built(l, v[n], Len(v[n].appenders))
    ELSE l.made => Off(l) \/ l = [NewLogger EXCEPT !.made = TRUE]

\* The operations for the definition d of the logger Names[i].
LevelOp(i, d) == Op(i, 1, 0, "level", Names[i], d.level)
FormatOp(i, d) == Op(i, 2, 0, "format", Names[i], d.formatter)
ClearOp(i) == Op(i, 3, 0, "clear", Names[i], None)
AddOp(i, d, k) == Op(i, 4, k, "add", Names[i], Appender(d.appenders[k]))
Changes(i, d) == {LevelOp(i, d), ClearOp(i)} \cup {o \in {FormatOp(i, d)} : d.formatter # None}
                 \cup {AddOp(i, d, k) : k \in DOMAIN d.appenders}

WorkOn(W, n) == {o \in W : o.name = n}

\* The logger l of Names[i] while the operations W are still to be done.
Coming(l, W, i, d) ==
    /\ WorkOn(W, Names[i]) \subseteq Changes(i, d)
    /\ LevelOp(i, d) \in W \/ (l.made /\ l.m_level = d.level)
    /\ FormatOp(i, d) \in W \/ Formatted(l, d)
    /\ FormatOp(i, d) \in W => ClearOp(i) \in W
    /\ ClearOp(i) \in W => \A k \in DOMAIN d.appenders : AddOp(i, d, k) \in W
    /\ ClearOp(i) \notin W => \E j \in 0..Len(d.appenders) :
            Built(l, d, j) /\ \A k \in DOMAIN d.appenders : AddOp(i, d, k) \in W <=> k > j

\* One that is no longer defined.
Leaving(l, W, n) ==
    /\ \A o \in WorkOn(W, n) : (o.op = "level" /\ o.arg = Removed) \/ o.op = "clear"
    /\ (\E o \in WorkOn(W, n) : o.op = "level") \/ l.m_level = Removed
    /\ (\E o \in WorkOn(W, n) : o.op = "clear") \/ l.m_appenders = <<>>

\* The logger l of Names[i] in the middle of a change from old to new.
Between(l, W, old, new, i) ==
    LET n == Names[i]
    IN  IF n \in DOMAIN new
        THEN IF n \in DOMAIN old /\ old[n] = new[n] THEN WorkOn(W, n) = {Op(i, 1, 0, "null", n, None)}
             ELSE Coming(l, W, i, new[n])
        ELSE IF n \in DOMAIN old THEN Leaving(l, W, n)
        ELSE WorkOn(W, n) = {} /\ Follows(l, new, n)

Following(i) ==
    /\ Setting(Logs) = {} => Follows(m_loggers[Names[i]], m_val[Logs], Names[i])
    /\ \A t \in Setting(Logs) :
        IF 1 \in th[t].todo THEN Follows(m_loggers[Names[i]], m_val[Logs], Names[i])
        ELSE Between(m_loggers[Names[i]], th[t].work, m_val[Logs], th[t].new, i)

FollowInv ==
    /\ \A n \in Loggers : ~m_loggers[n].made => m_loggers[n] = NewLogger
    /\ (~crashed /\ ~raced[Logs]) =>
          \A i \in DOMAIN Names : Names[i] \notin touched \cup dropped => Following(i)

\* An operation on the logger l, which is made for it.
Changed(l, o) ==
    LET r == [l EXCEPT !.made = TRUE]
    IN  CASE o.op = "level"  -> [r EXCEPT !.m_level = o.arg]
          [] o.op = "format" -> setPattern(r, o.arg)
          [] o.op = "clear"  -> clearAppenders(r)
          [] o.op = "add"    -> addAppender(r, o.arg)

\* Places of names.
LEMMA NamesApart ==
  /\ \A i \in DOMAIN Names : i \in Nat /\ Names[i] \in ToSet(Names)
  /\ \A i, j \in DOMAIN Names : Names[i] = Names[j] => i = j
  /\ \A n \in ToSet(Names) : \E i \in DOMAIN Names : Names[i] = n
  BY LogConstants DEF IsInjective, ToSet

\* The fields of an operation.
LEMMA OpIs ==
  ASSUME NEW i, NEW part, NEW k, NEW o, NEW n, NEW x, NEW p, p = Op(i, part, k, o, n, x)
  PROVE  p.pos = <<i, part, k>> /\ p.op = o /\ p.name = n /\ p.arg = x
  BY DEF Op

\* In one round the parts come in order, and the turns of a part.
LEMMA OrderIs ==
  ASSUME NEW i \in Nat, NEW a \in Nat, NEW b \in Nat, NEW c \in Nat, NEW e \in Nat,
         Before(<<i, a, b>>, <<i, c, e>>)
  PROVE  a < c \/ (a = c /\ b < e)
  BY DEF Before

\* The fields of a logger that is made, gets a level or loses its appenders.
LEMMA FieldsAre ==
  ASSUME NEW l, LoggerOK(l), NEW v
  PROVE  /\ [l EXCEPT !.made = TRUE].made /\ [l EXCEPT !.made = TRUE].m_level = l.m_level
         /\ [l EXCEPT !.made = TRUE].m_formatter = l.m_formatter
         /\ [l EXCEPT !.made = TRUE].m_appenders = l.m_appenders
         /\ [l EXCEPT !.m_level = v].made = l.made /\ [l EXCEPT !.m_level = v].m_level = v
         /\ [l EXCEPT !.m_level = v].m_formatter = l.m_formatter
         /\ [l EXCEPT !.m_level = v].m_appenders = l.m_appenders
         /\ clearAppenders(l).made = l.made /\ clearAppenders(l).m_level = l.m_level
         /\ clearAppenders(l).m_formatter = l.m_formatter /\ clearAppenders(l).m_appenders = <<>>
  BY DEF LoggerOK, LoggerFields, clearAppenders

\* A pattern without errors becomes the formatter of the logger.
LEMMA PatternIs ==
  ASSUME NEW l, LoggerOK(l), NEW p
  PROVE  /\ setPattern(l, p).made = l.made /\ setPattern(l, p).m_level = l.m_level
         /\ ~isError(p) => setPattern(l, p).m_formatter = p
  BY DEF LoggerOK, LoggerFields, setPattern, setFormatter

\* The appender of a definition, once it is added to a logger.
LEMMA AddedIs ==
  ASSUME NEW l, LoggerOK(l), NEW d, NEW r, r = addAppender(l, Appender(d))
  PROVE  /\ r.made = l.made /\ r.m_level = l.m_level /\ r.m_formatter = l.m_formatter
         /\ Len(l.m_appenders) \in Nat /\ Len(r.m_appenders) = Len(l.m_appenders) + 1
         /\ \A k \in 1..Len(l.m_appenders) : r.m_appenders[k] = l.m_appenders[k]
         /\ AsDefined(r.m_appenders[Len(l.m_appenders) + 1], d, l.m_formatter)
  <1> DEFINE a == Appender(d)
             b == IF a.m_formatter = None THEN [a EXCEPT !.m_formatter = l.m_formatter]
                  ELSE [a EXCEPT !.back = ~a.m_hasFormatter]
  <1>1. /\ DOMAIN a = AppenderFields /\ a = [k \in AppenderFields |-> a[k]]
        /\ a.type = d.type /\ a.file = d.file /\ a.level = d.level
        /\ \/ a.m_formatter = None /\ ~a.m_hasFormatter
           \/ a.m_formatter = d.formatter /\ a.m_formatter # None /\ a.m_hasFormatter
    BY DEF Appender, NewAppender, appenderSetFormatter, AppenderFields
  <1>2. r = [l EXCEPT !.m_appenders = Append(l.m_appenders, b)]
    BY DEF addAppender
  <1> HIDE DEF a
  <1>3. AsDefined(b, d, l.m_formatter)
    <2>1. CASE a.m_formatter = None
      BY <1>1, <2>1 DEF AppenderFields, AsDefined
    <2>2. CASE a.m_formatter # None
      BY <1>1, <2>2 DEF AppenderFields, AsDefined
    <2> QED BY <2>1, <2>2
  <1> HIDE DEF b
  <1>4. PICK s : s = l.m_appenders /\ s \in Seq(ToSet(s))
    BY DEF LoggerOK, IsSeq
  <1>5. /\ Len(s) \in Nat /\ Len(Append(s, b)) = Len(s) + 1
        /\ \A k \in 1..Len(s) : Append(s, b)[k] = s[k]
        /\ Append(s, b)[Len(s) + 1] = b
    BY <1>4, AppendProperties
  <1>6. /\ r.made = l.made /\ r.m_level = l.m_level /\ r.m_formatter = l.m_formatter
        /\ r.m_appenders = Append(s, b)
    BY <1>2, <1>4 DEF LoggerOK, LoggerFields
  <1> QED BY <1>3, <1>4, <1>5, <1>6

\* Somebody else's operation.
LEMMA OtherWork ==
  ASSUME NEW W, NEW o, NEW n, o.name # n
  PROVE  WorkOn(W \ {o}, n) = WorkOn(W, n)
  BY DEF WorkOn

\* It leaves a logger in the middle of its change.
LEMMA BetweenOther ==
  ASSUME NEW l, NEW W, NEW old, NEW new, NEW i \in DOMAIN Names, Between(l, W, old, new, i),
         NEW o, o.name # Names[i]
  PROVE  Between(l, W \ {o}, old, new, i)
  <1>1. WorkOn(W \ {o}, Names[i]) = WorkOn(W, Names[i])
    BY OtherWork
  <1>2. ASSUME NEW d, Coming(l, W, i, d) PROVE Coming(l, W \ {o}, i, d)
    <2> DEFINE V == W \ {o}
    <2>1. /\ LevelOp(i, d) \in V <=> LevelOp(i, d) \in W
          /\ FormatOp(i, d) \in V <=> FormatOp(i, d) \in W
          /\ ClearOp(i) \in V <=> ClearOp(i) \in W
          /\ \A k : AddOp(i, d, k) \in V <=> AddOp(i, d, k) \in W
      <3>1. /\ LevelOp(i, d).name = Names[i] /\ FormatOp(i, d).name = Names[i]
            /\ ClearOp(i).name = Names[i] /\ \A k : AddOp(i, d, k).name = Names[i]
        BY DEF LevelOp, FormatOp, ClearOp, AddOp, Op
      <3> QED BY <3>1
    <2>2. WorkOn(V, Names[i]) = WorkOn(W, Names[i])
      BY <1>1
    <2> HIDE DEF V
    <2>3. Coming(l, V, i, d)
      BY <1>2, <2>1, <2>2 DEF Coming
    <2> QED BY <2>3 DEF V
  <1>3. ASSUME Leaving(l, W, Names[i]) PROVE Leaving(l, W \ {o}, Names[i])
    BY <1>1, <1>3 DEF Leaving
  <1> QED BY <1>1, <1>2, <1>3 DEF Between

\* The next operation for a definition: those that are left come after it.
LEMMA ComingDone ==
  ASSUME NEW l, LoggerOK(l), NEW W, NEW i \in DOMAIN Names, NEW d, IsSeq(d.appenders),
         Coming(l, W, i, d), NEW o \in W, o.name = Names[i],
         \A p \in W \ {o} : Before(o.pos, p.pos), NEW r, r = Changed(l, o)
  PROVE  Coming(r, W \ {o}, i, d)
  <1> DEFINE V == W \ {o}
             m == [l EXCEPT !.made = TRUE]
  <1>0. /\ LevelOp(i, d).op = "level" /\ LevelOp(i, d).arg = d.level /\ LevelOp(i, d).pos = <<i, 1, 0>>
        /\ FormatOp(i, d).op = "format" /\ FormatOp(i, d).arg = d.formatter /\ FormatOp(i, d).pos = <<i, 2, 0>>
        /\ ClearOp(i).op = "clear" /\ ClearOp(i).pos = <<i, 3, 0>>
        /\ \A k : /\ AddOp(i, d, k).op = "add" /\ AddOp(i, d, k).arg = Appender(d.appenders[k])
                  /\ AddOp(i, d, k).pos = <<i, 4, k>>
    BY DEF LevelOp, FormatOp, ClearOp, AddOp, Op
  <1>1. o \in Changes(i, d) /\ WorkOn(V, Names[i]) \subseteq Changes(i, d)
    BY DEF Coming, WorkOn
  <1>2. PICK K \in Nat : Len(d.appenders) = K /\ DOMAIN d.appenders = 1..K
    BY DEF IsSeq
  <1>3. i \in Nat
    BY NamesApart
  <1>4. /\ LoggerOK(m) /\ m.made /\ m.m_level = l.m_level /\ m.m_formatter = l.m_formatter
        /\ m.m_appenders = l.m_appenders
    BY ChangeOK, FieldsAre
  <1> HIDE DEF m
  <1>5. /\ o.op = "level" => r = [m EXCEPT !.m_level = o.arg]
        /\ o.op = "format" => r = setPattern(m, o.arg)
        /\ o.op = "clear" => r = clearAppenders(m)
        /\ o.op = "add" => r = addAppender(m, o.arg)
    BY DEF Changed, m
  <1>6. CASE o = LevelOp(i, d)
    <2>1. /\ FormatOp(i, d) \in V <=> FormatOp(i, d) \in W
          /\ ClearOp(i) \in V <=> ClearOp(i) \in W
          /\ \A k : AddOp(i, d, k) \in V <=> AddOp(i, d, k) \in W
      BY <1>6, <1>0
    <2>2. /\ r.made /\ r.m_level = d.level /\ r.m_formatter = l.m_formatter
          /\ r.m_appenders = l.m_appenders
      <3>1. r = [m EXCEPT !.m_level = d.level]
        BY <1>5, <1>6, <1>0
      <3> QED BY <1>4, <3>1, FieldsAre
    <2> HIDE DEF V
    <2>3. \A j : Built(l, d, j) => Built(r, d, j)
      BY <2>2 DEF Built
    <2>4. Formatted(l, d) => Formatted(r, d)
      BY <2>2 DEF Formatted
    <2> QED BY <1>1, <2>1, <2>2, <2>3, <2>4 DEF Coming, V
  <1>7. CASE o = FormatOp(i, d)
    <2>1. /\ LevelOp(i, d) \in V <=> LevelOp(i, d) \in W
          /\ ClearOp(i) \in V /\ ClearOp(i) \in W
          /\ \A k : AddOp(i, d, k) \in V <=> AddOp(i, d, k) \in W
      BY <1>7, <1>0 DEF Coming
    <2>2. r.made /\ r.m_level = l.m_level /\ (~isError(d.formatter) => r.m_formatter = d.formatter)
      BY <1>4, <1>5, <1>7, <1>0, PatternIs
    <2>3. Formatted(r, d)
      BY <2>2 DEF Formatted
    <2> HIDE DEF V
    <2> QED BY <1>1, <2>1, <2>2, <2>3 DEF Coming, V
  <1>8. CASE o = ClearOp(i)
    <2>1. FormatOp(i, d) \notin W
      <3>1. ~Before(<<i, 3, 0>>, <<i, 2, 0>>)
        BY <1>3, OrderIs
      <3>2. FormatOp(i, d) # ClearOp(i)
        BY <1>0
      <3> QED BY <1>8, <3>1, <3>2, <1>0
    <2>2. /\ LevelOp(i, d) \in V <=> LevelOp(i, d) \in W
          /\ ClearOp(i) \notin V /\ FormatOp(i, d) \notin V
          /\ \A k \in 1..K : AddOp(i, d, k) \in V
      BY <1>2, <1>8, <2>1, <1>0 DEF Coming
    <2>3. r.made /\ r.m_level = l.m_level /\ r.m_formatter = l.m_formatter /\ r.m_appenders = <<>>
      BY <1>4, <1>5, <1>8, <1>0, FieldsAre
    <2>4. Formatted(r, d)
      BY <2>1, <2>3 DEF Formatted, Coming
    <2>5. Built(r, d, 0)
      BY <2>3 DEF Built
    <2> HIDE DEF V
    <2>6. \E j \in 0..K : Built(r, d, j) /\ \A k \in 1..K : AddOp(i, d, k) \in V <=> k > j
      <3>1. 0 \in 0..K /\ \A k \in 1..K : k > 0
        BY <1>2
      <3> QED BY <2>2, <2>5, <3>1
    <2> QED BY <1>1, <1>2, <2>2, <2>3, <2>4, <2>6 DEF Coming, V
  <1>9. ASSUME NEW k \in 1..K, o = AddOp(i, d, k) PROVE Coming(r, V, i, d)
    <2>1. FormatOp(i, d) \notin W /\ ClearOp(i) \notin W
      <3>1. ~Before(<<i, 4, k>>, <<i, 2, 0>>) /\ ~Before(<<i, 4, k>>, <<i, 3, 0>>)
        BY <1>3, OrderIs
      <3>2. FormatOp(i, d) # AddOp(i, d, k) /\ ClearOp(i) # AddOp(i, d, k)
        BY <1>0
      <3> QED BY <1>9, <3>1, <3>2, <1>0
    <2>2. PICK j \in 0..K : Built(l, d, j) /\ \A h \in 1..K : AddOp(i, d, h) \in W <=> h > j
      BY <1>2, <2>1 DEF Coming
    <2>3. ASSUME NEW h \in 1..K, AddOp(i, d, h) \in W, h # k PROVE k < h
      <3>1. <<i, 4, h>> # <<i, 4, k>>
        BY <2>3
      <3>2. AddOp(i, d, h) # o
        BY <1>9, <3>1, <1>0
      <3>3. Before(<<i, 4, k>>, <<i, 4, h>>)
        BY <1>9, <2>3, <3>2, <1>0
      <3> QED BY <1>3, <3>3, OrderIs
    <2>4. k = j + 1
      <3>1. k > j
        BY <1>9, <2>2
      <3>2. j + 1 \in 1..K /\ AddOp(i, d, j + 1) \in W
        BY <2>2, <3>1
      <3> QED BY <2>3, <3>1, <3>2
    <2>5. /\ r.made /\ r.m_level = l.m_level /\ r.m_formatter = l.m_formatter
          /\ Len(r.m_appenders) = j + 1
          /\ \A h \in 1..j : r.m_appenders[h] = l.m_appenders[h]
          /\ AsDefined(r.m_appenders[j + 1], d.appenders[k], l.m_formatter)
      <3>1. r = addAppender(m, Appender(d.appenders[k]))
        BY <1>5, <1>9, <1>0
      <3>2. Len(m.m_appenders) = j
        BY <1>4, <2>2 DEF Built
      <3>3. LoggerOK(m)
        BY <1>4
      <3>4. /\ r.made = m.made /\ r.m_level = m.m_level /\ r.m_formatter = m.m_formatter
            /\ Len(r.m_appenders) = Len(m.m_appenders) + 1
            /\ \A h \in 1..Len(m.m_appenders) : r.m_appenders[h] = m.m_appenders[h]
            /\ AsDefined(r.m_appenders[Len(m.m_appenders) + 1], d.appenders[k], m.m_formatter)
        BY <3>1, <3>3, AddedIs
      <3> QED BY <1>4, <3>2, <3>4
    <2>6. Built(r, d, j + 1)
      <3>1. ASSUME NEW h \in 1..(j + 1)
            PROVE  AsDefined(r.m_appenders[h], d.appenders[h], r.m_formatter)
        <4>1. CASE h = j + 1
          BY <2>4, <2>5, <4>1
        <4>2. CASE h # j + 1
          <5>1. h \in 1..j
            BY <4>2
          <5> QED BY <2>2, <2>5, <5>1 DEF Built
        <4> QED BY <4>1, <4>2
      <3> QED BY <2>5, <3>1 DEF Built
    <2>7. ASSUME NEW h \in 1..K PROVE AddOp(i, d, h) \in V <=> h > j + 1
      <3>1. CASE h = k
        BY <1>9, <2>4, <3>1
      <3>2. CASE h # k
        <4>1. <<i, 4, h>> # <<i, 4, k>>
          BY <3>2
        <4>2. AddOp(i, d, h) # o
          BY <1>9, <4>1, <1>0
        <4> QED BY <2>2, <2>4, <3>2, <4>2
      <3> QED BY <3>1, <3>2
    <2>8. j + 1 \in 0..K
      BY <2>4
    <2>9. Formatted(r, d)
      BY <2>1, <2>5 DEF Formatted, Coming
    <2>10. LevelOp(i, d) \in V <=> LevelOp(i, d) \in W
      BY <1>9, <1>0
    <2>11. FormatOp(i, d) \notin V /\ ClearOp(i) \notin V
      BY <2>1
    <2> HIDE DEF V
    <2>12. \E a \in 0..K : Built(r, d, a) /\ \A h \in 1..K : AddOp(i, d, h) \in V <=> h > a
      BY <2>6, <2>7, <2>8
    <2> QED BY <1>1, <1>2, <2>5, <2>9, <2>10, <2>11, <2>12 DEF Coming, V
  <1>10. \/ o = LevelOp(i, d) \/ o = FormatOp(i, d) \/ o = ClearOp(i)
         \/ \E k \in 1..K : o = AddOp(i, d, k)
    BY <1>1, <1>2 DEF Changes
  <1> QED BY <1>6, <1>7, <1>8, <1>9, <1>10

\* The next operation on a logger that is no longer defined.
LEMMA LeavingDone ==
  ASSUME NEW l, LoggerOK(l), NEW W, NEW n, Leaving(l, W, n), NEW o \in W, o.name = n,
         NEW r, r = Changed(l, o)
  PROVE  Leaving(r, W \ {o}, n)
  <1> DEFINE V == W \ {o}
             m == [l EXCEPT !.made = TRUE]
  <1>1. o \in WorkOn(W, n) /\ WorkOn(V, n) = WorkOn(W, n) \ {o}
    BY DEF WorkOn
  <1>2. /\ LoggerOK(m) /\ m.m_level = l.m_level /\ m.m_appenders = l.m_appenders
    BY ChangeOK, FieldsAre
  <1> HIDE DEF m
  <1>3. CASE o.op = "level" /\ o.arg = Removed
    <2>1. r = [m EXCEPT !.m_level = Removed]
      BY <1>3 DEF Changed, m
    <2>2. r.m_level = Removed /\ r.m_appenders = l.m_appenders
      BY <1>2, <2>1, FieldsAre
    <2> HIDE DEF V
    <2>3. (\E p \in WorkOn(V, n) : p.op = "clear") \/ r.m_appenders = <<>>
      BY <1>1, <1>3, <2>2 DEF Leaving
    <2>4. \A p \in WorkOn(V, n) : (p.op = "level" /\ p.arg = Removed) \/ p.op = "clear"
      BY <1>1 DEF Leaving
    <2> QED BY <2>2, <2>3, <2>4 DEF Leaving, V
  <1>4. CASE o.op = "clear"
    <2>1. r = clearAppenders(m)
      BY <1>4 DEF Changed, m
    <2>2. r.m_level = l.m_level /\ r.m_appenders = <<>>
      BY <1>2, <2>1, FieldsAre
    <2> HIDE DEF V
    <2>3. (\E p \in WorkOn(V, n) : p.op = "level") \/ r.m_level = Removed
      BY <1>1, <1>4, <2>2 DEF Leaving
    <2>4. \A p \in WorkOn(V, n) : (p.op = "level" /\ p.arg = Removed) \/ p.op = "clear"
      BY <1>1 DEF Leaving
    <2> QED BY <2>2, <2>3, <2>4 DEF Leaving, V
  <1> QED BY <1>1, <1>3, <1>4 DEF Leaving

\* The next operation, on this logger or another, unless it ends the program.
LEMMA BetweenDone ==
  ASSUME NEW l, LoggerOK(l), NEW W, NEW old, NEW new, LogsOK(new), NEW i \in DOMAIN Names,
         Between(l, W, old, new, i), NEW o \in W, o.op # "null", o.name = Names[i],
         \A p \in W \ {o} : Before(o.pos, p.pos)
  PROVE  Between(Changed(l, o), W \ {o}, old, new, i)
  <1> DEFINE n == Names[i]
             r == Changed(l, o)
             V == W \ {o}
  <1>0. o \in WorkOn(W, n)
    BY DEF WorkOn
  <1> HIDE DEF r, V
  <1>1. CASE n \in DOMAIN new
    <2>1. ~(n \in DOMAIN old /\ old[n] = new[n])
      <3>1. Op(i, 1, 0, "null", n, None).op = "null"
        BY DEF Op
      <3> QED BY <1>0, <1>1, <3>1 DEF Between
    <2>2. Coming(l, W, i, new[n]) /\ IsSeq(new[n].appenders)
      BY <1>1, <2>1 DEF Between, LogsOK
    <2>3. Coming(r, V, i, new[n])
      BY <2>2, ComingDone DEF r, V
    <2> QED BY <1>1, <2>1, <2>3 DEF Between, r, V
  <1>2. CASE n \notin DOMAIN new /\ n \in DOMAIN old
    <2>1. Leaving(l, W, n)
      BY <1>2 DEF Between
    <2>2. Leaving(r, V, n)
      BY <2>1, LeavingDone DEF r, V
    <2> QED BY <1>2, <2>2 DEF Between, r, V
  <1>3. CASE n \notin DOMAIN new /\ n \notin DOMAIN old
    BY <1>0, <1>3 DEF Between
  <1> QED BY <1>1, <1>2, <1>3

\* With all its operations to come, nothing is known of a logger that is defined anew.
LEMMA ComingStart ==
  ASSUME NEW l, NEW W, NEW i \in DOMAIN Names, NEW d, WorkOn(W, Names[i]) = Changes(i, d)
  PROVE  Coming(l, W, i, d)
  <1>1. WorkOn(W, Names[i]) \subseteq W
    BY DEF WorkOn
  <1>2. LevelOp(i, d) \in W /\ ClearOp(i) \in W /\ \A k \in DOMAIN d.appenders : AddOp(i, d, k) \in W
    BY <1>1 DEF Changes
  <1>3. FormatOp(i, d) \in W \/ Formatted(l, d)
    BY <1>1 DEF Changes, Formatted
  <1> QED BY <1>2, <1>3 DEF Coming

\* The operations on loggers that are no longer defined.
Gone(old, new) == {j \in DOMAIN Names : Names[j] \in DOMAIN old \ DOMAIN new}
Rounds(new) == {h \in DOMAIN Names : Names[h] \in DOMAIN new}
Removals(old, new) == UNION {RemoveOld(h, Gone(old, new)) : h \in Rounds(new)}

\* What LogIniter has to do for one name.
LEMMA WorkIs ==
  ASSUME NEW old, NEW new, NEW i \in DOMAIN Names
  PROVE  /\ Names[i] \in DOMAIN new =>
              WorkOn(LogIniter(old, new), Names[i]) = Configure(old, new, i)
         /\ Names[i] \notin DOMAIN new =>
              WorkOn(LogIniter(old, new), Names[i]) = WorkOn(Removals(old, new), Names[i])
  <1> DEFINE gone == Gone(old, new)
             round == Rounds(new)
  <1>1. ASSUME NEW h \in DOMAIN Names, NEW o \in Configure(old, new, h) PROVE o.name = Names[h]
    BY <1>1 DEF Configure, Op
  <1>2. ASSUME NEW h, NEW o \in RemoveOld(h, gone)
        PROVE  \E j \in gone : o.name = Names[j]
    BY <1>2 DEF RemoveOld, Op
  <1>3. LogIniter(old, new) = UNION {Configure(old, new, h) \cup RemoveOld(h, gone) : h \in round}
    BY DEF LogIniter, Gone, Rounds
  <1>4. ASSUME Names[i] \in DOMAIN new
        PROVE  WorkOn(LogIniter(old, new), Names[i]) = Configure(old, new, i)
    <2>1. i \in round
      BY <1>4 DEF Rounds
    <2>2. ASSUME NEW o \in LogIniter(old, new), o.name = Names[i] PROVE o \in Configure(old, new, i)
      <3>1. PICK h \in round : o \in Configure(old, new, h) \cup RemoveOld(h, gone)
        BY <1>3
      <3>2. o \notin RemoveOld(h, gone)
        BY <1>2, <1>4, <2>2 DEF Gone
      <3>3. h = i
        BY <1>1, <2>2, <3>1, <3>2, NamesApart DEF Rounds
      <3> QED BY <3>1, <3>2, <3>3
    <2>3. ASSUME NEW o \in Configure(old, new, i)
          PROVE  o \in LogIniter(old, new) /\ o.name = Names[i]
      BY <1>1, <1>3, <2>1
    <2> QED BY <2>2, <2>3 DEF WorkOn
  <1>5. ASSUME Names[i] \notin DOMAIN new
        PROVE  WorkOn(LogIniter(old, new), Names[i])
               = WorkOn(Removals(old, new), Names[i])
    <2>1. ASSUME NEW o \in LogIniter(old, new), o.name = Names[i]
          PROVE  \E h \in round : o \in RemoveOld(h, gone)
      <3>1. PICK h \in round : o \in Configure(old, new, h) \cup RemoveOld(h, gone)
        BY <1>3
      <3>2. Names[h] \in DOMAIN new /\ h \in DOMAIN Names
        BY DEF Rounds
      <3>3. o \notin Configure(old, new, h)
        BY <1>1, <1>5, <2>1, <3>2
      <3> QED BY <3>1, <3>3
    <2>2. ASSUME NEW h \in round, NEW o \in RemoveOld(h, gone) PROVE o \in LogIniter(old, new)
      <3>1. o \in Configure(old, new, h) \cup RemoveOld(h, gone)
        OBVIOUS
      <3> QED BY <1>3, <3>1
    <2> QED BY <2>1, <2>2 DEF WorkOn, Removals
  <1> QED BY <1>4, <1>5

\* A definition that has changed is worked through.
LEMMA ConfigureIs ==
  ASSUME NEW old, NEW new, NEW i \in DOMAIN Names
  PROVE  Configure(old, new, i) =
           IF Names[i] \in DOMAIN old /\ old[Names[i]] = new[Names[i]]
           THEN {Op(i, 1, 0, "null", Names[i], None)} ELSE Changes(i, new[Names[i]])
  <1> DEFINE d == new[Names[i]]
  <1>1. {Op(i, 2, 0, "format", Names[i], p) : p \in {d.formatter} \ {None}}
        = {o \in {FormatOp(i, d)} : d.formatter # None}
    BY DEF FormatOp
  <1> QED BY <1>1 DEF Configure, Changes, LevelOp, ClearOp, AddOp

\* A logger that is no longer defined is to be switched off and emptied in every round,
\* and there is one.
LEMMA LeavingStart ==
  ASSUME NEW l, NEW old, NEW new, LogsOK(new), NEW i \in DOMAIN Names,
         Names[i] \in DOMAIN old, Names[i] \notin DOMAIN new, DOMAIN new # {}
  PROVE  Leaving(l, LogIniter(old, new), Names[i])
  <1> DEFINE gone == Gone(old, new)
             round == Rounds(new)
             W == Removals(old, new)
             n == Names[i]
  <1>1. WorkOn(LogIniter(old, new), n) = WorkOn(W, n)
    BY WorkIs
  <1>2. PICK h \in round : TRUE
    BY NamesApart DEF LogsOK, Rounds
  <1>3. i \in gone
    BY DEF Gone
  <1> DEFINE a == Op(h, 5, 2 * i, "level", n, Removed)
             b == Op(h, 5, 2 * i + 1, "clear", n, None)
  <1>4. a \in RemoveOld(h, gone) /\ b \in RemoveOld(h, gone)
    BY <1>3 DEF RemoveOld
  <1>5. a.name = n /\ a.op = "level" /\ b.name = n /\ b.op = "clear"
    BY DEF Op
  <1>6. ASSUME NEW g \in round, NEW o \in RemoveOld(g, gone)
        PROVE  (o.op = "level" /\ o.arg = Removed) \/ o.op = "clear"
    BY <1>6 DEF RemoveOld, Op
  <1>7. \A o \in W : (o.op = "level" /\ o.arg = Removed) \/ o.op = "clear"
    BY <1>6 DEF Removals
  <1>8. a \in W /\ b \in W
    BY <1>2, <1>4 DEF Removals
  <1> HIDE DEF W, a, b
  <1> QED BY <1>1, <1>5, <1>7, <1>8 DEF Leaving, WorkOn

\* The listener of the logs is called: what is so before the first operation.
LEMMA BetweenStart ==
  ASSUME NEW l, NEW old, NEW new, LogsOK(new), NEW i \in DOMAIN Names,
         Names[i] \notin DOMAIN new => Follows(l, old, Names[i]),
         Names[i] \in DOMAIN old => DOMAIN new # {}
  PROVE  Between(l, LogIniter(old, new), old, new, i)
  <1> DEFINE n == Names[i]
             W == LogIniter(old, new)
  <1>1. CASE n \in DOMAIN new
    <2>1. WorkOn(W, n) = Configure(old, new, i)
      BY <1>1, WorkIs
    <2>2. CASE n \in DOMAIN old /\ old[n] = new[n]
      BY <1>1, <2>1, <2>2, ConfigureIs DEF Between
    <2>3. CASE ~(n \in DOMAIN old /\ old[n] = new[n])
      <3>1. WorkOn(W, n) = Changes(i, new[n])
        BY <2>1, <2>3, ConfigureIs
      <3>2. Coming(l, W, i, new[n])
        BY <3>1, ComingStart
      <3> QED BY <1>1, <2>3, <3>2 DEF Between
    <2> QED BY <2>2, <2>3
  <1>2. CASE n \notin DOMAIN new /\ n \in DOMAIN old
    <2>1. Leaving(l, W, n)
      BY <1>2, LeavingStart
    <2> QED BY <1>2, <2>1 DEF Between
  <1>3. CASE n \notin DOMAIN new /\ n \notin DOMAIN old
    <2>1. WorkOn(W, n) = WorkOn(Removals(old, new), n)
      BY <1>3, WorkIs
    <2>2. ASSUME NEW h \in Rounds(new), NEW o \in RemoveOld(h, Gone(old, new)) PROVE o.name # n
      <3>1. \E j \in Gone(old, new) : o.name = Names[j]
        BY <2>2 DEF RemoveOld, Op
      <3> QED BY <1>3, <3>1 DEF Gone
    <2>3. WorkOn(W, n) = {}
      BY <2>1, <2>2 DEF WorkOn, Removals
    <2>4. Follows(l, new, n)
      BY <1>3 DEF Follows
    <2> QED BY <1>3, <2>3, <2>4 DEF Between
  <1> QED BY <1>1, <1>2, <1>3

\* Nothing left to be done: the logger is as the new value says.
LEMMA BetweenEnd ==
  ASSUME NEW l, NEW old, NEW new, LogsOK(new), NEW i \in DOMAIN Names, Between(l, {}, old, new, i)
  PROVE  Follows(l, new, Names[i])
  <1> DEFINE n == Names[i]
  <1>1. WorkOn({}, n) = {}
    BY DEF WorkOn
  <1>2. CASE n \in DOMAIN new
    <2>1. Coming(l, {}, i, new[n])
      BY <1>1, <1>2 DEF Between
    <2>2. PICK K \in Nat : Len(new[n].appenders) = K /\ DOMAIN new[n].appenders = 1..K
      BY <1>2 DEF LogsOK, IsSeq
    <2>3. /\ l.made /\ l.m_level = new[n].level /\ Formatted(l, new[n])
          /\ \E j \in 0..K : Built(l, new[n], j) /\ \A k \in 1..K : ~(k > j)
      BY <2>1, <2>2 DEF Coming
    <2>4. PICK j \in 0..K : Built(l, new[n], j) /\ \A k \in 1..K : ~(k > j)
      BY <2>3
    <2>5. j = K
      BY <2>2, <2>4
    <2> QED BY <1>2, <2>2, <2>3, <2>4, <2>5 DEF Follows
  <1>3. CASE n \notin DOMAIN new /\ n \in DOMAIN old
    <2>1. Off(l)
      BY <1>1, <1>3 DEF Between, Leaving, Off
    <2> QED BY <1>3, <2>1 DEF Follows
  <1>4. CASE n \notin DOMAIN new /\ n \notin DOMAIN old
    BY <1>4 DEF Between
  <1> QED BY <1>2, <1>3, <1>4

\* A logger that somebody looks up is made, if it was not, and is as before.
LEMMA FollowsMade ==
  ASSUME NEW l, LoggerOK(l), ~l.made => l = NewLogger, NEW r, r = [l EXCEPT !.made = TRUE],
         NEW v, NEW n, Follows(l, v, n)
  PROVE  Follows(r, v, n)
  <1>1. /\ r.made /\ r.m_level = l.m_level /\ r.m_formatter = l.m_formatter
        /\ r.m_appenders = l.m_appenders
    BY FieldsAre
  <1>2. l.made => r = l
    BY DEF LoggerOK, LoggerFields
  <1>3. CASE n \in DOMAIN v
    BY <1>1, <1>3 DEF Follows, Formatted, Built
  <1>4. CASE n \notin DOMAIN v
    BY <1>1, <1>2, <1>4 DEF Follows, Off
  <1> QED BY <1>3, <1>4

LEMMA BetweenMade ==
  ASSUME NEW l, LoggerOK(l), ~l.made => l = NewLogger, NEW r, r = [l EXCEPT !.made = TRUE],
         NEW W, NEW old, NEW new, NEW i \in DOMAIN Names, Between(l, W, old, new, i)
  PROVE  Between(r, W, old, new, i)
  <1>1. /\ r.made /\ r.m_level = l.m_level /\ r.m_formatter = l.m_formatter
        /\ r.m_appenders = l.m_appenders
    BY FieldsAre
  <1>2. ASSUME NEW d, Coming(l, W, i, d) PROVE Coming(r, W, i, d)
    <2>1. \A j : Built(l, d, j) => Built(r, d, j)
      BY <1>1 DEF Built
    <2>2. Formatted(l, d) => Formatted(r, d)
      BY <1>1 DEF Formatted
    <2> QED BY <1>1, <1>2, <2>1, <2>2 DEF Coming
  <1>3. Leaving(l, W, Names[i]) => Leaving(r, W, Names[i])
    BY <1>1 DEF Leaving
  <1>4. Follows(l, new, Names[i]) => Follows(r, new, Names[i])
    BY FollowsMade
  <1> QED BY <1>2, <1>3, <1>4 DEF Between

\* What the texts of the program and of the files define.
LEMMA LogsText ==
  ASSUME SelectedLists, NEW x \in Texts \cup AllMembers, x.name = Logs
  PROVE  LogsOK(FromStr(KindOf[x.name], x.text).v)
  <1>1. FromStr(KindOf[x.name], x.text).v = LogsFromYaml(x.text)
    BY ConfigConstants DEF FromStr
  <1>2. DOMAIN LogsFromYaml(x.text) \subseteq ToSet(Names)
    BY DEF LogsFromYaml
  <1>3. \A n \in DOMAIN LogsFromYaml(x.text) : IsSeq(LogsFromYaml(x.text)[n].appenders)
    BY DEF SelectedLists, IsSeq
  <1> QED BY <1>1, <1>2, <1>3 DEF LogsOK

\* At the start nothing is loaded, and the listener of the logs is there.
LEMMA LoadInit == Init => LoadInv
  <1> SUFFICES ASSUME Init PROVE LoadInv
    OBVIOUS
  <1>1. \A t \in Threads : th[t] = Idle
    BY DEF Init
  <1>2. ThOK
    BY <1>1, IdleRec DEF Init, ThOK
  <1>3. LoadThread(Idle)
    <2>1. Idle.members = <<>> /\ Idle.members \in Seq(AllMembers)
      BY DEF Idle
    <2> QED BY <2>1, IdleRec DEF LoadThread, Busy
  <1>4. m_val[Logs] = [n \in {} |-> 0] /\ 1 \in m_cbs[Logs]
    BY ConfigConstants DEF Init, Empty
  <1>5. LogsOK(m_val[Logs])
    BY <1>4 DEF LogsOK
  <1> QED BY <1>1, <1>2, <1>3, <1>4, <1>5 DEF LoadInv, Init

\* A step of a thread that changes no file, no value and no listener.
LEMMA LoadMove ==
  ASSUME LoadInv, NEW t \in Threads, NEW x, IsRec(x), Goto(t, x), LoadThread(x),
         m_val' = m_val, m_cbs' = m_cbs, content' = content
  PROVE  LoadInv'
  <1>1. ThOK' /\ th'[t] = x /\ \A s \in Threads \ {t} : th'[s] = th[s]
    BY GotoThread DEF LoadInv
  <1>2. \A s \in Threads : LoadThread(th'[s])
    BY <1>1 DEF LoadInv
  <1> QED BY <1>1, <1>2 DEF LoadInv

\* A thread that goes on with its work.
LEMMA LoadResume ==
  ASSUME NEW x, IsRec(x), x.members \in Seq(AllMembers), x.work = {}
  PROVE  IsRec(Resume(x)) /\ LoadThread(Resume(x))
  <1>1. /\ IsRec(Resume(x)) /\ Resume(x).at \notin Busy /\ Resume(x).members = x.members
        /\ Resume(x).work = {} /\ Resume(x).at = After(x)
    BY ResumeRec DEF Busy
  <1>2. After(x) = "members" => x.members # <<>>
    BY DEF After
  <1> QED BY <1>1, <1>2 DEF LoadThread

\* A call or a load begins to change a value.
LEMMA LoadBegin ==
  ASSUME LoadInv, NEW t \in Threads, NEW x, IsRec(x), NEW n, NEW v, BeginSet(t, x, n, v),
         x.members \in Seq(AllMembers), x.work = {}, n = Logs => LogsOK(v),
         m_val' = m_val, m_cbs' = m_cbs, content' = content
  PROVE  LoadInv'
  <1>1. CASE Goto(t, Resume(x))
    BY <1>1, LoadResume, LoadMove
  <1>2. CASE Goto(t, [x EXCEPT !.at = "notify", !.name = n, !.new = v, !.todo = Listeners(n)])
    <2> DEFINE y == [x EXCEPT !.at = "notify", !.name = n, !.new = v, !.todo = Listeners(n)]
    <2>1. /\ IsRec(y) /\ y.at = "notify" /\ y.name = n /\ y.new = v /\ y.work = {}
          /\ y.members = x.members
      BY DEF IsRec, Fields
    <2>2. Goto(t, y)
      BY <1>2
    <2> HIDE DEF y
    <2>3. LoadThread(y)
      BY <2>1 DEF LoadThread
    <2> QED BY <2>1, <2>2, <2>3, LoadMove
  <1> QED BY <1>1, <1>2 DEF BeginSet

\* A listener is called: if there is work, it was that of the logs, which comes first.
LEMMA LoadTell ==
  ASSUME LoadInv, NEW t \in Threads, Tell(t)
  PROVE  LoadInv'
  <1>1. /\ IsRec(th[t]) /\ LoadThread(th[t]) /\ th[t].at = "notify"
        /\ m_val' = m_val /\ m_cbs' = m_cbs /\ content' = content
    BY DEF LoadInv, ThOK, Tell, At, fileVars
  <1>2. PICK i : Goto(t, [th[t] EXCEPT !.todo = @ \ {i},
                              !.work = IF th[t].name = Logs /\ i = 1
                                       THEN LogIniter(m_val[th[t].name], th[t].new) ELSE {}])
    BY DEF Tell
  <1> DEFINE w == IF th[t].name = Logs /\ i = 1 THEN LogIniter(m_val[th[t].name], th[t].new) ELSE {}
             x == [th[t] EXCEPT !.todo = @ \ {i}, !.work = w]
  <1>3. /\ IsRec(x) /\ x.at = th[t].at /\ x.name = th[t].name /\ x.new = th[t].new /\ x.work = w
        /\ x.members = th[t].members /\ x.todo = th[t].todo \ {i}
    BY <1>1 DEF IsRec, Fields
  <1>4. Goto(t, x)
    BY <1>2
  <1>5. w # {} => th[t].name = Logs /\ i = 1
    OBVIOUS
  <1> HIDE DEF x, w
  <1>6. LoadThread(x)
    BY <1>1, <1>3, <1>5 DEF LoadThread
  <1> QED BY <1>1, <1>3, <1>4, <1>6, LoadMove

\* The new value is stored.
LEMMA LoadStore ==
  ASSUME LoadInv, VarsOK, NEW t \in Threads, Store(t)
  PROVE  LoadInv'
  <1>1. /\ IsRec(th[t]) /\ LoadThread(th[t]) /\ th[t].at = "write" /\ Goto(t, Resume(th[t]))
        /\ m_val' = [m_val EXCEPT ![th[t].name] = th[t].new] /\ m_cbs' = m_cbs /\ content' = content
    BY DEF LoadInv, ThOK, Store, At, fileVars
  <1>2. th[t].members \in Seq(AllMembers) /\ th[t].work = {}
    BY <1>1 DEF LoadThread
  <1>3. LoadThread(Resume(th[t])) /\ IsRec(Resume(th[t]))
    BY <1>1, <1>2, LoadResume
  <1>4. ThOK' /\ th'[t] = Resume(th[t]) /\ \A s \in Threads \ {t} : th'[s] = th[s]
    BY <1>1, <1>3, GotoThread DEF LoadInv
  <1>5. \A s \in Threads : LoadThread(th'[s])
    BY <1>3, <1>4 DEF LoadInv
  <1>6. LogsOK(m_val'[Logs])
    BY <1>1, ConfigConstants DEF LoadInv, LoadThread, VarsOK, Busy
  <1> QED BY <1>1, <1>4, <1>5, <1>6 DEF LoadInv

\* A file is read.
LEMMA LoadRead ==
  ASSUME SelectedLists, LoadInv, FileInv, NEW t \in Threads, ReadFile(t)
  PROVE  LoadInv'
  <1>1. /\ IsRec(th[t]) /\ LoadThread(th[t]) /\ th[t].at = "read" /\ Left(th[t])
        /\ m_val' = m_val /\ m_cbs' = m_cbs /\ content' = content
    BY DEF LoadInv, ThOK, ReadFile, At, FileInv, cfgVars
  <1>2. PICK f \in ToSet(Files) : f = Head(th[t].files)
    BY <1>1, HeadAndTail DEF Left
  <1>3. PICK ms : /\ ms = IF content[f].broken THEN <<>> ELSE ListAllMember(content[f].members)
                  /\ Goto(t, Resume([th[t] EXCEPT !.files = Tail(@), !.st = 0, !.members = ms]))
    BY <1>2 DEF ReadFile
  <1>4. ms \in Seq(AllMembers)
    <2>1. content[f] \in Contents \cup {InitialContent}
      BY DEF LoadInv
    <2>2. <<>> \in Seq(AllMembers)
      OBVIOUS
    <2> QED BY <1>3, <2>1, <2>2, Zenon DEF SelectedLists
  <1> DEFINE x == [th[t] EXCEPT !.files = Tail(@), !.st = 0, !.members = ms]
  <1>5. IsRec(x) /\ x.work = {} /\ x.members = ms
    BY <1>1 DEF IsRec, Fields, LoadThread
  <1>6. Goto(t, Resume(x))
    BY <1>3
  <1> HIDE DEF x
  <1>7. x.members \in Seq(AllMembers)
    BY <1>4, <1>5, Zenon
  <1> QED BY <1>1, <1>5, <1>6, <1>7, LoadResume, LoadMove

\* A member of a file sets its variable.
LEMMA LoadOne ==
  ASSUME SelectedLists, LoadInv, NEW t \in Threads, LoadMember(t)
  PROVE  LoadInv'
  <1> DEFINE x == [th[t] EXCEPT !.members = Tail(@)]
  <1>1. /\ IsRec(th[t]) /\ LoadThread(th[t]) /\ th[t].at = "members"
        /\ m_val' = m_val /\ m_cbs' = m_cbs /\ content' = content
    BY DEF LoadInv, ThOK, LoadMember, At, fileVars
  <1>2. th[t].members \in Seq(AllMembers) /\ th[t].members # <<>>
    BY <1>1 DEF LoadThread
  <1>3. PICK m \in AllMembers : m = Head(th[t].members)
    BY <1>2, HeadAndTail
  <1>4. Tail(th[t].members) \in Seq(AllMembers)
    BY <1>2, HeadAndTail
  <1>5. IsRec(x) /\ x.work = {} /\ x.members = Tail(th[t].members)
    BY <1>1 DEF IsRec, Fields, LoadThread
  <1> DEFINE v == FromStr(KindOf[m.name], m.text)
  <1>6. BeginSet(t, x, m.name, v.v) \/ Goto(t, Resume(x))
    BY <1>3 DEF LoadMember
  <1>7. m.name = Logs => LogsOK(v.v)
    BY LogsText
  <1> HIDE DEF x, v
  <1>8. x.members \in Seq(AllMembers)
    BY <1>4, <1>5, Zenon
  <1>9. CASE BeginSet(t, x, m.name, v.v)
    BY <1>1, <1>5, <1>7, <1>8, <1>9, LoadBegin
  <1>10. CASE Goto(t, Resume(x))
    BY <1>1, <1>5, <1>8, <1>10, LoadResume, LoadMove
  <1> QED BY <1>6, <1>9, <1>10

\* The steps of a call in progress.
LEMMA LoadProceed ==
  ASSUME SelectedLists, LoadInv, FileInv, VarsOK, NEW t \in Threads, Proceed(t)
  PROVE  LoadInv'
  <1>1. IsRec(th[t]) /\ LoadThread(th[t])
    BY DEF LoadInv, ThOK
  <1>2. LoadThread(Idle) /\ IsRec(Idle)
    <2>1. Idle.members = <<>> /\ Idle.members \in Seq(AllMembers)
      BY DEF Idle
    <2> QED BY <2>1, IdleRec DEF LoadThread, Busy
  <1>3. CASE Tell(t)
    BY <1>3, LoadTell
  <1>4. CASE ConfigureLogger(t)
    <2>1. PICK w \in SUBSET th[t].work : Goto(t, [th[t] EXCEPT !.work = w])
      BY <1>4 DEF ConfigureLogger
    <2> DEFINE x == [th[t] EXCEPT !.work = w]
    <2>2. /\ IsRec(x) /\ x.at = th[t].at /\ x.name = th[t].name /\ x.new = th[t].new /\ x.work = w
          /\ x.members = th[t].members /\ x.todo = th[t].todo
      BY <1>1 DEF IsRec, Fields
    <2>3. Goto(t, x) /\ m_val' = m_val /\ m_cbs' = m_cbs /\ content' = content
      BY <1>4, <2>1 DEF ConfigureLogger, cfgVars, fileVars
    <2> HIDE DEF x
    <2>4. LoadThread(x)
      BY <1>1, <2>1, <2>2 DEF LoadThread
    <2> QED BY <2>2, <2>3, <2>4, LoadMove
  <1>5. CASE Unlock(t)
    <2> DEFINE x == [th[t] EXCEPT !.at = "write"]
    <2>1. /\ IsRec(x) /\ x.at = "write" /\ x.name = th[t].name /\ x.new = th[t].new
          /\ x.work = th[t].work /\ x.members = th[t].members
      BY <1>1 DEF IsRec, Fields
    <2>2. /\ Goto(t, x) /\ m_val' = m_val /\ m_cbs' = m_cbs /\ content' = content
          /\ th[t].at = "notify" /\ th[t].work = {}
      BY <1>5 DEF Unlock, At, fileVars
    <2> HIDE DEF x
    <2>3. LoadThread(x)
      BY <1>1, <2>1, <2>2 DEF LoadThread, Busy
    <2> QED BY <2>1, <2>2, <2>3, LoadMove
  <1>6. CASE Store(t)
    BY <1>6, LoadStore
  <1>7. CASE WriteLog(t)
    BY <1>2, <1>7, LoadMove DEF WriteLog, cfgVars, fileVars
  <1>8. CASE Stat(t)
    <2>1. PICK st : Goto(t, [th[t] EXCEPT !.at = "check", !.st = st])
      BY <1>8 DEF Stat
    <2> DEFINE x == [th[t] EXCEPT !.at = "check", !.st = st]
    <2>2. IsRec(x) /\ x.at = "check" /\ x.work = th[t].work /\ x.members = th[t].members
      BY <1>1 DEF IsRec, Fields
    <2>3. Goto(t, x) /\ th[t].at = "stat" /\ m_val' = m_val /\ m_cbs' = m_cbs /\ content' = content
      BY <1>8, <2>1 DEF Stat, At, cfgVars, fileVars
    <2> HIDE DEF x
    <2>4. LoadThread(x)
      BY <1>1, <2>2, <2>3 DEF LoadThread, Busy
    <2> QED BY <2>2, <2>3, <2>4, LoadMove
  <1>9. CASE Check(t)
    <2> DEFINE x == [th[t] EXCEPT !.files = Tail(@), !.st = 0]
               y == [th[t] EXCEPT !.at = "read"]
    <2>1. /\ IsRec(x) /\ x.work = th[t].work /\ x.members = th[t].members
          /\ IsRec(y) /\ y.at = "read" /\ y.work = th[t].work /\ y.members = th[t].members
      BY <1>1 DEF IsRec, Fields
    <2>2. /\ Goto(t, Resume(x)) \/ Goto(t, y)
          /\ th[t].at = "check" /\ m_val' = m_val /\ m_cbs' = m_cbs /\ content' = content
      BY <1>9 DEF Check, At, cfgVars
    <2> HIDE DEF x, y
    <2>3. LoadThread(y)
      BY <1>1, <2>1, <2>2 DEF LoadThread, Busy
    <2>4. LoadThread(Resume(x)) /\ IsRec(Resume(x))
      <3>1. x.work = {}
        BY <1>1, <2>1, <2>2 DEF LoadThread
      <3>2. x.members \in Seq(AllMembers)
        BY <1>1, <2>1 DEF LoadThread
      <3> QED BY <2>1, <3>1, <3>2, LoadResume
    <2> QED BY <2>1, <2>2, <2>3, <2>4, LoadMove
  <1>10. CASE ReadFile(t)
    BY <1>10, LoadRead
  <1>11. CASE LoadMember(t)
    BY <1>11, LoadOne
  <1>12. CASE Loaded(t)
    BY <1>2, <1>12, LoadMove DEF Loaded, cfgVars
  <1> QED
    BY <1>3, <1>4, <1>5, <1>6, <1>7, <1>8, <1>9, <1>10, <1>11, <1>12 DEF Proceed

\* Steps that change no thread, no file and no value.
LEMMA LoadRest ==
  ASSUME LoadInv, th' = th, m_val' = m_val, 1 \in m_cbs'[Logs], content' = content
  PROVE  LoadInv'
  BY DEF LoadInv, ThOK

\* The first step of a call: the listener of the logs cannot be removed.
LEMMA LoadBeginCall ==
  ASSUME SelectedLists, LoadInv, VarsOK, NEW t \in Threads, Begin(t)
  PROVE  LoadInv'
  <1>1. IsRec(th[t]) /\ LoadThread(th[t]) /\ 1 \in m_cbs[Logs] /\ Logs \in DOMAIN m_cbs
    BY ConfigConstants DEF LoadInv, ThOK, VarsOK
  <1>2. ASSUME NEW n \in VarNames, Lookup(t, n) PROVE LoadInv'
    BY <1>1, <1>2, LoadRest DEF Lookup, fileVars
  <1>3. ASSUME NEW n \in VarNames, AddListener(t, n) PROVE LoadInv'
    <2>1. th' = th /\ m_val' = m_val /\ content' = content /\ 1 \in m_cbs'[Logs]
      BY <1>1, <1>3 DEF AddListener, fileVars
    <2> QED BY <2>1, LoadRest
  <1>4. ASSUME NEW n \in VarNames, DelListener(t, n) \/ ClearListener(t, n) PROVE LoadInv'
    <2>1. PICK gone : DelListeners(t, n, gone) /\ (n = Logs => 1 \notin gone)
      <3>1. CASE DelListener(t, n)
        <4>1. PICK i \in m_cbs[n] \ {1} : DelListeners(t, n, {i})
          BY <3>1 DEF DelListener
        <4>2. 1 \notin {i}
          BY <4>1
        <4> QED BY <4>1, <4>2
      <3>2. CASE ClearListener(t, n)
        BY <3>2 DEF ClearListener
      <3> QED BY <1>4, <3>1, <3>2
    <2>2. th' = th /\ m_val' = m_val /\ content' = content /\ 1 \in m_cbs'[Logs]
      BY <1>1, <2>1 DEF DelListeners, fileVars
    <2> QED BY <2>2, LoadRest
  <1>5. ASSUME NEW x \in Texts, FromString(t, x) PROVE LoadInv'
    <2> DEFINE v == FromStr(KindOf[x.name], x.text)
    <2>1. /\ BeginSet(t, th[t], x.name, v.v) \/ th' = th
          /\ th[t].at = "idle" /\ m_val' = m_val /\ m_cbs' = m_cbs /\ content' = content
      BY <1>5 DEF FromString, Call, fileVars
    <2>2. x.name = Logs => LogsOK(v.v)
      BY LogsText
    <2>3. th[t].work = {}
      BY <1>1, <2>1 DEF LoadThread
    <2>4. th[t].members \in Seq(AllMembers)
      BY <1>1 DEF LoadThread
    <2> HIDE DEF v
    <2> QED BY <1>1, <2>1, <2>2, <2>3, <2>4, LoadBegin, LoadRest
  <1>6. ASSUME NEW n \in Loggers, NEW level, Log(t, n, level) PROVE LoadInv'
    <2> DEFINE x == [th[t] EXCEPT !.at = "log", !.name = n, !.level = level]
    <2>1. /\ th' = th \/ Goto(t, x)
          /\ th[t].at = "idle" /\ m_val' = m_val /\ m_cbs' = m_cbs /\ content' = content
      BY <1>6 DEF Log, Call, cfgVars, fileVars
    <2>2. IsRec(x) /\ x.at = "log" /\ x.work = th[t].work /\ x.members = th[t].members
      BY <1>1 DEF IsRec, Fields
    <2> HIDE DEF x
    <2>3. LoadThread(x)
      BY <1>1, <2>1, <2>2 DEF LoadThread, Busy
    <2> QED BY <1>1, <2>1, <2>2, <2>3, LoadMove, LoadRest
  <1>7. ASSUME NEW n \in Loggers, AddAppender(t, n) \/ DelAppender(t, n) \/ \E p \in Formats : SetFormatter(t, n, p)
        PROVE  LoadInv'
    <2>1. th' = th /\ m_val' = m_val /\ m_cbs' = m_cbs /\ content' = content
      BY <1>7 DEF AddAppender, DelAppender, SetFormatter, cfgVars, fileVars
    <2> QED BY <1>1, <2>1, LoadRest
  <1>8. CASE LoadFromConfDir(t)
    <2> DEFINE x == [th[t] EXCEPT !.load = TRUE, !.files = Files, !.fresh = ToSet(Files)]
    <2>1. IsRec(x) /\ x.work = th[t].work /\ x.members = th[t].members
      BY <1>1 DEF IsRec, Fields
    <2>2. /\ Goto(t, Resume(x)) /\ th[t].at = "idle"
          /\ m_val' = m_val /\ m_cbs' = m_cbs /\ content' = content
      BY <1>8 DEF LoadFromConfDir, Call, cfgVars, fileVars
    <2> HIDE DEF x
    <2>3. x.work = {}
      BY <1>1, <2>1, <2>2 DEF LoadThread
    <2>4. x.members \in Seq(AllMembers)
      BY <1>1, <2>1 DEF LoadThread
    <2> QED BY <2>1, <2>2, <2>3, <2>4, LoadResume, LoadMove
  <1> QED BY <1>2, <1>3, <1>4, <1>5, <1>6, <1>7, <1>8 DEF Begin

\* An edit of a file.
LEMMA LoadEdit ==
  ASSUME LoadInv, NEW f \in ToSet(Files), NEW c \in Contents, NEW m, Edit(f, c, m)
  PROVE  LoadInv'
  <1>1. /\ th' = [t \in Threads |-> [th[t] EXCEPT !.fresh = @ \ {f}]]
        /\ m_val' = m_val /\ m_cbs' = m_cbs /\ content' = [content EXCEPT ![f] = c]
    BY DEF Edit, cfgVars
  <1>2. \A s \in Threads : IsRec(th[s]) /\ LoadThread(th[s])
    BY DEF LoadInv, ThOK
  <1>3. \A s \in Threads : /\ IsRec(th'[s]) /\ th'[s].at = th[s].at /\ th'[s].name = th[s].name
                           /\ th'[s].new = th[s].new /\ th'[s].work = th[s].work
                           /\ th'[s].todo = th[s].todo /\ th'[s].members = th[s].members
    BY <1>1, <1>2 DEF IsRec, Fields
  <1>4. ThOK'
    BY <1>1, <1>3 DEF ThOK
  <1>5. \A s \in Threads : LoadThread(th'[s])
    BY <1>2, <1>3 DEF LoadThread
  <1>6. /\ content' = [g \in ToSet(Files) |-> content'[g]]
        /\ \A g \in ToSet(Files) : content'[g] \in Contents \cup {InitialContent}
    BY <1>1 DEF LoadInv
  <1> QED BY <1>1, <1>4, <1>5, <1>6 DEF LoadInv

\* Every step keeps what is loaded well formed.
LEMMA LoadNext ==
  ASSUME SelectedLists, LoadInv, FileInv, KnowInv, [Next]_vars
  PROVE  LoadInv'
  <1>0. VarsOK
    BY DEF KnowInv
  <1>1. ASSUME NEW t \in Threads, Proceed(t) PROVE LoadInv'
    BY <1>0, <1>1, LoadProceed
  <1>2. ASSUME NEW t \in Threads, Begin(t) PROVE LoadInv'
    BY <1>0, <1>2, LoadBeginCall
  <1>3. ASSUME NEW f \in ToSet(Files), NEW c \in Contents, NEW m, Edit(f, c, m) PROVE LoadInv'
    BY <1>3, LoadEdit
  <1>4. CASE UNCHANGED vars
    <2>1. 1 \in m_cbs'[Logs]
      BY <1>4 DEF vars, cfgVars, LoadInv
    <2> QED BY <1>4, <2>1, LoadRest DEF vars, cfgVars, fileVars
  <1> QED BY <1>1, <1>2, <1>3, <1>4 DEF Next

\* A step after which the same threads are setting the logs, as far as before.
SameChange ==
    /\ Setting(Logs)' = Setting(Logs)
    /\ \A s \in Setting(Logs) : /\ 1 \in th'[s].todo <=> 1 \in th[s].todo
                                /\ th'[s].new = th[s].new /\ th'[s].work = th[s].work

\* One in which a thread moves that does not set the logs before or after.
LEMMA SameMove ==
  ASSUME ThOK, NEW t \in Threads, NEW x, IsRec(x), Goto(t, x),
         th[t].at \notin Busy \/ th[t].name # Logs, x.at \notin Busy \/ x.name # Logs
  PROVE  SameChange
  <1>1. th'[t] = x /\ \A s \in Threads \ {t} : th'[s] = th[s]
    BY GotoThread
  <1>2. Setting(Logs)' = Setting(Logs) /\ t \notin Setting(Logs) /\ Setting(Logs) \subseteq Threads
    BY <1>1 DEF Setting, Busy
  <1> QED BY <1>1, <1>2 DEF SameChange

\* It keeps what the loggers are like if it only makes loggers, or changes loggers itself.
LEMMA FollowSame ==
  ASSUME FollowInv, LogInv, SameChange, m_val'[Logs] = m_val[Logs],
         touched \subseteq touched', dropped' = dropped, ~crashed' => ~crashed,
         ~raced'[Logs] => ~raced[Logs],
         \A n \in Loggers : \/ n \in touched' \/ m_loggers'[n] = m_loggers[n]
                            \/ m_loggers'[n] = [m_loggers[n] EXCEPT !.made = TRUE],
         \A n \in Loggers : ~m_loggers'[n].made => m_loggers'[n] = NewLogger
  PROVE  FollowInv'
  <1>1. ASSUME NEW i \in DOMAIN Names, ~crashed', ~raced'[Logs], Names[i] \notin touched' \cup dropped'
        PROVE  Following(i)'
    <2> DEFINE n == Names[i]
               l == m_loggers[Names[i]]
               r == m_loggers'[Names[i]]
    <2>1. n \in Loggers /\ LoggerOK(l) /\ (~l.made => l = NewLogger)
      BY NamesApart DEF FollowInv, LogInv, Loggers
    <2>2. Following(i)
      BY <1>1 DEF FollowInv
    <2>3. r = l \/ r = [l EXCEPT !.made = TRUE]
      BY <1>1, <2>1
    <2>4. ASSUME NEW v, Follows(l, v, n) PROVE Follows(r, v, n)
      <3>1. CASE r = l
        BY <2>4, <3>1
      <3>2. CASE r = [l EXCEPT !.made = TRUE]
        <4> HIDE DEF l, r, n
        <4> QED BY <2>1, <2>4, <3>2, FollowsMade
      <3> QED BY <2>3, <3>1, <3>2
    <2>5. ASSUME NEW W, NEW old, NEW new, Between(l, W, old, new, i) PROVE Between(r, W, old, new, i)
      <3>1. CASE r = l
        BY <2>5, <3>1
      <3>2. CASE r = [l EXCEPT !.made = TRUE]
        <4> HIDE DEF l, r, n
        <4> QED BY <2>1, <2>5, <3>2, BetweenMade
      <3> QED BY <2>3, <3>1, <3>2
    <2>6. Setting(Logs)' = {} => Follows(r, m_val'[Logs], n)
      BY <2>2, <2>4 DEF Following, SameChange
    <2>7. ASSUME NEW t \in Setting(Logs)
          PROVE  IF 1 \in th'[t].todo THEN Follows(r, m_val'[Logs], n)
                 ELSE Between(r, th'[t].work, m_val'[Logs], th'[t].new, i)
      BY <2>2, <2>4, <2>5 DEF Following, SameChange
    <2>8. Setting(Logs)' = Setting(Logs)
      BY DEF SameChange
    <2> HIDE DEF l, r, n
    <2> QED BY <2>6, <2>7, <2>8 DEF Following, l, r, n
  <1> QED BY <1>1 DEF FollowInv

\* A step of a thread that does not set the logs.
LEMMA FollowMove ==
  ASSUME FollowInv, LogInv, NEW t \in Threads, NEW x, IsRec(x), Goto(t, x),
         th[t].at \notin Busy \/ th[t].name # Logs, x.at \notin Busy \/ x.name # Logs,
         m_val'[Logs] = m_val[Logs], ~raced'[Logs] => ~raced[Logs], logVars' = logVars, crashed' = crashed
  PROVE  FollowInv'
  <1>1. SameChange
    BY SameMove DEF LogInv
  <1>2. m_loggers' = m_loggers /\ touched' = touched /\ dropped' = dropped
    BY DEF logVars
  <1>3. \A n \in Loggers : ~m_loggers[n].made => m_loggers[n] = NewLogger
    BY DEF FollowInv
  <1> QED BY <1>1, <1>2, <1>3, FollowSame

LEMMA FollowRest ==
  ASSUME FollowInv, LogInv, th' = th, m_val' = m_val,
         ~raced'[Logs] => ~raced[Logs], logVars' = logVars, crashed' = crashed
  PROVE  FollowInv'
  <1>1. SameChange
    BY DEF SameChange, Setting
  <1>2. m_loggers' = m_loggers /\ touched' = touched /\ dropped' = dropped
    BY DEF logVars
  <1>3. \A n \in Loggers : ~m_loggers[n].made => m_loggers[n] = NewLogger
    BY DEF FollowInv
  <1> QED BY <1>1, <1>2, <1>3, FollowSame

\* At the start there is the root logger only, and nothing is configured.
LEMMA FollowInit == Init => FollowInv
  <1> SUFFICES ASSUME Init PROVE FollowInv
    OBVIOUS
  <1>1. Setting(Logs) = {}
    BY IdleRec DEF Init, Setting
  <1> DEFINE l == [NewLogger EXCEPT !.made = TRUE]
             a == NewAppender(2, None)
  <1>2. m_loggers = [n \in Loggers |-> IF n # Root THEN NewLogger ELSE addAppender(l, a)]
    BY DEF Init, LoggerManager
  <1>3. addAppender(l, a).made
    BY DEF addAppender, NewLogger
  <1> HIDE DEF l, a
  <1>4. \A n \in Loggers : ~m_loggers[n].made => m_loggers[n] = NewLogger
    BY <1>2, <1>3
  <1>5. ~NewLogger.made
    BY DEF NewLogger
  <1>6. DOMAIN m_val[Logs] = {}
    <2>1. m_val[Logs] = [n \in {} |-> 0]
      BY ConfigConstants DEF Init, Empty
    <2> QED BY <2>1
  <1>7. ASSUME NEW i \in DOMAIN Names PROVE Following(i)
    <2>1. Names[i] \in Loggers /\ Names[i] # Root
      BY NamesApart, LogConstants DEF Loggers
    <2>2. ~m_loggers[Names[i]].made
      BY <1>2, <1>5, <2>1
    <2> QED BY <1>1, <1>6, <2>2 DEF Following, Follows
  <1> QED BY <1>4, <1>7 DEF FollowInv

\* A call or a load begins to change a value.
LEMMA FollowBegin ==
  ASSUME FollowInv, LogInv, LoadInv, VarsOK, NEW t \in Threads, NEW x, IsRec(x), NEW n \in VarNames, NEW v,
         BeginSet(t, x, n, v), th[t].at \notin Busy, m_val' = m_val, logVars' = logVars, crashed' = crashed
  PROVE  FollowInv'
  <1>1. CASE v = m_val[n]
    <2>1. IsRec(Resume(x)) /\ Resume(x).at \notin Busy
      BY ResumeRec DEF Busy
    <2>2. Goto(t, Resume(x)) /\ raced' = raced
      BY <1>1 DEF BeginSet
    <2> QED BY <2>1, <2>2, FollowMove
  <1>2. CASE v # m_val[n]
    <2> DEFINE y == [x EXCEPT !.at = "notify", !.name = n, !.new = v, !.todo = Listeners(n)]
    <2>1. IsRec(y) /\ y.at = "notify" /\ y.name = n /\ y.todo = m_cbs[n]
      BY DEF IsRec, Fields, Listeners
    <2>2. Goto(t, y) /\ raced' = [raced EXCEPT ![n] = @ \/ Setting(n) # {}]
      BY <1>2 DEF BeginSet
    <2> HIDE DEF y
    <2>3. /\ n # Logs => raced'[Logs] = raced[Logs]
          /\ n = Logs => raced'[Logs] = (raced[Logs] \/ Setting(Logs) # {})
      BY <2>2, ConfigConstants DEF VarsOK
    <2>4. CASE n # Logs
      BY <2>1, <2>2, <2>3, <2>4, FollowMove
    <2>5. CASE n = Logs
      <3>1. th'[t] = y /\ \A s \in Threads \ {t} : th'[s] = th[s]
        BY <2>1, <2>2, GotoThread DEF LogInv
      <3>2. m_loggers' = m_loggers /\ touched' = touched /\ dropped' = dropped
        BY DEF logVars
      <3>3. ASSUME NEW i \in DOMAIN Names, ~crashed', ~raced'[Logs], Names[i] \notin touched' \cup dropped'
            PROVE  Following(i)'
        <4>1. Setting(Logs) = {} /\ ~raced[Logs] /\ Following(i)
          BY <2>3, <2>5, <3>2, <3>3 DEF FollowInv
        <4>2. Setting(Logs)' = {t}
          BY <4>1, <2>1, <2>5, <3>1 DEF Setting
        <4>3. 1 \in th'[t].todo
          BY <2>1, <2>5, <3>1 DEF LoadInv
        <4>4. Follows(m_loggers'[Names[i]], m_val'[Logs], Names[i])
          BY <4>1, <3>2 DEF Following
        <4> QED BY <4>2, <4>3, <4>4 DEF Following
      <3> QED BY <3>2, <3>3 DEF FollowInv
    <2> QED BY <2>4, <2>5
  <1> QED BY <1>1, <1>2

\* A listener is called. That of the logs comes first, and has everything to do.
LEMMA FollowTell ==
  ASSUME FollowInv, LogInv, LoadInv, KnowInv, NEW t \in Threads, Tell(t)
  PROVE  FollowInv'
  <1>1. /\ IsRec(th[t]) /\ LoadThread(th[t]) /\ th[t].at = "notify" /\ th[t].work = {}
        /\ m_val' = m_val /\ m_loggers' = m_loggers /\ touched' = touched
        /\ crashed' = crashed /\ raced' = raced
    BY DEF LoadInv, ThOK, Tell, At
  <1> DEFINE logs(i) == th[t].name = Logs /\ i = 1
             w(i) == IF logs(i) THEN LogIniter(m_val[th[t].name], th[t].new) ELSE {}
  <1>2. PICK i \in th[t].todo :
          /\ \A j \in th[t].todo : i <= j
          /\ Goto(t, [th[t] EXCEPT !.todo = @ \ {i}, !.work = w(i)])
          /\ dropped' = IF ~logs(i) THEN dropped
                        ELSE IF DOMAIN th[t].new = {} THEN dropped \cup DOMAIN m_val[th[t].name]
                        ELSE dropped \ DOMAIN th[t].new
    BY DEF Tell
  <1> DEFINE x == [th[t] EXCEPT !.todo = @ \ {i}, !.work = w(i)]
  <1>3. /\ IsRec(x) /\ x.at = th[t].at /\ x.name = th[t].name /\ x.new = th[t].new /\ x.work = w(i)
        /\ x.todo = th[t].todo \ {i}
    BY <1>1 DEF IsRec, Fields
  <1>4. Goto(t, x)
    BY <1>2
  <1> HIDE DEF x
  <1>5. ThOK' /\ th'[t] = x /\ \A s \in Threads \ {t} : th'[s] = th[s]
    BY <1>3, <1>4, GotoThread DEF LogInv
  <1>6. th[t].todo \subseteq 1..MaxListeners
    BY <1>1 DEF KnowInv, SetterOK, VarsOK, Busy
  <1>7. Setting(Logs)' = Setting(Logs)
    BY <1>1, <1>3, <1>5 DEF Setting
  <1>8. CASE ~logs(i)
    <2>1. th[t].name = Logs => 1 \notin th[t].todo
      BY <1>2, <1>6, <1>8
    <2>2. SameChange
      <3>1. x.work = {}
        BY <1>3, <1>8
      <3>2. ASSUME NEW s \in Setting(Logs)
            PROVE  /\ 1 \in th'[s].todo <=> 1 \in th[s].todo
                   /\ th'[s].new = th[s].new /\ th'[s].work = th[s].work
        <4>1. CASE s = t
          BY <4>1, <2>1, <3>1, <1>1, <1>3, <1>5 DEF Setting
        <4>2. CASE s # t
          BY <4>2, <1>5 DEF Setting
        <4> QED BY <4>1, <4>2
      <3> QED BY <1>7, <3>2 DEF SameChange
    <2>3. dropped' = dropped
      BY <1>2, <1>8
    <2>4. \A n \in Loggers : ~m_loggers[n].made => m_loggers[n] = NewLogger
      BY DEF FollowInv
    <2> QED BY <1>1, <2>2, <2>3, <2>4, FollowSame
  <1>9. CASE logs(i)
    <2> DEFINE old == m_val[Logs]
               new == th[t].new
    <2>1. /\ dropped' = IF DOMAIN new = {} THEN dropped \cup DOMAIN old ELSE dropped \ DOMAIN new
          /\ x.work = LogIniter(old, new) /\ 1 \in th[t].todo /\ 1 \notin x.todo
      BY <1>2, <1>3, <1>9
    <2>2. t \in Setting(Logs) /\ LogsOK(new)
      BY <1>1, <1>9 DEF Setting, LoadThread, Busy
    <2>3. ASSUME NEW k \in DOMAIN Names, ~crashed', ~raced'[Logs], Names[k] \notin touched' \cup dropped'
          PROVE  Following(k)'
      <3> DEFINE l == m_loggers[Names[k]]
      <3>1. \A s \in Setting(Logs) : s = t
        BY <1>1, <2>2, <2>3, ConfigConstants DEF KnowInv, ToldOK, Told
      <3>2. Names[k] \notin DOMAIN new => Names[k] \notin dropped
        BY <2>1, <2>3
      <3>3. Names[k] \notin DOMAIN new => Follows(l, old, Names[k])
        <4> SUFFICES ASSUME Names[k] \notin DOMAIN new PROVE Follows(l, old, Names[k])
          OBVIOUS
        <4>1. Following(k)
          BY <1>1, <2>3, <3>2 DEF FollowInv
        <4> QED BY <4>1, <2>1, <2>2 DEF Following
      <3>4. Names[k] \in DOMAIN old => DOMAIN new # {}
        BY <2>1, <2>3
      <3> HIDE DEF l, old, new
      <3>5. Between(l, LogIniter(old, new), old, new, k)
        BY <2>2, <3>3, <3>4, BetweenStart
      <3>6. Between(m_loggers'[Names[k]], th'[t].work, m_val'[Logs], th'[t].new, k) /\ 1 \notin th'[t].todo
        BY <1>1, <1>3, <1>5, <2>1, <3>5 DEF l, old, new
      <3>7. Setting(Logs)' = {t}
        BY <1>7, <2>2, <3>1
      <3> QED BY <3>6, <3>7 DEF Following
    <2>4. \A n \in Loggers : ~m_loggers'[n].made => m_loggers'[n] = NewLogger
      BY <1>1 DEF FollowInv
    <2> QED BY <2>3, <2>4 DEF FollowInv
  <1> QED BY <1>8, <1>9

\* One operation of the listener of the logs: the others are still to come, or the program ends.
LEMMA FollowConfigure ==
  ASSUME FollowInv, LogInv, LoadInv, KnowInv, NEW t \in Threads, ConfigureLogger(t)
  PROVE  FollowInv'
  <1>1. /\ IsRec(th[t]) /\ LoadThread(th[t]) /\ LogThread(th[t]) /\ th[t].at = "notify"
        /\ m_val' = m_val /\ raced' = raced /\ touched' = touched /\ dropped' = dropped
    BY DEF LoadInv, LogInv, ThOK, ConfigureLogger, At, cfgVars
  <1>2. PICK o \in th[t].work :
          /\ \A p \in th[t].work \ {o} : Before(o.pos, p.pos)
          /\ crashed' = (o.op = "null")
          /\ m_loggers' = IF o.op = "null" THEN m_loggers ELSE Done(m_loggers, o)
          /\ Goto(t, [th[t] EXCEPT !.work = @ \ {o}])
    BY DEF ConfigureLogger
  <1> DEFINE W == th[t].work
             x == [th[t] EXCEPT !.work = @ \ {o}]
             old == m_val[Logs]
             new == th[t].new
  <1>3. /\ IsRec(x) /\ x.at = th[t].at /\ x.name = th[t].name /\ x.new = new
        /\ x.work = W \ {o} /\ x.todo = th[t].todo
    BY <1>1 DEF IsRec, Fields
  <1>4. th'[t] = x /\ \A s \in Threads \ {t} : th'[s] = th[s]
    BY <1>2, <1>3, GotoThread DEF LogInv
  <1> HIDE DEF x
  <1>5. /\ th[t].name = Logs /\ 1 \notin th[t].todo /\ t \in Setting(Logs) /\ LogsOK(new)
    BY <1>1, <1>2 DEF LoadThread, Setting, Busy
  <1>6. CASE o.op = "null"
    BY <1>2, <1>6 DEF FollowInv
  <1>7. CASE o.op # "null"
    <2> DEFINE l == m_loggers[o.name]
    <2>1. o.name \in Loggers /\ LoggerOK(l)
          /\ o.op \in {"level", "format", "clear", "add"}
      BY <1>1, <1>2, <1>7 DEF LogThread, OpOK, LogInv, Loggers
    <2>2. m_loggers' = [m_loggers EXCEPT ![o.name] = Changed(l, o)]
      BY <1>2, <1>7 DEF Done, Changed
    <2>3. /\ m_loggers'[o.name] = Changed(l, o)
          /\ \A n \in Loggers : n # o.name => m_loggers'[n] = m_loggers[n]
      BY <2>1, <2>2 DEF LogInv
    <2> HIDE DEF l
    <2>4. Changed(l, o).made
      <3> DEFINE m == [l EXCEPT !.made = TRUE]
      <3>1. LoggerOK(m) /\ m.made
        BY <2>1, ChangeOK, FieldsAre
      <3>2. CASE o.op = "level"
        <4>1. Changed(l, o) = [m EXCEPT !.m_level = o.arg]
          BY <3>2 DEF Changed
        <4> HIDE DEF m
        <4> QED BY <3>1, <4>1, FieldsAre
      <3>3. CASE o.op = "format"
        <4>1. Changed(l, o) = setPattern(m, o.arg)
          BY <3>3 DEF Changed
        <4> HIDE DEF m
        <4> QED BY <3>1, <4>1, PatternIs
      <3>4. CASE o.op = "clear"
        <4>1. Changed(l, o) = clearAppenders(m)
          BY <3>4 DEF Changed
        <4> HIDE DEF m
        <4> QED BY <3>1, <4>1, FieldsAre
      <3>5. CASE o.op = "add"
        <4>1. Changed(l, o) = addAppender(m, o.arg)
          BY <3>5 DEF Changed
        <4> HIDE DEF m
        <4>2. DOMAIN m = LoggerFields /\ m = [k \in LoggerFields |-> m[k]]
          BY <3>1 DEF LoggerOK
        <4>3. addAppender(m, o.arg).made = m.made
          BY <4>2 DEF addAppender, LoggerFields
        <4> QED BY <3>1, <4>1, <4>3
      <3> QED BY <2>1, <3>2, <3>3, <3>4, <3>5
    <2>5. \A n \in Loggers : ~m_loggers'[n].made => m_loggers'[n] = NewLogger
      BY <2>3, <2>4 DEF FollowInv
    <2>6. ASSUME NEW k \in DOMAIN Names, ~crashed', ~raced'[Logs], Names[k] \notin touched' \cup dropped'
          PROVE  Following(k)'
      <3>1. Setting(Logs) = {t}
        BY <1>1, <1>5, <2>6, ConfigConstants DEF KnowInv, ToldOK, Told
      <3>2. Following(k)
        <4>1. ~crashed
          BY DEF ConfigureLogger, At
        <4> QED BY <1>1, <2>6, <4>1 DEF FollowInv
      <3>3. Between(m_loggers[Names[k]], W, old, new, k)
        BY <1>5, <3>2 DEF Following
      <3> HIDE DEF W, old, new
      <3>4. Between(m_loggers'[Names[k]], W \ {o}, old, new, k)
        <4>1. CASE o.name # Names[k]
          <5>1. m_loggers'[Names[k]] = m_loggers[Names[k]]
            BY <2>3, <4>1, NamesApart DEF Loggers
          <5>2. Between(m_loggers[Names[k]], W \ {o}, old, new, k)
            BY <3>3, <4>1, BetweenOther
          <5> QED BY <5>1, <5>2
        <4>2. CASE o.name = Names[k]
          <5>1. m_loggers'[Names[k]] = Changed(l, o)
            BY <2>3, <4>2
          <5>2. Between(l, W, old, new, k)
            BY <3>3, <4>2 DEF l
          <5>3. o \in W /\ \A p \in W \ {o} : Before(o.pos, p.pos)
            BY <1>2 DEF W
          <5>4. LogsOK(new)
            BY <1>5 DEF new
          <5>5. Between(Changed(l, o), W \ {o}, old, new, k)
            BY <1>7, <2>1, <4>2, <5>2, <5>3, <5>4, BetweenDone
          <5> QED BY <5>1, <5>5
        <4> QED BY <4>1, <4>2
      <3>5. Setting(Logs)' = Setting(Logs)
        BY <1>1, <1>3, <1>4 DEF Setting
      <3>6. 1 \notin th'[t].todo /\ th'[t].work = W \ {o} /\ th'[t].new = new /\ m_val'[Logs] = old
        BY <1>1, <1>3, <1>4, <1>5 DEF W, old, new
      <3>7. Between(m_loggers'[Names[k]], th'[t].work, m_val'[Logs], th'[t].new, k)
        BY <3>4, <3>6
      <3>8. Setting(Logs)' = {t}
        BY <3>1, <3>5
      <3> QED BY <3>6, <3>7, <3>8 DEF Following
    <2> QED BY <2>5, <2>6 DEF FollowInv
  <1> QED BY <1>6, <1>7

\* The new value is stored, when nothing is left to be done for it.
LEMMA FollowStore ==
  ASSUME FollowInv, LogInv, LoadInv, KnowInv, NEW t \in Threads, Store(t)
  PROVE  FollowInv'
  <1>1. /\ IsRec(th[t]) /\ LoadThread(th[t]) /\ th[t].at = "write"
        /\ m_val' = [m_val EXCEPT ![th[t].name] = th[t].new] /\ Goto(t, Resume(th[t]))
        /\ raced' = raced /\ crashed' = crashed /\ logVars' = logVars
    BY DEF LoadInv, ThOK, Store, At
  <1>2. IsRec(Resume(th[t])) /\ Resume(th[t]).at \notin Busy
    BY <1>1, ResumeRec DEF Busy
  <1>3. th[t].todo = {} /\ th[t].work = {}
    BY <1>1 DEF KnowInv, SetterOK, LoadThread, Busy
  <1>4. CASE th[t].name # Logs
    <2>1. m_val'[Logs] = m_val[Logs]
      BY <1>1, <1>4
    <2> QED BY <1>1, <1>2, <1>4, <2>1, FollowMove
  <1>5. CASE th[t].name = Logs
    <2>1. m_val'[Logs] = th[t].new /\ LogsOK(th[t].new) /\ t \in Setting(Logs)
      BY <1>1, <1>5, ConfigConstants DEF KnowInv, VarsOK, LoadThread, Setting, Busy
    <2>2. th'[t] = Resume(th[t]) /\ \A s \in Threads \ {t} : th'[s] = th[s]
      BY <1>1, <1>2, GotoThread DEF LogInv
    <2>3. m_loggers' = m_loggers /\ touched' = touched /\ dropped' = dropped
      BY <1>1 DEF logVars
    <2>4. ASSUME NEW k \in DOMAIN Names, ~crashed', ~raced'[Logs], Names[k] \notin touched' \cup dropped'
          PROVE  Following(k)'
      <3>1. \A s \in Setting(Logs) : s = t
        BY <1>1, <2>1, <2>4, ConfigConstants DEF KnowInv, ToldOK, Told
      <3>2. Following(k)
        BY <1>1, <2>3, <2>4 DEF FollowInv
      <3>3. Between(m_loggers[Names[k]], {}, m_val[Logs], th[t].new, k)
        BY <1>3, <2>1, <3>2 DEF Following
      <3>4. Follows(m_loggers'[Names[k]], m_val'[Logs], Names[k])
        BY <2>1, <2>3, <3>3, BetweenEnd
      <3>5. Setting(Logs)' = {}
        BY <1>2, <2>2, <3>1 DEF Setting, Busy
      <3> QED BY <3>4, <3>5 DEF Following
    <2>5. \A n \in Loggers : ~m_loggers'[n].made => m_loggers'[n] = NewLogger
      BY <2>3 DEF FollowInv
    <2> QED BY <2>4, <2>5 DEF FollowInv
  <1> QED BY <1>4, <1>5

\* The steps of a call in progress.
LEMMA FollowProceed ==
  ASSUME FollowInv, LogInv, LoadInv, KnowInv, NEW t \in Threads, Proceed(t)
  PROVE  FollowInv'
  <1>1. IsRec(th[t]) /\ VarsOK
    BY DEF LoadInv, ThOK, KnowInv
  <1>2. CASE Tell(t)
    BY <1>2, FollowTell
  <1>3. CASE ConfigureLogger(t)
    BY <1>3, FollowConfigure
  <1>4. CASE Unlock(t)
    <2> DEFINE x == [th[t] EXCEPT !.at = "write"]
    <2>1. /\ IsRec(x) /\ x.at = "write" /\ x.name = th[t].name /\ x.new = th[t].new
          /\ x.work = th[t].work /\ x.todo = th[t].todo
      BY <1>1 DEF IsRec, Fields
    <2>2. /\ Goto(t, x) /\ th[t].at = "notify" /\ m_val' = m_val /\ raced' = raced
          /\ m_loggers' = m_loggers /\ touched' = touched /\ dropped' = dropped /\ crashed' = crashed
      BY <1>4 DEF Unlock, At, logVars
    <2> HIDE DEF x
    <2>3. th'[t] = x /\ \A s \in Threads \ {t} : th'[s] = th[s]
      BY <2>1, <2>2, GotoThread DEF LogInv
    <2>4. Setting(Logs)' = Setting(Logs)
      BY <2>1, <2>2, <2>3 DEF Setting
    <2>5. \A s \in Setting(Logs) : /\ th'[s].todo = th[s].todo
                                   /\ th'[s].new = th[s].new /\ th'[s].work = th[s].work
      BY <2>1, <2>3 DEF Setting
    <2>6. SameChange
      BY <2>4, <2>5 DEF SameChange
    <2>7. \A n \in Loggers : ~m_loggers[n].made => m_loggers[n] = NewLogger
      BY DEF FollowInv
    <2> QED BY <2>2, <2>6, <2>7, FollowSame
  <1>5. CASE Store(t)
    BY <1>5, FollowStore
  <1>6. CASE WriteLog(t)
    <2>1. /\ th[t].at \notin Busy /\ Goto(t, Idle) /\ m_val' = m_val /\ raced' = raced
          /\ m_loggers' = m_loggers /\ touched' = touched /\ dropped' = dropped /\ crashed' = crashed
      BY <1>6 DEF WriteLog, At, Busy, cfgVars
    <2>2. SameChange
      BY <2>1, IdleRec, SameMove DEF LogInv, Busy
    <2>3. \A n \in Loggers : ~m_loggers[n].made => m_loggers[n] = NewLogger
      BY DEF FollowInv
    <2> QED BY <2>1, <2>2, <2>3, FollowSame
  <1>7. CASE Stat(t)
    <2>1. PICK st : Goto(t, [th[t] EXCEPT !.at = "check", !.st = st])
      BY <1>7 DEF Stat
    <2> DEFINE x == [th[t] EXCEPT !.at = "check", !.st = st]
    <2>2. IsRec(x) /\ x.at \notin Busy
      BY <1>1 DEF IsRec, Fields, Busy
    <2>3. /\ Goto(t, x) /\ th[t].at \notin Busy /\ m_val' = m_val /\ raced' = raced
          /\ logVars' = logVars /\ crashed' = crashed
      BY <1>7, <2>1 DEF Stat, At, cfgVars, Busy
    <2> HIDE DEF x
    <2> QED BY <2>2, <2>3, FollowMove
  <1>8. CASE Check(t)
    <2> DEFINE x == [th[t] EXCEPT !.files = Tail(@), !.st = 0]
               y == [th[t] EXCEPT !.at = "read"]
    <2>1. IsRec(x) /\ IsRec(y) /\ y.at \notin Busy
      BY <1>1 DEF IsRec, Fields, Busy
    <2>2. /\ Goto(t, Resume(x)) \/ Goto(t, y)
          /\ th[t].at \notin Busy /\ m_val' = m_val /\ raced' = raced
          /\ logVars' = logVars /\ crashed' = crashed
      BY <1>8 DEF Check, At, cfgVars, Busy
    <2> HIDE DEF x, y
    <2>3. IsRec(Resume(x)) /\ Resume(x).at \notin Busy
      BY <2>1, ResumeRec DEF Busy
    <2> QED BY <2>1, <2>2, <2>3, FollowMove
  <1>9. CASE ReadFile(t)
    <2>1. PICK ms : Goto(t, Resume([th[t] EXCEPT !.files = Tail(@), !.st = 0, !.members = ms]))
      BY <1>9 DEF ReadFile
    <2> DEFINE x == [th[t] EXCEPT !.files = Tail(@), !.st = 0, !.members = ms]
    <2>2. IsRec(x)
      BY <1>1 DEF IsRec, Fields
    <2>3. /\ Goto(t, Resume(x)) /\ th[t].at \notin Busy /\ m_val' = m_val /\ raced' = raced
          /\ logVars' = logVars /\ crashed' = crashed
      BY <1>9, <2>1 DEF ReadFile, At, cfgVars, Busy
    <2> HIDE DEF x
    <2>4. IsRec(Resume(x)) /\ Resume(x).at \notin Busy
      BY <2>2, ResumeRec DEF Busy
    <2> QED BY <2>3, <2>4, FollowMove
  <1>10. CASE LoadMember(t)
    <2> DEFINE x == [th[t] EXCEPT !.members = Tail(@)]
               m == Head(th[t].members)
    <2>1. IsRec(x)
      BY <1>1 DEF IsRec, Fields
    <2>2. /\ th[t].at \notin Busy /\ m_val' = m_val /\ logVars' = logVars /\ crashed' = crashed
      BY <1>10 DEF LoadMember, At, Busy
    <2>3. \/ m.name \in datas /\ \E v : BeginSet(t, x, m.name, v)
          \/ Goto(t, Resume(x)) /\ raced' = raced
      BY <1>10 DEF LoadMember
    <2> HIDE DEF x, m
    <2>4. IsRec(Resume(x)) /\ Resume(x).at \notin Busy
      BY <2>1, ResumeRec DEF Busy
    <2>5. ASSUME m.name \in datas, NEW v, BeginSet(t, x, m.name, v) PROVE FollowInv'
      <3>1. PICK n \in VarNames : n = m.name
        BY <1>1, <2>5 DEF VarsOK
      <3> QED BY <1>1, <2>1, <2>2, <2>5, <3>1, FollowBegin
    <2>6. CASE Goto(t, Resume(x)) /\ raced' = raced
      BY <2>2, <2>4, <2>6, FollowMove
    <2> QED BY <2>3, <2>5, <2>6
  <1>11. CASE Loaded(t)
    <2>1. /\ th[t].at \notin Busy /\ Goto(t, Idle) /\ m_val' = m_val /\ raced' = raced
          /\ logVars' = logVars /\ crashed' = crashed
      BY <1>11 DEF Loaded, At, Busy, cfgVars
    <2>2. Idle.at \notin Busy
      BY IdleRec DEF Busy
    <2> QED BY <2>1, <2>2, IdleRec, FollowMove
  <1> QED
    BY <1>2, <1>3, <1>4, <1>5, <1>6, <1>7, <1>8, <1>9, <1>10, <1>11 DEF Proceed

\* The first step of a call.
LEMMA FollowBeginCall ==
  ASSUME FollowInv, LogInv, LoadInv, KnowInv, NEW t \in Threads, Begin(t)
  PROVE  FollowInv'
  <1>1. IsRec(th[t]) /\ VarsOK /\ \A n \in Loggers : ~m_loggers[n].made => m_loggers[n] = NewLogger
    BY DEF LoadInv, ThOK, KnowInv, FollowInv
  <1>2. ASSUME NEW n \in VarNames,
               Lookup(t, n) \/ AddListener(t, n) \/ DelListener(t, n) \/ ClearListener(t, n)
        PROVE  FollowInv'
    <2>1. /\ th' = th /\ m_val' = m_val /\ logVars' = logVars /\ crashed' = crashed
          /\ raced' = raced \/ raced' = [raced EXCEPT ![n] = @ \/ Setting(n) # {}]
      BY <1>2 DEF Lookup, AddListener, DelListener, ClearListener, DelListeners
    <2>2. ~raced'[Logs] => ~raced[Logs]
      BY <1>1, <2>1, ConfigConstants DEF VarsOK
    <2> QED BY <2>1, <2>2, FollowRest
  <1>3. ASSUME NEW x \in Texts, FromString(t, x) PROVE FollowInv'
    <2>1. /\ th[t].at \notin Busy /\ m_val' = m_val /\ logVars' = logVars /\ crashed' = crashed
          /\ x.name \in VarNames
      BY <1>1, <1>3 DEF FromString, Call, Busy, VarsOK
    <2>2. \/ \E v : BeginSet(t, th[t], x.name, v)
          \/ th' = th /\ raced' = raced
      BY <1>3 DEF FromString
    <2>3. ASSUME NEW v, BeginSet(t, th[t], x.name, v) PROVE FollowInv'
      BY <1>1, <2>1, <2>3, FollowBegin
    <2>4. CASE th' = th /\ raced' = raced
      BY <2>1, <2>4, FollowRest
    <2> QED BY <2>2, <2>3, <2>4
  <1>4. ASSUME NEW n \in Loggers, NEW level, Log(t, n, level) PROVE FollowInv'
    <2> DEFINE x == [th[t] EXCEPT !.at = "log", !.name = n, !.level = level]
    <2>1. /\ th' = th \/ Goto(t, x)
          /\ th[t].at \notin Busy /\ m_val' = m_val /\ raced' = raced
          /\ touched' = touched /\ dropped' = dropped /\ crashed' = crashed
          /\ m_loggers' = [m_loggers EXCEPT ![n].made = TRUE]
      BY <1>4 DEF Log, Call, Busy, cfgVars
    <2>2. IsRec(x) /\ x.at \notin Busy
      BY <1>1 DEF IsRec, Fields, Busy
    <2> HIDE DEF x
    <2>3. SameChange
      <3>1. CASE th' = th
        BY <3>1 DEF SameChange, Setting
      <3>2. CASE Goto(t, x)
        BY <2>1, <2>2, <3>2, SameMove DEF LogInv
      <3> QED BY <2>1, <3>1, <3>2
    <2>4. /\ m_loggers'[n] = [m_loggers[n] EXCEPT !.made = TRUE]
          /\ \A k \in Loggers \ {n} : m_loggers'[k] = m_loggers[k]
      BY <2>1 DEF LogInv
    <2>5. m_loggers'[n].made
      BY <2>4, FieldsAre DEF LogInv
    <2>6. \A k \in Loggers : \/ m_loggers'[k] = m_loggers[k]
                             \/ m_loggers'[k] = [m_loggers[k] EXCEPT !.made = TRUE]
      BY <2>4
    <2>7. \A k \in Loggers : ~m_loggers'[k].made => m_loggers'[k] = NewLogger
      BY <1>1, <2>4, <2>5
    <2> QED BY <2>1, <2>3, <2>6, <2>7, FollowSame
  <1>5. ASSUME NEW n \in Loggers, NEW l, l.made, m_loggers' = [m_loggers EXCEPT ![n] = l],
               touched' = touched \cup {n}, th' = th, m_val' = m_val, raced' = raced,
               dropped' = dropped, crashed' = crashed
        PROVE  FollowInv'
    <2>1. SameChange
      BY <1>5 DEF SameChange, Setting
    <2>2. m_loggers'[n] = l /\ \A k \in Loggers \ {n} : m_loggers'[k] = m_loggers[k]
      BY <1>5 DEF LogInv
    <2>3. \A k \in Loggers : k \in touched' \/ m_loggers'[k] = m_loggers[k]
      BY <1>5, <2>2
    <2>4. \A k \in Loggers : ~m_loggers'[k].made => m_loggers'[k] = NewLogger
      BY <1>1, <1>5, <2>2
    <2> QED BY <1>5, <2>1, <2>3, <2>4, FollowSame
  <1>6. ASSUME NEW n \in Loggers, NEW p \in Formats, SetFormatter(t, n, p) PROVE FollowInv'
    <2>1. /\ m_loggers[n].made /\ m_loggers' = [m_loggers EXCEPT ![n] = setPattern(m_loggers[n], p)]
          /\ touched' = touched \cup {n} /\ th' = th /\ m_val' = m_val /\ raced' = raced
          /\ dropped' = dropped /\ crashed' = crashed
      BY <1>6 DEF SetFormatter, cfgVars
    <2>2. setPattern(m_loggers[n], p).made
      BY <2>1, PatternIs DEF LogInv
    <2> QED BY <1>5, <2>1, <2>2
  <1>7. \A l, a, i : LoggerOK(l) => addAppender(l, a).made = l.made /\ delAppender(l, i).made = l.made
    BY DEF LoggerOK, LoggerFields, addAppender, delAppender
  <1>8. ASSUME NEW n \in Loggers, AddAppender(t, n) PROVE FollowInv'
    <2>1. PICK a \in own : m_loggers' = [m_loggers EXCEPT ![n] = addAppender(m_loggers[n], a)]
      BY <1>8 DEF AddAppender
    <2>2. /\ m_loggers[n].made
          /\ touched' = touched \cup {n} /\ th' = th /\ m_val' = m_val /\ raced' = raced
          /\ dropped' = dropped /\ crashed' = crashed
      BY <1>8 DEF AddAppender, cfgVars
    <2>3. addAppender(m_loggers[n], a).made
      BY <1>7, <2>2 DEF LogInv
    <2> QED BY <1>5, <2>1, <2>2, <2>3
  <1>9. ASSUME NEW n \in Loggers, DelAppender(t, n) PROVE FollowInv'
    <2>1. PICK i \in DOMAIN m_loggers[n].m_appenders :
            m_loggers' = [m_loggers EXCEPT ![n] = delAppender(m_loggers[n], i)]
      BY <1>9 DEF DelAppender
    <2>2. /\ touched' = touched \cup {n} /\ th' = th /\ m_val' = m_val /\ raced' = raced
          /\ dropped' = dropped /\ crashed' = crashed
      BY <1>9 DEF DelAppender, cfgVars
    <2>3. m_loggers[n].made
      <3>1. NewLogger.m_appenders = <<>>
        BY DEF NewLogger
      <3> QED BY <1>1, <2>1, <3>1
    <2>4. delAppender(m_loggers[n], i).made
      BY <1>7, <2>3 DEF LogInv
    <2> QED BY <1>5, <2>1, <2>2, <2>4
  <1>10. CASE LoadFromConfDir(t)
    <2> DEFINE x == [th[t] EXCEPT !.load = TRUE, !.files = Files, !.fresh = ToSet(Files)]
    <2>1. IsRec(x)
      BY <1>1 DEF IsRec, Fields
    <2>2. /\ Goto(t, Resume(x)) /\ th[t].at \notin Busy
          /\ m_val' = m_val /\ raced' = raced /\ logVars' = logVars /\ crashed' = crashed
      BY <1>10 DEF LoadFromConfDir, Call, cfgVars, Busy
    <2> HIDE DEF x
    <2>3. IsRec(Resume(x)) /\ Resume(x).at \notin Busy
      BY <2>1, ResumeRec DEF Busy
    <2> QED BY <2>2, <2>3, FollowMove
  <1> QED BY <1>2, <1>3, <1>4, <1>6, <1>8, <1>9, <1>10 DEF Begin

\* Every step keeps what is known of the loggers.
LEMMA FollowNext ==
  ASSUME FollowInv, LogInv, LoadInv, KnowInv, [Next]_vars
  PROVE  FollowInv'
  <1>1. ASSUME NEW t \in Threads, Proceed(t) PROVE FollowInv'
    BY <1>1, FollowProceed
  <1>2. ASSUME NEW t \in Threads, Begin(t) PROVE FollowInv'
    BY <1>2, FollowBeginCall
  <1>3. ASSUME NEW f, NEW c, NEW m, Edit(f, c, m) PROVE FollowInv'
    <2>1. /\ th' = [t \in Threads |-> [th[t] EXCEPT !.fresh = @ \ {f}]]
          /\ m_val' = m_val /\ raced' = raced /\ m_loggers' = m_loggers
          /\ touched' = touched /\ dropped' = dropped /\ crashed' = crashed
      BY <1>3 DEF Edit, cfgVars, logVars
    <2>2. \A s \in Threads : IsRec(th[s])
      BY DEF LogInv, ThOK
    <2>3. \A s \in Threads : /\ th'[s].at = th[s].at /\ th'[s].name = th[s].name
                             /\ th'[s].new = th[s].new /\ th'[s].work = th[s].work
                             /\ th'[s].todo = th[s].todo
      BY <2>1, <2>2 DEF IsRec, Fields
    <2>4. SameChange
      BY <2>3 DEF SameChange, Setting
    <2>5. \A n \in Loggers : ~m_loggers[n].made => m_loggers[n] = NewLogger
      BY DEF FollowInv
    <2> QED BY <2>1, <2>4, <2>5, FollowSame
  <1>4. CASE UNCHANGED vars
    BY <1>4, FollowRest DEF vars, cfgVars
  <1> QED BY <1>1, <1>2, <1>3, <1>4 DEF Next

\* The loggers are as the variable "logs" says once nobody changes it: the listener does
\* all that a new value asks for, in its order and for every logger, before the value is
\* stored. The program's own changes, overlapping changes and an empty configuration are
\* the exceptions that LoggersFollow names.
THEOREM ConfigLoggersFollow == ASSUME SelectedLists PROVE Spec => []LoggersFollow
  <1>1. ASSUME LogInv, FollowInv, LoadInv PROVE LoggersFollow
    <2>1. Quiet => Setting(Logs) = {}
      BY DEF Quiet, Setting
    <2>2. ASSUME Quiet, ~crashed, ~raced[Logs], NEW n \in ToSet(Names) \ (touched \cup dropped)
          PROVE  Follows(m_loggers[n], m_val[Logs], n)
      <3>1. PICK i \in DOMAIN Names : Names[i] = n
        BY NamesApart
      <3>2. Following(i)
        BY <1>1, <2>2, <3>1 DEF FollowInv
      <3> QED BY <2>1, <2>2, <3>1, <3>2 DEF Following
    <2>3. ASSUME NEW n \in DOMAIN m_val[Logs]
          PROVE  DOMAIN m_val[Logs][n].appenders = 1..Len(m_val[Logs][n].appenders)
      <3>1. PICK s : s = m_val[Logs][n].appenders /\ s \in Seq(ToSet(s))
        BY <1>1 DEF LoadInv, LogsOK, IsSeq
      <3> QED BY <3>1
    <2> QED BY <2>2, <2>3 DEF LoggersFollow, Follows, Formatted, Built, AsDefined, Off
  <1> DEFINE Inv == KnowInv /\ FileInv /\ LogInv /\ LoadInv /\ FollowInv
  <1>2. Init => Inv
    BY KnowInit, FileInit, LogInit, LoadInit, FollowInit
  <1>3. Inv /\ [Next]_vars => Inv'
    BY KnowNext, FileNext, LogNext, LoadNext, FollowNext
  <1>4. Inv => LoggersFollow
    BY <1>1
  <1> QED BY <1>2, <1>3, <1>4, PTL DEF Spec
=============================================================================
