------------------------------- MODULE Config -------------------------------
(***************************************************************************)
(* Configuration variables and their files (ljrServer/config.h,            *)
(* config.cpp), with the loggers that follow the variable "logs".          *)
(*                                                                         *)
(* A name is the sequence of keys that leads to a value, which the code    *)
(* joins with dots.  ConfigVar's lock is held for reading while setValue   *)
(* compares and tells the listeners, released, and taken for writing to    *)
(* store the value: two steps at least, and one for each listener and each *)
(* operation of LogIniter.  Everything else is done under one lock.        *)
(***************************************************************************)
EXTENDS Log

CONSTANTS
    Threads,
    VarNames,       \* names of the variables the program may look up
    Logs,           \* the name <<"logs">>
    KindOf,         \* the type of each: "scalar", "vector", "set", "map" or "logs"
    Texts,          \* YAML values the program sets with fromString: [name, text]
    Samples,        \* for the types of containers: texts to convert there and back
    ValidKeys,      \* keys of allowed characters only
    Files,          \* the files LoadFromConfDir finds, in its order
    Contents,       \* what a file may hold: [broken, members], members [name, text]
    InitialContent, \* what the files hold at first
    Formats,        \* patterns the program gives to loggers
    MaxListeners,   \* bound on the listeners of a variable
    MaxOps,         \* bound on the calls of the program and the edits of files
    MaxTime         \* the times a file may have, in seconds, are 1..MaxTime

ASSUME ConfigConstants ==
    /\ Logs \in VarNames /\ KindOf[Logs] = "logs" /\ \A x \in Texts : x.name \in VarNames
    /\ Files \in Seq(ToSet(Files)) /\ MaxOps \in Nat /\ MaxTime \in Nat \ {0}
    /\ MaxListeners \in Nat \ {0} /\ DOMAIN KindOf = VarNames
    /\ None \notin Formats    \* None stands for the empty pattern as well as for none

VARIABLES
    datas,          \* the names Lookup has registered
    m_val, m_cbs,   \* value and listeners of each variable
    s_fun_id,       \* the last listener id of each variable
    readers,        \* the threads that hold its lock for reading
    told,           \* history: the value each listener was last told, or had seen
    raced,          \* history: two setValue overlapped, or a listener came too late
    th,             \* what each thread is doing
    m_loggers,
    own,            \* the appender of the program, empty while a logger has it
    touched,        \* loggers the program has changed itself
    dropped,        \* loggers an empty configuration should have removed
    out,            \* what the last event of a thread wrote
    content, mtime,
    stamp,          \* s_file2modifytime
    seen,           \* history: the content that was last read
    sameTime,       \* history: a file got a new content and the recorded time
    settled,        \* files a whole LoadFromConfDir has passed since their last edit
    crashed, ops

cfgVars == <<datas, m_val, m_cbs, s_fun_id, readers, told, raced>>
logVars == <<m_loggers, own, touched, dropped, out>>
fileVars == <<content, mtime, stamp, seen, sameTime, settled>>
vars == <<cfgVars, logVars, fileVars, th, crashed, ops>>

-----------------------------------------------------------------------------
(* Conversions.  A text of a number is a natural number; Junk is none.     *)

Junk == -1
Casts(elems) == Junk \notin ToSet(elems)

\* LexicalCast from a string: a map keeps the first of two values of a key. The text of a
\* number is the number, and of a vector the sequence of its elements; the entries of "logs"
\* are maps whose members are texts, for which as<std::string> does not throw.
FirstOf(pairs, k) == pairs[SelectInSeq(pairs, LAMBDA x : x[1] = k)][2]
FromStr(kind, text) ==
    CASE kind = "scalar" -> [ok |-> text # Junk, v |-> text]
      [] kind = "vector" -> [ok |-> Casts(text), v |-> text]
      [] kind = "set"    -> [ok |-> Casts(text), v |-> ToSet(text)]
      [] kind = "map"    -> [ok |-> Casts([i \in DOMAIN text |-> text[i][2]]),
                             v |-> [k \in {text[i][1] : i \in DOMAIN text} |-> FirstOf(text, k)]]
      [] kind = "logs"   -> [ok |-> TRUE, v |-> LogsFromYaml(text)]

\* LexicalCast to a string
ToStr(kind, v) ==
    CASE kind \in {"scalar", "vector"} -> v
      [] kind = "set"  -> SetToSortSeq(v, LAMBDA a, b : a < b)
      [] kind = "map"  -> LET ks == SetToSeq(DOMAIN v) IN [i \in DOMAIN ks |-> <<ks[i], v[ks[i]]>>]
      [] kind = "logs" -> LogsToYaml(v)

Returns(kind, v) == FromStr(kind, ToStr(kind, v)) = [ok |-> TRUE, v |-> v]
SamplesReturn ==
    \A kind \in DOMAIN Samples : \A text \in Samples[kind] :
        FromStr(kind, text).ok => Returns(kind, FromStr(kind, text).v)

Empty(kind) ==
    CASE kind = "scalar" -> 0
      [] kind = "set"    -> {}
      [] kind = "vector" -> <<>>
      [] OTHER           -> [n \in {} |-> 0]

Idle == [at |-> "idle", name |-> Logs, new |-> Empty("logs"), todo |-> {}, work |-> {},
         load |-> FALSE, members |-> <<>>, files |-> <<>>, st |-> 0, fresh |-> {}, level |-> 0]

Init ==
    /\ datas = {Logs}
    /\ m_val = [n \in VarNames |-> Empty(KindOf[n])]
    /\ m_cbs = [n \in VarNames |-> IF n = Logs THEN {1} ELSE {}]
    /\ s_fun_id = [n \in VarNames |-> IF n = Logs THEN 1 ELSE 0]
    /\ readers = [n \in VarNames |-> {}]
    /\ told = [n \in VarNames |-> [i \in 1..MaxListeners |-> Empty(KindOf[n])]]
    /\ raced = [n \in VarNames |-> FALSE]
    /\ th = [t \in Threads |-> Idle]
    /\ m_loggers = LoggerManager /\ own = {NewAppender(3, None)}
    /\ touched = {} /\ dropped = {} /\ out = [t \in Threads |-> {}]
    /\ content = [f \in ToSet(Files) |-> InitialContent]
    /\ mtime = [f \in ToSet(Files) |-> MaxTime]
    /\ stamp = [f \in ToSet(Files) |-> 0] /\ seen = content
    /\ sameTime = [f \in ToSet(Files) |-> FALSE] /\ settled = {}
    /\ crashed = FALSE /\ ops = 0

Setting(n) == {t \in Threads : th[t].at \in {"notify", "write"} /\ th[t].name = n}

\* Where a thread goes on when a call ends: the next member, the next file, the end
After(x) == IF x.members # <<>> THEN "members" ELSE IF x.files # <<>> THEN "stat"
            ELSE IF x.load THEN "loaded" ELSE "idle"
Resume(x) == [x EXCEPT !.at = After(x), !.new = Empty("logs"), !.name = Logs]

Goto(t, x) == th' = [th EXCEPT ![t] = x]
Call(t) == th[t].at = "idle" /\ ~crashed /\ ops < MaxOps /\ ops' = ops + 1
At(t, where) == th[t].at = where /\ ~crashed

-----------------------------------------------------------------------------
(* ConfigVar::setValue, called by thread t which is x otherwise             *)

\* Bug: the listener that came last is not called
ListenersButLast(n) == {i \in m_cbs[n] : i = 1 \/ i < s_fun_id[n]}

\* The keys of m_cbs: those that are left are passed in their order
Listeners(n) == m_cbs[n]

\* The read lock, and an equal value returns at once
BeginSet(t, x, n, v) ==
    IF v = m_val[n]
    THEN Goto(t, Resume(x)) /\ UNCHANGED <<readers, raced>>
    ELSE /\ Goto(t, [x EXCEPT !.at = "notify", !.name = n, !.new = v, !.todo = Listeners(n)])
         /\ readers' = [readers EXCEPT ![n] = @ \cup {t}]
         /\ raced' = [raced EXCEPT ![n] = @ \/ Setting(n) # {}]

\* The next listener is called; that of the logs has work to do
Tell(t) ==
    /\ At(t, "notify") /\ th[t].work = {}
    /\ \E i \in th[t].todo :
        /\ \A j \in th[t].todo : i <= j
        /\ LET n == th[t].name
               logs == n = Logs /\ i = 1
           IN  /\ told' = [told EXCEPT ![n][i] = th[t].new]
               /\ Goto(t, [th[t] EXCEPT !.todo = @ \ {i},
                                        !.work = IF logs THEN LogIniter(m_val[n], th[t].new) ELSE {}])
               /\ dropped' = IF ~logs THEN dropped
                             ELSE IF DOMAIN th[t].new = {} THEN dropped \cup DOMAIN m_val[n]
                             ELSE dropped \ DOMAIN th[t].new
    /\ UNCHANGED <<datas, m_val, m_cbs, s_fun_id, readers, raced, m_loggers, own, touched, out,
                   fileVars, crashed, ops>>

\* One operation of LogIniter
ConfigureLogger(t) ==
    /\ At(t, "notify")
    /\ \E o \in th[t].work :
        /\ \A p \in th[t].work \ {o} : Before(o.pos, p.pos)
        /\ crashed' = (o.op = "null")
        /\ m_loggers' = IF o.op = "null" THEN m_loggers ELSE Done(m_loggers, o)
        /\ Goto(t, [th[t] EXCEPT !.work = @ \ {o}])
    /\ UNCHANGED <<cfgVars, own, touched, dropped, out, fileVars, ops>>

Unlock(t) ==
    /\ At(t, "notify") /\ th[t].work = {} /\ th[t].todo = {}
    /\ readers' = [readers EXCEPT ![th[t].name] = @ \ {t}]
    /\ Goto(t, [th[t] EXCEPT !.at = "write"])
    /\ UNCHANGED <<datas, m_val, m_cbs, s_fun_id, told, raced, logVars, fileVars, crashed, ops>>

\* The write lock is free: store the value
Store(t) ==
    /\ At(t, "write") /\ readers[th[t].name] = {}
    /\ m_val' = [m_val EXCEPT ![th[t].name] = th[t].new]
    /\ Goto(t, Resume(th[t]))
    /\ UNCHANGED <<datas, m_cbs, s_fun_id, readers, told, raced, logVars, fileVars, crashed, ops>>

-----------------------------------------------------------------------------
(* Calls of the program                                                    *)

\* Lookup with a default makes the variable; the other results change nothing
Lookup(t, n) ==
    /\ Call(t) /\ n \notin datas
    /\ datas' = datas \cup {n}
    /\ UNCHANGED <<m_val, m_cbs, s_fun_id, readers, told, raced, logVars, fileVars, th, crashed>>

\* fromString: an exception of the conversion is caught and changes nothing
FromString(t, x) ==
    /\ Call(t) /\ x.name \in datas
    /\ LET v == FromStr(KindOf[x.name], x.text)
       IN  IF v.ok THEN BeginSet(t, th[t], x.name, v.v) ELSE UNCHANGED <<th, readers, raced>>
    /\ UNCHANGED <<datas, m_val, m_cbs, s_fun_id, told, logVars, fileVars, crashed>>

\* addListener, delListener and clearListener wait for the write lock. s_fun_id is one for
\* all variables of a type: here each variable has a type of its own.
AddListener(t, n) ==
    /\ Call(t) /\ n \in datas /\ readers[n] = {} /\ s_fun_id[n] < MaxListeners
    /\ s_fun_id' = [s_fun_id EXCEPT ![n] = @ + 1]
    /\ m_cbs' = [m_cbs EXCEPT ![n] = @ \cup {s_fun_id'[n]}]
    /\ told' = [told EXCEPT ![n][s_fun_id'[n]] = m_val[n]]
    /\ raced' = [raced EXCEPT ![n] = @ \/ Setting(n) # {}]
    /\ UNCHANGED <<datas, m_val, readers, logVars, fileVars, th, crashed>>

DelListeners(t, n, gone) ==
    /\ Call(t) /\ n \in datas /\ readers[n] = {} /\ gone # {}
    /\ m_cbs' = [m_cbs EXCEPT ![n] = @ \ gone]
    /\ UNCHANGED <<datas, m_val, s_fun_id, readers, told, raced, logVars, fileVars, th, crashed>>
DelListener(t, n) == \E i \in m_cbs[n] \ {1} : DelListeners(t, n, {i})
ClearListener(t, n) == n # Logs /\ DelListeners(t, n, m_cbs[n])

\* Logging macro: the level is tested before the event is made and again in log()
Log(t, n, level) ==
    /\ Call(t)
    /\ m_loggers' = [m_loggers EXCEPT ![n].made = TRUE]
    /\ IF m_loggers[n].m_level <= level
       THEN Goto(t, [th[t] EXCEPT !.at = "log", !.name = n, !.level = level])
       ELSE UNCHANGED th
    /\ out' = [out EXCEPT ![t] = {}]
    /\ UNCHANGED <<cfgVars, own, touched, dropped, fileVars, crashed>>

\* log() tests m_level without the mutex and then writes under it: one step here, as no
\* event that passes the test is dropped for a level that is set in between.
WriteLog(t) ==
    /\ At(t, "log")
    /\ out' = [out EXCEPT ![t] = Written(m_loggers, th[t].name, th[t].level)]
    /\ Goto(t, Idle)
    /\ UNCHANGED <<cfgVars, m_loggers, own, touched, dropped, fileVars, crashed, ops>>

\* The program changes a logger: its formatter, or its own appender comes and goes
SetFormatter(t, n, p) ==
    /\ Call(t) /\ m_loggers[n].made
    /\ m_loggers' = [m_loggers EXCEPT ![n] = setPattern(@, p)]
    /\ touched' = touched \cup {n}
    /\ UNCHANGED <<cfgVars, own, dropped, out, fileVars, th, crashed>>

AddAppender(t, n) ==
    /\ Call(t) /\ own # {} /\ m_loggers[n].made
    /\ \E a \in own : m_loggers' = [m_loggers EXCEPT ![n] = addAppender(@, a)]
    /\ own' = {} /\ touched' = touched \cup {n}
    /\ UNCHANGED <<cfgVars, dropped, out, fileVars, th, crashed>>

DelAppender(t, n) ==
    /\ Call(t)
    /\ \E i \in DOMAIN m_loggers[n].m_appenders :
        /\ m_loggers[n].m_appenders[i].type = 3
        /\ m_loggers' = [m_loggers EXCEPT ![n] = delAppender(@, i)]
        /\ own' = {m_loggers[n].m_appenders[i]}
    /\ touched' = touched \cup {n}
    /\ UNCHANGED <<cfgVars, dropped, out, fileVars, th, crashed>>

-----------------------------------------------------------------------------
(* LoadFromConfDir                                                         *)

LoadFromConfDir(t) ==
    /\ Call(t)
    /\ Goto(t, Resume([th[t] EXCEPT !.load = TRUE, !.files = Files, !.fresh = ToSet(Files)]))
    /\ UNCHANGED <<cfgVars, logVars, fileVars, crashed>>

Stat(t) ==
    /\ At(t, "stat")
    /\ Goto(t, [th[t] EXCEPT !.at = "check", !.st = mtime[Head(th[t].files)]])
    /\ UNCHANGED <<cfgVars, logVars, fileVars, crashed, ops>>

\* Bug: only a later time counts as a change
SkipsOlder(f, st) == stamp[f] >= st

Skips(f, st) == stamp[f] = st

\* Under s_mutex: an unchanged file is skipped, else its time is recorded
Check(t) ==
    /\ At(t, "check")
    /\ LET f == Head(th[t].files)
           x == [th[t] EXCEPT !.files = Tail(@), !.st = 0]
       IN  IF Skips(f, th[t].st)
           THEN Goto(t, Resume(x)) /\ UNCHANGED stamp
           ELSE /\ Goto(t, [th[t] EXCEPT !.at = "read"])
                /\ stamp' = [stamp EXCEPT ![f] = th[t].st]
    /\ UNCHANGED <<cfgVars, logVars, content, mtime, seen, sameTime, settled, crashed, ops>>

\* ListAllMember: a key with other characters hides all below it
ListAllMember(members) ==
    SelectSeq(members, LAMBDA m : \A i \in DOMAIN m.name : m.name[i] \in ValidKeys)

\* LoadFile; a file that does not parse is an exception, caught
ReadFile(t) ==
    /\ At(t, "read")
    /\ LET f == Head(th[t].files)
           c == content[f]
       IN  /\ Goto(t, Resume([th[t] EXCEPT !.files = Tail(@), !.st = 0,
                        !.members = IF c.broken THEN <<>> ELSE ListAllMember(c.members)]))
           /\ seen' = [seen EXCEPT ![f] = c]
           /\ sameTime' = [sameTime EXCEPT ![f] = FALSE]
    /\ UNCHANGED <<cfgVars, logVars, content, mtime, stamp, settled, crashed, ops>>

\* LoadFromYaml, one member: a name that is not registered is passed over
LoadMember(t) ==
    /\ At(t, "members")
    /\ LET m == Head(th[t].members)
           x == [th[t] EXCEPT !.members = Tail(@)]
           v == FromStr(KindOf[m.name], m.text)
       IN  IF m.name \in datas /\ v.ok THEN BeginSet(t, x, m.name, v.v)
           ELSE Goto(t, Resume(x)) /\ UNCHANGED <<readers, raced>>
    /\ UNCHANGED <<datas, m_val, m_cbs, s_fun_id, told, logVars, fileVars, crashed, ops>>

Loaded(t) ==
    /\ At(t, "loaded")
    /\ settled' = settled \cup th[t].fresh
    /\ Goto(t, Idle)
    /\ UNCHANGED <<cfgVars, logVars, content, mtime, stamp, seen, sameTime, crashed, ops>>

\* Somebody replaces a file (external): the time may be old, as of a restored copy
Edit(f, c, m) ==
    /\ ~crashed /\ ops < MaxOps /\ ops' = ops + 1 /\ c # content[f]
    /\ content' = [content EXCEPT ![f] = c] /\ mtime' = [mtime EXCEPT ![f] = m]
    /\ sameTime' = [sameTime EXCEPT ![f] = m = stamp[f]]
    /\ settled' = settled \ {f}
    /\ th' = [t \in Threads |-> [th[t] EXCEPT !.fresh = @ \ {f}]]
    /\ UNCHANGED <<cfgVars, logVars, stamp, seen, crashed>>

Proceed(t) ==
    \/ Tell(t) \/ ConfigureLogger(t) \/ Unlock(t) \/ Store(t) \/ WriteLog(t)
    \/ Stat(t) \/ Check(t) \/ ReadFile(t) \/ LoadMember(t) \/ Loaded(t)

Begin(t) ==
    \/ \E n \in VarNames : Lookup(t, n) \/ AddListener(t, n) \/ DelListener(t, n) \/ ClearListener(t, n)
    \/ \E x \in Texts : FromString(t, x)
    \/ \E n \in Loggers : \/ \E level \in {DEBUG, FATAL} : Log(t, n, level)
                          \/ AddAppender(t, n) \/ DelAppender(t, n)
                          \/ \E p \in Formats : SetFormatter(t, n, p)
    \/ LoadFromConfDir(t)

Next ==
    \/ \E t \in Threads : Proceed(t) \/ Begin(t)
    \/ \E f \in ToSet(Files), c \in Contents, m \in 1..MaxTime : Edit(f, c, m)

Spec == Init /\ [][Next]_vars

-----------------------------------------------------------------------------
(* Properties                                                              *)

Quiet == \A t \in Threads : th[t].at \in {"idle", "log"}

\* While no two setValue of a variable overlapped and no listener came between the
\* telling and the storing, every listener has been told the value there is: a
\* reader that listens knows what a reader that asks would get.
ListenersKnow ==
    \A n \in VarNames :
        (~raced[n] /\ Setting(n) = {}) => \A i \in m_cbs[n] : told[n][i] = m_val[n]

\* The loggers are as the variable "logs" says once nobody changes it: each one
\* that is defined has the level, appenders and formats of its definition, and one
\* that is no longer defined is off; apart from loggers that the program changed
\* itself, overlapping changes, and loggers that an empty configuration left.
LoggersFollow ==
    (Quiet /\ ~crashed /\ ~raced[Logs]) =>
        \A n \in ToSet(Names) \ (touched \cup dropped) :
            LET l == m_loggers[n]
                v == m_val[Logs]
            IN  IF n \in DOMAIN v
                THEN /\ l.made /\ l.m_level = v[n].level
                     /\ v[n].formatter # None /\ ~isError(v[n].formatter) => l.m_formatter = v[n].formatter
                     /\ Len(l.m_appenders) = Len(v[n].appenders)
                     /\ \A i \in DOMAIN v[n].appenders :
                            LET a == l.m_appenders[i]
                                d == v[n].appenders[i]
                            IN  /\ a.type = d.type /\ a.file = d.file /\ a.level = d.level
                                /\ a.m_formatter = IF a.m_hasFormatter THEN d.formatter ELSE l.m_formatter
                ELSE l.made => \/ l.m_appenders = <<>> /\ l.m_level = Removed
                               \/ l = [NewLogger EXCEPT !.made = TRUE]

\* What LoggersFollow needs of SelectSeq: what it leaves of a list, the members of a file
\* that are loaded and the appenders of an entry, is a list. It is about constants only.
AllMembers ==
    UNION {ToSet(ListAllMember(c.members)) : c \in {c \in Contents \cup {InitialContent} : ~c.broken}}
SelectedLists ==
    /\ \A c \in Contents \cup {InitialContent} : ~c.broken => ListAllMember(c.members) \in Seq(AllMembers)
    /\ \A x \in Texts \cup AllMembers : x.name = Logs =>
        \A n \in DOMAIN LogsFromYaml(x.text) :
            LogsFromYaml(x.text)[n].appenders \in Seq(ToSet(LogsFromYaml(x.text)[n].appenders))

\* An appender without a format of its own uses the format of the logger it is in,
\* in whatever order formats were set and appenders added, but for an appender
\* that was taken out and added again: it keeps the format it had.
FormatInherited ==
    \A n \in Loggers : \A i \in DOMAIN m_loggers[n].m_appenders :
        LET a == m_loggers[n].m_appenders[i]
        IN  /\ a.m_formatter # None
            /\ (~a.m_hasFormatter /\ ~a.back) => a.m_formatter = m_loggers[n].m_formatter

\* Once a LoadFromConfDir that began after the last edit of a file has returned and
\* no other is under way, that content is the one that was read last, whether the
\* file's time went forward or back; only a content with the recorded time, an edit
\* within the same second, is missed.
EditsSeen ==
    Quiet => \A f \in settled : sameTime[f] \/ seen[f] = content[f]

\* What toString writes, fromString reads back as the same value, for every type
\* and value a configuration can give a variable: sets, maps, and the definitions of
\* loggers, of which the conversions leave out fields and skip entries.
RoundTrip == SamplesReturn /\ \A n \in VarNames : Returns(KindOf[n], m_val[n])

\* A pattern without errors loses nothing when it is cut into items: they spell the
\* pattern again, braces aside; and no logger ever takes a pattern with errors.
PatternKept ==
    /\ SpeltAgain
    /\ \A n \in Loggers : ~isError(m_loggers[n].m_formatter)

\* An event that a logger accepts is written by somebody, also in the middle of a
\* change of the logger's definition, when some or all of its appenders are gone.
NoEventLost ==
    [][\A t \in Threads :
        (th[t].at = "log" /\ th'[t].at = "idle" /\ m_loggers[th[t].name].m_level <= th[t].level)
            => out'[t] # {}]_vars

=============================================================================
