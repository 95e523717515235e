-------------------------------- MODULE Log --------------------------------
(***************************************************************************)
(* Loggers, appenders and the configuration of both (ljrServer/log.h,      *)
(* log.cpp).  Logger, LogAppender and LoggerManager each have a spinlock   *)
(* that is held for the whole of an operation, so an operation is one step *)
(* on the record of a logger; the listener of the configuration "logs" is  *)
(* a sequence of such operations with nothing held in between.             *)
(***************************************************************************)
EXTENDS LogFormatter, FiniteSets, Functions

CONSTANTS
    Root,             \* the name of LoggerManager's m_root
    Names,            \* the names of the other loggers, the smaller first
    DefaultPattern    \* the pattern of a new Logger

ASSUME LogConstants ==
    /\ Root \notin ToSet(Names) /\ Names \in Seq(ToSet(Names)) /\ IsInjective(Names)
    /\ DefaultPattern # <<>> /\ ~isError(DefaultPattern)

Loggers == ToSet(Names) \cup {Root}

\* LogLevel::Level, and what the listener sets a removed logger to
UNKNOW == 0
DEBUG == 1
INFO == 2
FATAL == 5
Removed == 100

None == <<>>          \* no formatter, an empty string, a missing field

-----------------------------------------------------------------------------
(* Appenders: type 1 writes to a file, 2 to the console, 3 is the one the  *)
(* program makes itself.  back: it had another logger's formatter already  *)
(* when it was added.                                                      *)

NewAppender(type, file) ==
    [type |-> type, file |-> file, level |-> DEBUG, m_hasFormatter |-> FALSE,
     m_formatter |-> None, back |-> FALSE]

appenderSetFormatter(a, p) == [a EXCEPT !.m_formatter = p, !.m_hasFormatter = p # None]

\* StdoutLogAppender::log and FileLogAppender::log: what is written, if anything
appenderLog(a, name, level) ==
    IF a.level <= level
    THEN {[to |-> <<a.type, a.file>>, line |-> format(a.m_formatter, [logger |-> name, level |-> level])]}
    ELSE {}

-----------------------------------------------------------------------------
(* Loggers                                                                 *)

NewLogger == [made |-> FALSE, m_level |-> DEBUG, m_formatter |-> DefaultPattern, m_appenders |-> <<>>]

\* Bug: appenders that use the logger's formatter keep the old one
setFormatterOnly(l, p) == [l EXCEPT !.m_formatter = p]

\* setFormatter(ptr) passes the formatter on to the appenders that have none of
\* their own
setFormatter(l, p) ==
    [l EXCEPT !.m_formatter = p,
              !.m_appenders = [i \in DOMAIN @ |->
                  IF @[i].m_hasFormatter THEN @[i] ELSE [@[i] EXCEPT !.m_formatter = p]]]

\* setFormatter(string) ignores a pattern with errors
setPattern(l, p) == IF isError(p) THEN l ELSE setFormatter(l, p)

addAppender(l, a) ==
    [l EXCEPT !.m_appenders = Append(@,
        IF a.m_formatter = None THEN [a EXCEPT !.m_formatter = l.m_formatter]
        ELSE [a EXCEPT !.back = ~a.m_hasFormatter])]

clearAppenders(l) == [l EXCEPT !.m_appenders = <<>>]

delAppender(l, i) == [l EXCEPT !.m_appenders = RemoveAt(@, i)]

\* Bug: a logger without appenders is silent
WrittenNoRoot(ls, n, level) ==
    IF ls[n].m_level <= level
    THEN UNION {appenderLog(ls[n].m_appenders[i], n, level) : i \in DOMAIN ls[n].m_appenders}
    ELSE {}

\* Logger::log under the lock: the logger's appenders write or, when it has none,
\* the root logger's
Written(ls, n, level) ==
    LET r == IF ls[n].m_appenders = <<>> THEN Root ELSE n
    IN  IF ls[n].m_level <= level /\ ls[r].m_level <= level
        THEN UNION {appenderLog(ls[r].m_appenders[i], n, level) : i \in DOMAIN ls[r].m_appenders}
        ELSE {}

\* LoggerManager::LoggerManager
LoggerManager ==
    [n \in Loggers |-> IF n # Root THEN NewLogger
                       ELSE addAppender([NewLogger EXCEPT !.made = TRUE], NewAppender(2, None))]

-----------------------------------------------------------------------------
(* The configuration "logs": YAML entries to LogDefines and back.  A       *)
(* LogDefine value is a function on the names that are defined.            *)

\* One appender of an entry: its level is never read, nor the formatter of a
\* console appender; without type or file there is no appender
LogAppenderDefine(a) == [type |-> a.type, level |-> UNKNOW, file |-> a.file,
                         formatter |-> IF a.type = 1 THEN a.formatter ELSE None]
Defined(a) == a.type \in {1, 2} /\ (a.type = 1 => a.file # None)

LogDefine(e) ==
    LET kept == SelectSeq(e.appenders, Defined)
    IN  [level |-> e.level, formatter |-> e.formatter,
         appenders |-> [i \in DOMAIN kept |-> LogAppenderDefine(kept[i])]]

\* LexicalCast<string, set<LogDefine>>: nameless entries are skipped, and of two
\* entries with one name the set keeps the first
LogsFromYaml(entries) ==
    LET named == {n \in ToSet(Names) : \E i \in DOMAIN entries : entries[i].name = n}
    IN  [n \in named |-> LogDefine(entries[CHOOSE i \in DOMAIN entries :
            entries[i].name = n /\ \A k \in 1..(i - 1) : entries[k].name # n])]

\* Bug: the format of an appender is not written
YamlAppenderPlain(a) == [type |-> a.type, level |-> a.level, file |-> a.file, formatter |-> None]

YamlAppender(a) == [type |-> a.type, level |-> a.level, file |-> IF a.type = 1 THEN a.file ELSE None,
                    formatter |-> a.formatter]

\* LexicalCast<set<LogDefine>, string>: in the order of the names
LogsToYaml(v) ==
    LET names == SelectSeq(Names, LAMBDA n : n \in DOMAIN v)
    IN  [i \in DOMAIN names |->
            LET d == v[names[i]]
            IN  [name |-> names[i], level |-> d.level, formatter |-> d.formatter,
                 appenders |-> [k \in DOMAIN d.appenders |-> YamlAppender(d.appenders[k])]]]

-----------------------------------------------------------------------------
(* LogIniter: the listener's work for a change from old to new             *)

\* An operation and its place in the loops: the round of the new logger Names[i],
\* the part of the round, and the turn of an inner loop
Op(i, part, k, o, n, x) == [pos |-> <<i, part, k>>, op |-> o, name |-> n, arg |-> x]
Before(p, q) == \/ p[1] < q[1]
                \/ p[1] = q[1] /\ (p[2] < q[2] \/ (p[2] = q[2] /\ p[3] < q[3]))

\* The appender made for a definition
Appender(a) ==
    LET new == [NewAppender(a.type, a.file) EXCEPT !.level = a.level]
    IN  IF a.formatter = None \/ isError(a.formatter) THEN new
        ELSE appenderSetFormatter(new, a.formatter)

\* A definition that has not changed leaves the pointer logger null, and
\* setLevel goes through it
Configure(old, new, i) ==
    LET n == Names[i]
        d == new[n]
    IN  IF n \in DOMAIN old /\ old[n] = d THEN {Op(i, 1, 0, "null", n, None)}
        ELSE {Op(i, 1, 0, "level", n, d.level), Op(i, 3, 0, "clear", n, None)}
             \cup {Op(i, 2, 0, "format", n, p) : p \in {d.formatter} \ {None}}
             \cup {Op(i, 4, k, "add", n, Appender(d.appenders[k])) : k \in DOMAIN d.appenders}

\* Bug: a removed logger keeps its appenders
RemoveOldKeeps(i, gone) == {Op(i, 5, 2 * j, "level", Names[j], Removed) : j \in gone}

RemoveOld(i, gone) ==
    {Op(i, 5, 2 * j, "level", Names[j], Removed) : j \in gone}
    \cup {Op(i, 5, 2 * j + 1, "clear", Names[j], None) : j \in gone}

\* The loop that removes loggers is inside the loop over the new ones: it runs
\* once for each of them, and never when there is none
LogIniter(old, new) ==
    LET gone == {j \in DOMAIN Names : Names[j] \in DOMAIN old \ DOMAIN new}
    IN  UNION {Configure(old, new, i) \cup RemoveOld(i, gone) :
                i \in {i \in DOMAIN Names : Names[i] \in DOMAIN new}}

\* One operation of the listener on the loggers; getLogger makes the logger
Done(ls, o) ==
    LET l == [ls[o.name] EXCEPT !.made = TRUE]
    IN  [ls EXCEPT ![o.name] =
            CASE o.op = "level"  -> [l EXCEPT !.m_level = o.arg]
              [] o.op = "format" -> setPattern(l, o.arg)
              [] o.op = "clear"  -> clearAppenders(l)
              [] o.op = "add"    -> addAppender(l, o.arg)]
=============================================================================
