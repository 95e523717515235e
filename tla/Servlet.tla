------------------------------ MODULE Servlet ------------------------------
(***************************************************************************)
(* ServletDispatch (ljrServer/http/servlet.h, servlet.cpp): which servlet  *)
(* answers a path.  Exact paths are looked up first, then the patterns in  *)
(* the order of the vector m_globs, then the default.  Every operation     *)
(* holds the read-write lock for its whole length.  fnmatch is external:   *)
(* the constant relation Matches.                                          *)
(***************************************************************************)
EXTENDS Integers, Sequences, SequencesExt, FiniteSets

CONSTANTS
    Paths,       \* the paths requests ask for
    Patterns,    \* the patterns of glob servlets
    Matches,     \* <<pattern, path>> pairs that fnmatch accepts
    Servlets,    \* the servlets a program registers
    NoServlet,   \* the null Servlet::ptr
    NotFound     \* the default servlet, 404

ASSUME ServletConstants == IsFiniteSet(Patterns) /\ NoServlet \notin Servlets

VARIABLES
    m_datas,     \* the servlet of each exact path, or NoServlet
    m_globs,     \* the vector of <<pattern, servlet>>
    added        \* history: when each pattern was last added and for which servlet

dispatch == <<m_datas, m_globs, added>>

Never == [at |-> 0, slt |-> NoServlet]

\* Before the program registers anything
DispatchInit ==
    /\ m_datas = [u \in Paths |-> NoServlet]
    /\ m_globs = <<>>
    /\ added = [p \in Patterns |-> Never]

Added(p, s) == [added EXCEPT ![p] = [at |-> 1 + Max({added[q].at : q \in Patterns}), slt |-> s]]

addServlet(u, s) ==
    /\ m_datas' = [m_datas EXCEPT ![u] = s]
    /\ UNCHANGED <<m_globs, added>>

delServlet(u) ==
    /\ m_datas' = [m_datas EXCEPT ![u] = NoServlet]
    /\ UNCHANGED <<m_globs, added>>

\* The loops of addGlobServlet and delGlobServlet erase the first entry of p
Erased(p) ==
    LET i == SelectInSeq(m_globs, LAMBDA g : g[1] = p)
    IN  IF i = 0 THEN m_globs ELSE RemoveAt(m_globs, i)

\* Bug: a pattern that is added again keeps its old entry too
addGlobServletTwice(p, s) ==
    /\ m_globs' = Append(m_globs, <<p, s>>)
    /\ added' = Added(p, s)
    /\ UNCHANGED m_datas

addGlobServlet(p, s) ==
    /\ m_globs' = Append(Erased(p), <<p, s>>)
    /\ added' = Added(p, s)
    /\ UNCHANGED m_datas

delGlobServlet(p) ==
    /\ m_globs' = Erased(p)
    /\ added' = [added EXCEPT ![p] = Never]
    /\ UNCHANGED m_datas

getMatchedServlet(u) ==
    LET i == SelectInSeq(m_globs, LAMBDA g : <<g[1], u>> \in Matches)
    IN  IF m_datas[u] # NoServlet THEN m_datas[u]
        ELSE IF i # 0 THEN m_globs[i][2]
        ELSE NotFound

\* What dispatching means: the exact servlet, else that of the matching pattern
\* whose last registration is the oldest, else 404
Reference(u) ==
    LET live == {p \in Patterns : added[p] # Never /\ <<p, u>> \in Matches}
    IN  IF m_datas[u] # NoServlet THEN m_datas[u]
        ELSE IF live = {} THEN NotFound
        ELSE added[CHOOSE p \in live : \A q \in live : added[p].at <= added[q].at].slt
=============================================================================
