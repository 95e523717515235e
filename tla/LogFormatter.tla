---------------------------- MODULE LogFormatter ----------------------------
(***************************************************************************)
(* LogFormatter (ljrServer/log.cpp): a pattern, a sequence of characters,  *)
(* is cut into items.  An item prints its own text or, when it starts with *)
(* a percent sign, a field of the event.                                   *)
(***************************************************************************)
EXTENDS Integers, Sequences, SequencesExt

CONSTANT ShortPatterns   \* the patterns that init is compared with Unparsed on

\* What the letter of an item prints, the twelve FormatItem classes
FormatItems ==
    [m |-> "content", p |-> "level", r |-> "elapse", c |-> "logger", t |-> "thread",
     F |-> "fiber", N |-> "thread_name", d |-> "time", f |-> "file", l |-> "line",
     n |-> "newline", T |-> "tab"]

\* A letter that belongs to no class, for patterns with errors
Letters == DOMAIN FormatItems \cup {"x"}

Text(c) == [spec |-> FALSE, str |-> <<c>>, fmt |-> <<>>, bad |-> FALSE]
Item(str, fmt) ==
    [spec |-> TRUE, str |-> str, fmt |-> fmt,
     bad |-> ~(Len(str) = 1 /\ str[1] \in DOMAIN FormatItems)]
PatternError == [spec |-> FALSE, str |-> <<>>, fmt |-> <<>>, bad |-> TRUE]

First(p, i, S) == IF \E n \in i..Len(p) : p[n] \in S
                  THEN CHOOSE n \in i..Len(p) : p[n] \in S /\ \A k \in i..(n - 1) : p[k] \notin S
                  ELSE Len(p) + 1

\* Bug: the character after an item is skipped
RoundSkips(p, i) ==
    LET stop  == First(p, i + 1, ToSet(p) \ (Letters \cup {"}"}))
        str   == SubSeq(p, i + 1, stop - 1)
    IN  IF p[i] # "%" THEN [item |-> Text(p[i]), next |-> i + 1]
        ELSE [item |-> Item(str, <<>>), next |-> stop + 1]

\* One round of init()'s loop at position i: the item found there and where the
\* loop goes on.  A doubled percent sign gives a percent sign and is looked at
\* again from its second half.
Round(p, i) ==
    LET stop  == First(p, i + 1, ToSet(p) \ (Letters \cup {"}"}))
        close == First(p, stop + 1, {"}"})
        str   == SubSeq(p, i + 1, stop - 1)
    IN  IF p[i] # "%" \/ (i < Len(p) /\ p[i + 1] = "%")
        THEN [item |-> Text(p[i]), next |-> i + 1]
        ELSE IF stop > Len(p) \/ p[stop] # "{"
        THEN [item |-> Item(str, <<>>), next |-> stop]
        ELSE IF close > Len(p)
        THEN [item |-> PatternError, next |-> i + 1]
        ELSE [item |-> Item(str, SubSeq(p, stop + 1, close - 1)), next |-> close + 1]

\* m_items after init()
init(p) ==
    LET from[i \in 1..(Len(p) + 2)] ==
            IF i > Len(p) THEN <<>> ELSE <<Round(p, i).item>> \o from[Round(p, i).next]
    IN  from[1]

\* isError()
isError(p) == \E i \in DOMAIN init(p) : init(p)[i].bad

\* format(): what each item prints of an event, a record of its fields
format(p, event) ==
    [i \in DOMAIN init(p) |->
        LET x == init(p)[i]
        IN  IF x.spec THEN <<FormatItems[x.str[1]], event>> ELSE <<"text", x.str>>]

\* The pattern that items stand for, braces aside
NoBraces(p) == SelectSeq(p, LAMBDA c : c \notin {"{", "}"})
Unparsed(items) ==
    FlattenSeq([i \in DOMAIN items |->
        NoBraces((IF items[i].spec THEN <<"%">> ELSE <<>>) \o items[i].str \o items[i].fmt)])

SpeltAgain == \A p \in ShortPatterns : isError(p) \/ Unparsed(init(p)) = NoBraces(p)
=============================================================================
