------------------------------ MODULE MCConfig ------------------------------
(* Small instances of Config for TLC. *)
EXTENDS Config

CONSTANTS t1, t2, n1, n2, g1, f1

Default == <<"%", "m">>
Patterns2 == {<<"%", "p", " ", "%", "m">>, <<"%", "x">>}
K == <<"a", "k">>
LogsName == <<"logs">>
\* What is selected from the lists of this instance is a list.
ASSUME ListsAreLists == SelectedLists

Kinds == LogsName :> "logs" @@ K :> "map"
SomeNames == {LogsName, K}

File(p) == [type |-> 1, level |-> INFO, file |-> g1, formatter |-> p]
Console == [type |-> 2, level |-> UNKNOW, file |-> None, formatter |-> <<"%", "p">>]
Entry(n, l, p, as) == [name |-> n, level |-> l, formatter |-> p, appenders |-> as]
L1 == Entry(n1, INFO, <<"%", "l">>, <<File(<<"%", "p">>)>>)
L2 == Entry(n2, UNKNOW, None, <<[File(None) EXCEPT !.file = None], [Console EXCEPT !.type = 0], Console>>)

Member(n, x) == [name |-> n, text |-> x]
SomeTexts == {Member(LogsName, x) : x \in {<<L1>>, <<L2, L1>>, <<>>}}
FullFile ==
    [broken |-> FALSE,
     members |-> <<Member(<<"a", "K9">>, 1), Member(K, <<<<"x", 1>>, <<"y", 2>>, <<"x", 2>>>>),
                   Member(LogsName, <<L2, Entry(None, INFO, None, <<>>), [L1 EXCEPT !.level = DEBUG]>>)>>]
SomeContents ==
    {FullFile, [broken |-> FALSE, members |-> <<Member(K, <<<<"x", Junk>>>>)>>],
     [broken |-> TRUE, members |-> <<>>]}
ShortLists == SeqOf({Junk, 1, 2}, 3)
SomeSamples == [scalar |-> {Junk, 0, 1}, vector |-> ShortLists, set |-> ShortLists,
                map |-> SeqOf({"x", "y"} \X {Junk, 1, 2}, 2)]
OneFile == <<f1>>
TwoNames == <<n1, n2>>

Short == UNION {[1..n -> {"%", "m", "x", "{", "}", " "}] : n \in 0..5}
=============================================================================
