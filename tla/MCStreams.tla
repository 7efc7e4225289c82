------------------------------ MODULE MCStreams ------------------------------
(* Streams for TLC: forms, paths and messages.                             *)
EXTENDS Reader

Letter == Ascii(97)
Plain  == {Letter, Ascii(LT), GreaterThan, TwoBytes, FourBytes, Stray, Broken, Overlong}
Typing ==
    {Typed(u) : u \in Plain}
    \cup {Escaped(u) : u \in Plain \cup {Zero, Ascii(AMP), Ascii(EQUALS), Ascii(PERCENT), Ascii(SLASH)}}
Ends == Typing \cup {Escaped(Unfinished)}

Texts(units, last) ==
    {<<>>} \cup {<<u>> : u \in last} \cup {<<u, v>> : u \in units, v \in last}

Few == {Typed(Letter), Escaped(Ascii(AMP)), Escaped(Ascii(PERCENT))}
Fields == {<<key, value>> : key, value \in Texts({}, Few)} \cup {<<<<u>>>> : u \in Few} \cup {<<<<>>>>}

Forms ==
    {<<>>}
    \cup {<<Field(<<u>>, value)>> : u \in {Typed(Letter), Escaped(Ascii(LT))},
                                    value \in Texts(Typing, Ends)}
    \cup {<<one, two>> : one, two \in Fields}

Path == <<<<97>>, <<98, 97>>>>

(* A line without '=', and a second one for a variable.                    *)
Word(bytes) == [i \in DOMAIN bytes |-> Ascii(bytes[i])]
Asked(form, path, slashes) ==
    LET uri   == Uri(path, slashes)
        query == SentForm(form)
    IN  PageJob(form,
                <<Variable(Word(DOCUMENT_URI), Word(uri)), Variable(Word(QUERY_STRING), query)>>,
                << QUERY_STRING \o <<EQUALS>> \o BytesOf(query),
                   <<88>>,
                   DOCUMENT_URI \o <<EQUALS>> \o uri,
                   DOCUMENT_URI \o <<EQUALS, 120>> >>,
                path, slashes)

PageJobs ==
    {Asked(form, Path, <<1, 1, 0>>) : form \in Forms}
    \cup {Asked(<<>>, Path, <<i, j, k>>) : i \in 0 .. 2, j \in 1 .. 2, k \in 0 .. 2}
    \cup {Asked(<<>>, <<>>, <<i>>) : i \in 0 .. 1}

(* Texts that are as long as the buffer of printf.                         *)
Letters(n) == [i \in 1 .. n |-> Ascii(120)]
Full       == {Letters(TmpSize), Letters(TmpSize - 2) \o <<TwoBytes>>, Letters(TmpSize - 2) \o <<Unfinished>>}

ASSUME NumeralsAssumption == Digits(7) = <<55>> /\ Digits(40) = <<52, 48>>

LogUnits == {Letter, Ascii(32), TwoBytes, FourBytes, Stray, Zero, Overlong}
Lines ==
    {Line(<<>>, n) : n \in {0, 40}}
    \cup {Line(<<u>>, n) : u \in LogUnits \cup {Unfinished}, n \in {0, 7}}
    \cup {Line(<<u, v>>, 0) : u \in LogUnits, v \in LogUnits \cup {Unfinished}}
    \cup {Line(text, n) : text \in Full, n \in {0, 7}}

LogJobs ==
    {LogJob("log", <<line>>) : line \in Lines}
    \cup {LogJob("log", <<one, two>>) :
             one \in Lines, two \in {Line(<<Letter>>, 0), Line(<<TwoBytes>>, 40)}}
    \cup {LogJob("mute", <<Line(<<Letter>>, 0)>>)}

AllJobs == PageJobs \cup LogJobs
==============================================================================
