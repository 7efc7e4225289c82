------------------------------- MODULE Streams -------------------------------
(***************************************************************************)
(* Two users of the formatter, each on a thread of its own.                *)
(*   "page": the router and hello_world (src/main/main.cpp) take a request *)
(*           apart and show its query and environment as an HTML page.     *)
(*   "log":  a LogStream (src/lib/logger.cpp) collects a message of some   *)
(*           lines and gives it to Logger::log when it is destroyed; with  *)
(*           "mute" the logger has no callback.                            *)
(***************************************************************************)
EXTENDS Formatter, RequestInput

CONSTANTS
    Jobs,        \* records: kind, input and what a reader expects (Reader)
    CharIsSigned \* char is signed, as on x86

ASSUME CharAssumption == CharIsSigned \in BOOLEAN

(* A page has the lines of an environment, a log the lines of a message.   *)
ASSUME JobsAssumption ==
    \A j \in Jobs :
        \/ j.kind = "page" /\ j.input \in Seq(Seq(Bytes))
        \/ j.kind \in {"log", "mute"} /\ j.input \in Seq([text : Seq(Bytes), number : Nat])

VARIABLES
    job,     \* the job, chosen at the start
    phase,   \* how far it is
    env_map, \* RequestPrivate::env_map, parsed from the environment
    route,   \* RequestPrivate::route
    work,    \* the uses of the stream that are still to come
    start,   \* start in Logger::log: characters handled
    logged   \* the messages the log callback was given

requestVars == <<env_map, route>>
loggerVars  == <<start, logged>>
vars == <<formatterVars, job, phase, requestVars, work, loggerVars>>

Markup         == [op |-> "markup"]
Content(text)  == [op |-> "content", text |-> text]

(* A message is a sequence of lines, each written in one piece; some end   *)
(* with a number.                                                          *)
LineWork(line) ==
    <<[op |-> "line", text |-> line.text]>>
    \o (IF line.number = 0 THEN <<>> ELSE <<[op |-> "number", n |-> line.number]>>)
    \o <<[op |-> "newline"]>>

Init ==
    /\ job \in Jobs
    /\ env_map = <<>>
    /\ route = <<>>
    /\ start = 0
    /\ logged = <<>>
    /\ IF job.kind = "page"
       THEN FormatterInit("HTML") /\ phase = "route" /\ work = <<>>
       ELSE /\ FormatterInit("UTF8")
            /\ phase = "stream"
            /\ work = FlattenSeq([i \in DOMAIN job.input |-> LineWork(job.input[i])])

-----------------------------------------------------------------------------
(* A page.                                                                 *)

(* Router::handle_request asks for the route first.                        *)
ReadRoute ==
    /\ phase = "route"
    /\ phase' = "handler"
    /\ env_map' = EnvMap(job.input)
    /\ route' = Route(Env(env_map', DOCUMENT_URI))
    /\ UNCHANGED <<formatterVars, job, work, loggerVars>>

(* A row is <tr><td>key</td><td>value</td></tr>: a piece of markup before  *)
(* each of the two contents.  The markup is shortened to its '<'.          *)
Row(key, value) == <<Markup, Content(key), Markup, Content(value)>>

QueryRows(query) ==
    FlattenSeq([i \in 1 .. Len(query) |->
                   Row(QueryDecode(query[i][1]), QueryDecode(query[i][2]))])

(* The map is ordered by the names of the variables.                       *)
Before(a, b) ==
    \/ IsStrictPrefix(a, b)
    \/ \E i \in DOMAIN a \cap DOMAIN b :
          a[i] < b[i] /\ \A j \in 1 .. i - 1 : a[j] = b[j]

EnvRows(keys) ==
    FlattenSeq([i \in 1 .. Len(keys) |-> Row(keys[i], env_map[keys[i]])])

HelloWorld ==
    /\ phase = "handler"
    /\ phase' = "stream"
    /\ \E keys \in SetToSeqs(DOMAIN env_map) :
          /\ \A i, j \in DOMAIN keys : i < j => Before(keys[i], keys[j])
          /\ work' = QueryRows(Query(Env(env_map, QUERY_STRING)))
                     \o EnvRows(keys) \o <<Markup>>
    /\ UNCHANGED <<formatterVars, job, requestVars, loggerVars>>

-----------------------------------------------------------------------------
(* The uses of a stream, one after the other.                              *)

Use(op) ==
    /\ phase = "stream"
    /\ call = "none"
    /\ work # <<>>
    /\ Head(work).op = op
    /\ work' = Tail(work)
    /\ UNCHANGED <<job, phase, requestVars, loggerVars>>

WriteMarkup  == Use("markup") /\ AppendBytes(<<LT>>)
WriteContent == Use("content") /\ AppendContent(Head(work).text)

(* The same text through each of the overloads.                            *)
WriteBytes   == Use("line") /\ AppendBytes(Head(work).text)
WriteGlyphs  == Use("line") /\ AppendGlyphs(Utf8Decode(Head(work).text))
WriteEncoded == Use("line") /\ AppendBytes(Utf8Encode(Utf8Decode(Head(work).text)))
WritePrintf  == Use("line") /\ Printf(Head(work).text)
WriteNumber  == Use("number") /\ AppendPlain(Digits(Head(work).n))
WriteNewline == Use("newline") /\ AppendPlain(<<NEWLINE>>)

Format ==
    /\ FormatterStep
    /\ UNCHANGED <<job, phase, requestVars, work, loggerVars>>

StreamEnds(next) ==
    /\ phase = "stream"
    /\ call = "none"
    /\ work = <<>>
    /\ phase' = next
    /\ UNCHANGED <<formatterVars, job, requestVars, work, loggerVars>>

PageEnds == job.kind = "page" /\ StreamEnds("done")

-----------------------------------------------------------------------------
(* ~LogStream and Logger::log.                                             *)

LogStreamEnds == \/ job.kind = "log" /\ StreamEnds("log")
                 \/ job.kind = "mute" /\ StreamEnds("done")

(* message[end-1] <= 32: a signed char is negative for every byte of a     *)
(* glyph outside ASCII.                                                    *)
Blank(c) == c <= 32 \/ (CharIsSigned /\ c > 127)

(* Where a line ends that is not blank, or start.                          *)
KeepsOneBlank(newline) ==
    Max({IF start < newline THEN start + 1 ELSE start}
        \cup {i \in start + 1 .. newline : ~Blank(out[i])})
TrimRight(newline) ==
    Max({start} \cup {i \in start + 1 .. newline : ~Blank(out[i])})

(* A line, without its blank end, is given to the callback unless nothing  *)
(* is left of it.                                                          *)
LogLine ==
    LET newline == Find(out, NEWLINE, start + 1) - 1
        end     == TrimRight(newline)
    IN  /\ phase = "log"
        /\ start < Len(out)
        /\ logged' = IF start < end
                     THEN Append(logged, SubSeq(out, start + 1, end))
                     ELSE logged
        /\ start' = newline + 1
        /\ UNCHANGED <<formatterVars, job, phase, requestVars, work>>

LogReturns ==
    /\ phase = "log"
    /\ start >= Len(out)
    /\ phase' = "done"
    /\ UNCHANGED <<formatterVars, job, requestVars, work, loggerVars>>

Done == phase = "done" /\ UNCHANGED vars

Next ==
    \/ ReadRoute
    \/ HelloWorld
    \/ WriteMarkup
    \/ WriteContent
    \/ WriteBytes
    \/ WriteGlyphs
    \/ WriteEncoded
    \/ WritePrintf
    \/ WriteNumber
    \/ WriteNewline
    \/ Format
    \/ PageEnds
    \/ LogStreamEnds
    \/ LogLine
    \/ LogReturns
    \/ Done

Spec == Init /\ [][Next]_vars

(* The type invariant.                                                     *)
TypeOK ==
    /\ FormatterTypeOK
    /\ job \in Jobs
    /\ phase \in {"route", "handler", "stream", "log", "done"}
    /\ DOMAIN env_map \subseteq Seq(Bytes)
    /\ route \in Seq(Seq(Bytes))
    /\ start \in Nat
    /\ logged \in Seq(Seq(Bytes))

-----------------------------------------------------------------------------
(* An entry in what the stream has collected, from the start of a line to *)
(* the last byte of it that is not blank: a pair of places.                *)
IsEntry(first, last) ==
    /\ first = 1 \/ out[first - 1] = NEWLINE
    /\ ~Blank(out[last])
    /\ \A i \in first .. last : out[i] # NEWLINE
    /\ \A i \in last + 1 .. Len(out) :
          Blank(out[i]) \/ \E k \in last + 1 .. i : out[k] = NEWLINE

Entries ==
    {p \in (1 .. Len(out)) \X (1 .. Len(out)) : p[1] <= p[2] /\ IsEntry(p[1], p[2])}

(* The entries that start at a place or before it.                       *)
Until(place) == {p \in Entries : p[1] <= place}

(* The callback is given every line of the message that has more than      *)
(* blanks, once, in the order of the message, and nothing else: the n-th   *)
(* call has the n-th of them.  This is the loop of Logger::log and what    *)
(* LogStream gives it.                                                     *)
LogGivesEachLine ==
    phase = "done" /\ job.kind = "log" =>
        /\ Len(logged) = Cardinality(Entries)
        /\ \A p \in Entries :
              logged[Cardinality(Until(p[1]))] = SubSeq(out, p[1], p[2])
=============================================================================
