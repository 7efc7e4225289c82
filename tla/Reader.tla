------------------------------- MODULE Reader --------------------------------
(***************************************************************************)
(* The other ends of Streams: the client that encodes a form into a query, *)
(* the browser that reads the page, and the administrator who reads the    *)
(* log.  Texts are built from units, so that what is expected of a text is *)
(* known from the way it was made and nothing has to be decoded.           *)
(*                                                                         *)
(* A unit has the bytes it is sent as, what a browser is to show for it,   *)
(* the bytes a log is to have for it, and whether a reader of the log sees *)
(* anything.                                                               *)
(***************************************************************************)
EXTENDS Streams

CONSTANT
    CodePoints \* the code points outside ASCII that a browser is sent

ASSUME CodePointsAssumption == \A n \in CodePoints : n \in Nat /\ n >= 128 /\ n < 1114112

Unit(bytes, shown, kept) == [bytes |-> bytes, shown |-> shown, kept |-> kept]
Ascii(c)                 == Unit(<<c>>, <<c>>, <<c>>)

(* A byte the browser cannot decode.                                       *)
Unreadable == 1114112

(* '>' becomes "&rt;", which is no entity: a browser shows it as it is.    *)
GreaterThan  == Unit(<<GT>>, <<AMP, 114, 116, 59>>, <<GT>>)
(* A zero byte is dropped.                                                 *)
Zero         == Unit(<<0>>, <<>>, <<>>)
TwoBytes     == Unit(<<195, 169>>, <<233>>, <<195, 169>>)
FourBytes    == Unit(<<240, 159, 152, 128>>, <<128512>>, <<240, 159, 152, 128>>)
(* A byte that starts nothing, and a sequence whose second byte is wrong,  *)
(* become a replacement character.                                         *)
Stray        == Unit(<<255>>, <<Replacement>>, <<239, 191, 189>>)
Broken       == Unit(<<226, 40, 161>>, <<Replacement>>, <<239, 191, 189>>)
(* '<' in two bytes: the page gets the second one, a log gets '<'.         *)
Overlong     == Unit(<<192, 188>>, <<Unreadable>>, <<LT>>)
(* A sequence the text ends in the middle of is dropped.                   *)
Unfinished   == Unit(<<226, 130>>, <<>>, <<>>)

(* What the units of a text are.  How many bytes a sequence has says the   *)
(* first of them, whatever the others are.                                 *)
SequenceLength(lead) ==
    IF lead \in 192 .. 223 THEN 2
    ELSE IF lead \in 224 .. 239 THEN 3
    ELSE IF lead \in 240 .. 247 THEN 4
    ELSE 1
Continues(b) == b \in 128 .. 191

(* The code point a sequence stands for.                                   *)
Number2(b) == 64 * (b[1] - 192) + (b[2] - 128)
Number3(b) == 4096 * (b[1] - 224) + 64 * (b[2] - 128) + (b[3] - 128)
Number4(b) == 262144 * (b[1] - 240) + 4096 * (b[2] - 128) + 64 * (b[3] - 128) + (b[4] - 128)

Sense(b) ==
    IF Len(b) = 1 THEN IF b[1] < 128 THEN b[1] ELSE Replacement
    ELSE IF \E i \in 2 .. Len(b) : ~Continues(b[i]) THEN Replacement
    ELSE IF Len(b) = 2 THEN Number2(b)
    ELSE IF Len(b) = 3 THEN Number3(b)
    ELSE Number4(b)

(* ASCII in more than one byte is not what a browser reads.                *)
OnPage(b) ==
    IF Sense(b) = 0 THEN <<>>
    ELSE IF Sense(b) < 128 /\ Len(b) > 1 THEN <<Unreadable>>
    ELSE IF Sense(b) = GT THEN <<AMP, 114, 116, 59>>
    ELSE <<Sense(b)>>

(* The bytes UTF-8 has for a code point.                                   *)
Encoding(n) ==
    IF n < 128 THEN <<n>>
    ELSE IF n < 2048 THEN <<192 + (n \div 64), 128 + (n % 64)>>
    ELSE IF n < 65536
    THEN <<224 + (n \div 4096), 128 + ((n \div 64) % 64), 128 + (n % 64)>>
    ELSE IF n < 1114112
    THEN <<240 + (n \div 262144), 128 + ((n \div 4096) % 64), 128 + ((n \div 64) % 64),
           128 + (n % 64)>>
    ELSE <<>>

InLog(b) == IF Sense(b) = 0 THEN <<>> ELSE Encoding(Sense(b))

IsUnit(unit) ==
    /\ unit.bytes # <<>> /\ Len(unit.bytes) = SequenceLength(unit.bytes[1])
    /\ unit = Unit(unit.bytes, OnPage(unit.bytes), InLog(unit.bytes))
IsCutOff(unit) ==
    /\ unit.bytes # <<>> /\ Len(unit.bytes) < SequenceLength(unit.bytes[1])
    /\ unit = Unit(unit.bytes, <<>>, <<>>)

(* Every text is made of units, and the last may be cut off.               *)
UnitRecords == [bytes : Seq(Bytes), shown : Seq(Nat), kept : Seq(Bytes)]
IsText(units) ==
    /\ units \in Seq(UnitRecords)
    /\ \A i \in 1 .. Len(units) :
          IsUnit(units[i]) \/ (i = Len(units) /\ IsCutOff(units[i]))

BytesOf(units) == FlattenSeq([i \in DOMAIN units |-> units[i].bytes])
ShownOf(units) == FlattenSeq([i \in DOMAIN units |-> units[i].shown])
KeptOf(units)  == FlattenSeq([i \in DOMAIN units |-> units[i].kept])

-----------------------------------------------------------------------------
(* The client.                                                             *)

(* "%c3": digits in either case.                                           *)
UpperDigit(n) == IF n < 10 THEN 48 + n ELSE 55 + n
EscapeByte(b) == <<Ascii(PERCENT), Ascii(UpperDigit(b \div 16)), Ascii(HexDigit(b % 16))>>

(* A text of a form is a sequence of units, each sent as it is or escaped. *)
Typed(unit)   == [unit |-> unit, escaped |-> FALSE]
Escaped(unit) == [unit |-> unit, escaped |-> TRUE]

Sent(text) ==
    FlattenSeq([i \in DOMAIN text |->
        IF text[i].escaped
        THEN LET bytes == text[i].unit.bytes
             IN  FlattenSeq([j \in DOMAIN bytes |-> EscapeByte(bytes[j])])
        ELSE <<text[i].unit>>])

Units(text) == [i \in DOMAIN text |-> text[i].unit]

(* What is typed is what a browser can show.  In a request & and %, and =  *)
(* in a key, are escaped, and so is a sequence that is cut off.            *)
IsReadable(units) ==
    /\ IsText(units)
    /\ \A i \in 1 .. Len(units) :
          IsUnit(units[i]) /\ Sense(units[i].bytes) >= 128 => Sense(units[i].bytes) \in CodePoints

TypedUnits == [unit : UnitRecords, escaped : BOOLEAN]
IsTyped(text, reserved) ==
    /\ text \in Seq(TypedUnits) /\ IsReadable(Units(text))
    /\ \A i \in 1 .. Len(text) : ~text[i].escaped =>
          /\ IsUnit(text[i].unit)
          /\ \A k \in 1 .. Len(text[i].unit.bytes) : text[i].unit.bytes[k] \notin reserved

(* A field is a key with or without a value.                               *)
Field(key, value) == <<key, value>>
SentField(field) ==
    Sent(field[1]) \o (IF Len(field) = 2 THEN <<Ascii(EQUALS)>> \o Sent(field[2]) ELSE <<>>)

SentForm(form) ==
    FlattenSeq([i \in DOMAIN form |->
        (IF i > 1 THEN <<Ascii(AMP)>> ELSE <<>>) \o SentField(form[i])])

IsField(field) ==
    /\ field \in Seq(Seq(TypedUnits)) /\ Len(field) \in {1, 2}
    /\ IsTyped(field[1], {AMP, PERCENT, EQUALS})
    /\ Len(field) = 2 => IsTyped(field[2], {AMP, PERCENT})

(* The cells of the page for a field.                                      *)
FieldCells(field) ==
    <<ShownOf(Units(field[1])),
      IF Len(field) = 2 THEN ShownOf(Units(field[2])) ELSE <<>>>>

(* An empty field at the very end is none.                                 *)
Counted(form) ==
    IF form # <<>> /\ SentField(Last(form)) = <<>> THEN Front(form) ELSE form

(* path is a sequence of components, slashes the number of slashes before  *)
(* each and behind the last.                                               *)
Slashes(n) == [i \in 1 .. n |-> SLASH]
Uri(path, slashes) ==
    FlattenSeq([i \in DOMAIN path |-> Slashes(slashes[i]) \o path[i]])
    \o Slashes(slashes[Len(path) + 1])

(* A path has components without slashes, and a slash at least between two *)
(* of them; any number may come first, last and between.                   *)
IsPath(path, slashes) ==
    /\ path \in Seq(Seq(Bytes)) /\ slashes \in Seq(Nat) /\ Len(slashes) = Len(path) + 1
    /\ \A i \in 1 .. Len(path) :
          path[i] # <<>> /\ \A k \in 1 .. Len(path[i]) : path[i][k] # SLASH
    /\ \A i \in 2 .. Len(path) : slashes[i] > 0

(* The first line for DOCUMENT_URI has the path of the request.            *)
HasPath(j) ==
    /\ IsPath(j.route, j.slashes)
    /\ \E i \in DOMAIN j.input :
          /\ j.input[i] = (DOCUMENT_URI \o <<EQUALS>>) \o Uri(j.route, j.slashes)
          /\ \A k \in 1 .. i - 1 : ~IsPrefix(DOCUMENT_URI \o <<EQUALS>>, j.input[k])

(* The request for a form, with the variables of its environment in their  *)
(* order and the lines that give them their values.                        *)
Variable(name, value) == [name |-> name, value |-> value]
VariableCells(variable) == <<ShownOf(variable.name), ShownOf(variable.value)>>

PageJob(form, variables, lines, path, slashes) ==
    LET fields == Counted(form)
    IN  [kind      |-> "page",
         form      |-> form,
         variables |-> variables,
         input     |-> lines,
         expected  |-> {FlattenSeq([i \in DOMAIN fields |-> FieldCells(fields[i])])
                        \o FlattenSeq([i \in DOMAIN variables |-> VariableCells(variables[i])])},
         route     |-> path,
         slashes   |-> slashes]

(* A line without '=' does not count, nor does a second one for a variable.*)
Beginning(variable) == BytesOf(variable.name) \o <<EQUALS>>
IsVariable(variable, lines) ==
    /\ IsReadable(variable.name) /\ ~Contains(BytesOf(variable.name), EQUALS)
    /\ IsReadable(variable.value)
    /\ \E i \in DOMAIN lines :
          /\ lines[i] = Beginning(variable) \o BytesOf(variable.value)
          /\ \A k \in 1 .. i - 1 : ~IsPrefix(Beginning(variable), lines[k])

VariableRecords == [name : Seq(UnitRecords), value : Seq(UnitRecords)]
IsEnvironment(variables, lines) ==
    /\ variables \in Seq(VariableRecords)
    /\ \A i \in 1 .. Len(variables) : IsVariable(variables[i], lines)
    /\ \A i, j \in 1 .. Len(variables) :
          i < j => Before(BytesOf(variables[i].name), BytesOf(variables[j].name))
    /\ \A k \in DOMAIN lines : Contains(lines[k], EQUALS) =>
          \E i \in 1 .. Len(variables) : IsPrefix(Beginning(variables[i]), lines[k])

IsPage(j) ==
    /\ j.form \in Seq(Seq(Seq(TypedUnits))) /\ \A i \in 1 .. Len(j.form) : IsField(j.form[i])
    /\ IsEnvironment(j.variables, j.input)
    /\ \E i \in 1 .. Len(j.variables) : /\ BytesOf(j.variables[i].name) = QUERY_STRING
                                        /\ j.variables[i].value = SentForm(j.form)
    /\ j = PageJob(j.form, j.variables, j.input, j.route, j.slashes)

ASSUME PagesAssumption == \A j \in Jobs : j.kind = "page" => HasPath(j) /\ IsPage(j)

-----------------------------------------------------------------------------
(* The browser.                                                            *)

(* What is between two pieces of markup.                                   *)
Cells(page) ==
    LET marks == {i \in DOMAIN page : page[i] = LT}
        next(i) == Min({j \in marks : j > i})
        from[i \in marks] ==
            IF i = Max(marks) THEN <<>>
            ELSE <<SubSeq(page, i + 1, next(i) - 1)>> \o from[next(i)]
    IN  IF marks = {} THEN <<>> ELSE from[Min(marks)]

(* The entities a browser knows.                                           *)
Entities ==
    {<<<<AMP, 108, 116, 59>>, LT>>, <<<<AMP, 97, 109, 112, 59>>, AMP>>}
    \cup {<<Entity(g), g>> : g \in CodePoints}

Read(cell) ==
    LET at(i) == {e \in Entities : IsPrefix(e[1], SubSeq(cell, i, Len(cell)))}
        from[i \in 1 .. Len(cell) + 1] ==
            IF i > Len(cell) THEN <<>>
            ELSE IF at(i) # {}
                 THEN LET e == CHOOSE e \in at(i) : TRUE
                      IN  <<e[2]>> \o from[i + Len(e[1])]
                 ELSE <<IF cell[i] > 127 THEN Unreadable ELSE cell[i]>> \o from[i + 1]
    IN  from[1]

-----------------------------------------------------------------------------
(* The log.                                                                *)

(* A line that prints a number behind its text has it in the message.      *)
Line(units, number) == [units |-> units, number |-> number]
Numeral(number) ==
    IF number = 0 THEN <<>> ELSE [i \in DOMAIN Digits(number) |-> Ascii(Digits(number)[i])]

(* A unit at the end of a line that is not shown: space, tab and, where    *)
(* char is signed, everything outside ASCII.                               *)
Vanishes(unit) ==
    \A i \in DOMAIN unit.kept : unit.kept[i] <= 32 \/ (CharIsSigned /\ unit.kept[i] > 127)

Trimmed(units) ==
    KeptOf(SubSeq(units, 1, Max({0} \cup {i \in DOMAIN units : ~Vanishes(units[i])})))

(* A text of TmpSize bytes may have gone through printf, which has put a   *)
(* zero in the place of the last one.                                      *)
WithoutLast(unit) ==
    LET bytes == [unit.bytes EXCEPT ![Len(unit.bytes)] = 0]
    IN  IF Len(bytes) = SequenceLength(bytes[1])
        THEN Unit(bytes, OnPage(bytes), InLog(bytes))
        ELSE Unit(bytes, <<>>, <<>>)

AsWritten(line) ==
    {line.units \o Numeral(line.number)}
    \cup IF Len(BytesOf(line.units)) = TmpSize
         THEN {Append(Front(line.units), WithoutLast(Last(line.units))) \o Numeral(line.number)}
         ELSE {}

(* One way the lines may have been written in.                             *)
IsWritten(written, lines) ==
    \A i \in DOMAIN lines : written[i] \in AsWritten(lines[i])

(* What a log has of it: nothing of a line that is blank.                  *)
Logged(written) ==
    FlattenSeq([i \in DOMAIN written |->
        IF Trimmed(written[i]) = <<>> THEN <<>> ELSE <<Trimmed(written[i])>>])

LogJob(kind, lines) ==
    LET ways == [DOMAIN lines -> UNION {AsWritten(lines[i]) : i \in DOMAIN lines}]
    IN  [kind     |-> kind,
         lines    |-> lines,
         input    |-> [i \in DOMAIN lines |->
                          [text |-> BytesOf(lines[i].units), number |-> lines[i].number]],
         expected |-> IF kind = "mute" THEN {<<>>}
                      ELSE {Logged(written) : written \in {w \in ways : IsWritten(w, lines)}},
         route    |-> <<>>,
         slashes  |-> <<>>]

(* A line has no newline in it.                                            *)
LineRecords == [units : Seq(UnitRecords), number : Nat]
IsLine(line) ==
    /\ line \in LineRecords /\ IsText(line.units)
    /\ \A i \in DOMAIN line.units : \A k \in DOMAIN line.units[i].kept :
          line.units[i].kept[k] # NEWLINE

IsMessage(j) ==
    /\ j.lines \in Seq(LineRecords) /\ \A i \in DOMAIN j.lines : IsLine(j.lines[i])
    /\ j = LogJob(j.kind, j.lines)

ASSUME MessagesAssumption == \A j \in Jobs : j.kind # "page" => IsMessage(j)

-----------------------------------------------------------------------------
(* Correctness.                                                            *)

(* The page shows the form the client has sent: the same fields in the     *)
(* same order, each text as it was typed, whatever of it the client has    *)
(* escaped, however it was cut by the buffer, and below it the variables   *)
(* of the environment.  Of the texts that are not shown as they were typed *)
(* ('>', zero, invalid UTF-8) Unit says what becomes.                      *)
PageShowsRequest ==
    phase = "done" /\ job.kind = "page" =>
        LET cells == Cells(out)
        IN  [i \in DOMAIN cells |-> Read(cells[i])] \in job.expected

(* The log has the lines of the message, each once, in order and without   *)
(* its blank end, and no empty one, through whichever overload the text    *)
(* came: it is converted from UTF-8 to code points and back on the way.    *)
LogKeepsLines ==
    phase = "done" /\ job.kind # "page" => logged \in job.expected

(* The route has the components of the path, however many slashes are      *)
(* around them.                                                            *)
RouteIsComponents == job.kind = "page" /\ phase # "route" => route = job.route
=============================================================================
