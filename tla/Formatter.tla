------------------------------ MODULE Formatter ------------------------------
(***************************************************************************)
(* fcgiserver::GenericFormatter (src/lib/generic_formatter.cpp) with the   *)
(* two streams derived from it: RequestStream, which hands its text to a   *)
(* channel of the request, and LineFormatter, which keeps it.  The text of *)
(* a call is formatted one byte (or glyph) at a time into a buffer on the  *)
(* stack, which goes to real_append when it is nearly full.                *)
(***************************************************************************)
EXTENDS Utf8

CONSTANTS
    TmpSize,  \* sizeof(tmp) in operator<< and in vprintf: 128
    FlushAt   \* the offset from which tmp is handed on: 100

(* The longest piece is "&#x" with eight digits and ";".                   *)
ASSUME BufferAssumption ==
    /\ FlushAt \in Nat /\ TmpSize \in Nat
    /\ FlushAt > 0
    /\ FlushAt + 11 <= TmpSize

Formats == {"Verbatim", "HTML", "HTMLContent", "UTF8"}

VARIABLES
    m_generic_format, \* the format of the stream
    restore,          \* the format the stream returns to after the call
    call,             \* "none", or the overload of operator<< that runs:
                      \* "bytes" for UTF-8, "glyphs" for code points
    rest,             \* what is left of its argument
    mbstate,          \* its decoder
    tmp,              \* its buffer, up to offset
    out               \* what real_append has been given

formatterVars == <<m_generic_format, restore, call, rest, mbstate, tmp, out>>

FormatterInit(format) ==
    /\ m_generic_format = format
    /\ restore = format
    /\ call = "none"
    /\ rest = <<>>
    /\ mbstate = ConvertState
    /\ tmp = <<>>
    /\ out = <<>>

-----------------------------------------------------------------------------
(* One glyph.                                                              *)

HexDigit(n) == IF n < 10 THEN 48 + n ELSE 87 + n

(* "%x" of a char32_t: up to eight digits, without leading zeros.          *)
Power16 == <<1, 16, 256, 4096, 65536, 1048576, 16777216, 268435456>>
HexLength(n) == CHOOSE k \in 1 .. 8 : /\ k = 1 \/ n >= Power16[k]
                                      /\ k = 8 \/ n < Power16[k + 1]
Hex(n) == [i \in 1 .. HexLength(n) |->
              HexDigit((n \div Power16[HexLength(n) + 1 - i]) % 16)]

Entity(glyph) == <<AMP, 35, 120>> \o Hex(glyph) \o <<59>>

(* '<' and '>' are escaped in content only.                                *)
EscapesMarkup(format)   == format = "HTML"
EscapesBrackets(format) == format = "HTMLContent"

(* What the loop appends for a glyph; c is its last byte, or itself in the *)
(* overload for code points, and is what an ASCII glyph is tested and      *)
(* written as.  '>' becomes "&rt;".                                        *)
Piece(format, glyph, c) ==
    IF format = "UTF8" THEN Utf32To8(glyph)
    ELSE IF glyph >= 128 THEN Entity(glyph)
    ELSE IF c = LT /\ EscapesBrackets(format) THEN <<AMP, 108, 116, 59>>
    ELSE IF c = GT /\ EscapesBrackets(format) THEN <<AMP, 114, 116, 59>>
    ELSE IF c = AMP THEN <<AMP, 97, 109, 112, 59>>
    ELSE <<c>>

-----------------------------------------------------------------------------
(* operator<<.                                                             *)

(* char, bool, numbers: straight to real_append, whatever the format.      *)
AppendPlain(text) ==
    /\ call = "none"
    /\ out' = out \o text
    /\ UNCHANGED <<m_generic_format, restore, call, rest, mbstate, tmp>>

Digits(n) ==
    LET digits[k \in 0 .. n] == IF k < 10 THEN <<48 + k>>
                                ELSE Append(digits[k \div 10], 48 + (k % 10))
    IN  digits[n]

(* The two overloads that format: Verbatim text is passed on untouched.    *)
Begin(kind, text, format, after) ==
    /\ call = "none"
    /\ IF format = "Verbatim"
       THEN /\ kind = "bytes"
            /\ out' = out \o text
            /\ UNCHANGED <<m_generic_format, restore, call, rest, mbstate, tmp>>
       ELSE /\ m_generic_format' = format
            /\ restore' = after
            /\ call' = kind
            /\ rest' = text
            /\ mbstate' = ConvertState
            /\ tmp' = <<>>
            /\ UNCHANGED out

AppendBytes(text)  == Begin("bytes", text, m_generic_format, m_generic_format)
AppendGlyphs(text) == Begin("glyphs", text, m_generic_format, m_generic_format)

(* RequestStream's operator<< for HTMLContent.                             *)
AppendContent(text) ==
    Begin("bytes", text,
          IF m_generic_format = "HTML" THEN "HTMLContent" ELSE m_generic_format,
          m_generic_format)

(* vprintf, where text is what the format makes of its arguments.  A text  *)
(* of exactly sizeof(tmp) characters has lost its last to the terminator.  *)
Printed(text) ==
    IF Len(text) = TmpSize THEN [text EXCEPT ![TmpSize] = 0] ELSE text

Printf(text) ==
    IF text = <<>> THEN call = "none" /\ UNCHANGED formatterVars
                   ELSE AppendBytes(Printed(text))

(* The check of the offset at the end of the loop.                         *)
FlushWhenFull(buffer) == Len(buffer) >= TmpSize
Flush(buffer)         == Len(buffer) >= FlushAt

(* One iteration: what is in the buffer after the next byte, or glyph, and *)
(* the check.  A byte that completes no glyph goes on to the next one.     *)
DecodedFromFlush ==
    IF call = "bytes" THEN Utf8To32(Head(rest), IF tmp = <<>> THEN ConvertState ELSE mbstate)
    ELSE mbstate
Decoded == IF call = "bytes" THEN Utf8To32(Head(rest), mbstate) ELSE mbstate
Next32  == IF call = "bytes" THEN Glyph(Decoded) ELSE Head(rest)
Skip    == call = "bytes" /\ Next32 = 0
Written == IF Skip THEN tmp
           ELSE tmp \o Piece(m_generic_format, Next32, Head(rest))

FormatNext ==
    /\ rest # <<>>
    /\ rest' = Tail(rest)
    /\ mbstate' = Decoded
    /\ IF ~Skip /\ Flush(Written)
       THEN tmp' = <<>> /\ out' = out \o Written
       ELSE tmp' = Written /\ UNCHANGED out
    /\ UNCHANGED <<m_generic_format, restore, call>>

(* The end of the call: the rest of the buffer is handed on.               *)
EndWithoutFlush ==
    /\ call # "none"
    /\ rest = <<>>
    /\ call' = "none"
    /\ m_generic_format' = restore
    /\ tmp' = <<>>
    /\ UNCHANGED <<restore, rest, mbstate, out>>

EndCall ==
    /\ call # "none"
    /\ rest = <<>>
    /\ call' = "none"
    /\ m_generic_format' = restore
    /\ tmp' = <<>>
    /\ out' = out \o tmp
    /\ UNCHANGED <<restore, rest, mbstate>>

FormatterStep == FormatNext \/ EndCall

(* A stream of any format whose user gives it any bytes and code points.   *)
FormatterNext ==
    \/ \E text \in Seq(Bytes) :
          AppendPlain(text) \/ AppendBytes(text) \/ AppendContent(text) \/ Printf(text)
    \/ \E glyphs \in Seq(Nat) : AppendGlyphs(glyphs)
    \/ FormatterStep

FormatterSpec ==
    (\E format \in Formats : FormatterInit(format)) /\ [][FormatterNext]_formatterVars

-----------------------------------------------------------------------------
(* Correctness.                                                            *)

FormatterTypeOK ==
    /\ m_generic_format \in Formats
    /\ restore \in Formats
    /\ call \in {"none", "bytes", "glyphs"}
    /\ rest \in Seq(Nat)
    /\ mbstate \in [glyph : Nat, remaining : 0 .. 3, valid : BOOLEAN]
    /\ tmp \in Seq(Bytes)
    /\ out \in Seq(Bytes)

(* Nothing is ever written behind the end of tmp: what the next byte adds, *)
(* an entity of many digits included, still has room in it, although the   *)
(* offset is only compared after the fact.                                 *)
BufferFits == rest # <<>> => Len(Written) <= TmpSize

(* What a text becomes without a buffer, from a state of the decoder on.   *)
Conversion(state, text) == [state |-> state, text |-> text]

Converted(format, kind, from, text) ==
    LET upto[n \in 0 .. Len(text)] ==
            IF n = 0 THEN Conversion(from, <<>>)
            ELSE LET before == upto[n - 1]
                     state  == IF kind = "bytes" THEN Utf8To32(text[n], before.state)
                                                 ELSE before.state
                     glyph  == IF kind = "bytes" THEN Glyph(state) ELSE text[n]
                 IN  Conversion(state, IF kind = "bytes" /\ glyph = 0 THEN before.text
                                       ELSE before.text \o Piece(format, glyph, text[n]))
    IN  upto[Len(text)].text

(* A call writes its text as if there were no buffer: each text is decoded *)
(* from the start, and wherever it is cut, what has been handed on, what   *)
(* is in the buffer and what is still to be converted make up the same     *)
(* result until the end of the call.                                       *)
BufferIsTransparent ==
    [][LET total == out \o tmp \o Converted(m_generic_format, call, mbstate, rest)
           after == out' \o tmp' \o Converted(m_generic_format', call', mbstate', rest')
       IN  /\ call = "none" /\ call' # "none" =>
                 after = out \o Converted(m_generic_format', call', ConvertState, rest')
           /\ call # "none" /\ call' # "none" => after = total
           /\ call # "none" /\ call' = "none" => out' = total]_formatterVars

(* While content is formatted, no '<' reaches the page, whatever bytes the *)
(* content has and wherever the buffer is cut.                             *)
ContentIsInert ==
    [][m_generic_format = "HTMLContent" /\ call # "none" =>
          \A i \in Len(out) + 1 .. Len(out') : out'[i] # LT]_formatterVars
=============================================================================
