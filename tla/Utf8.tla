-------------------------------- MODULE Utf8 --------------------------------
(***************************************************************************)
(* The conversions of src/lib/utils.cpp: a UTF-8 decoder that is given one *)
(* byte at a time, the encoder, and the two hexadecimal digits of a        *)
(* percent escape.  A byte is a number below 256, a glyph a code point.    *)
(***************************************************************************)
EXTENDS Naturals, Sequences

Bytes == 0 .. 255

NEWLINE == 10
PERCENT == 37
AMP     == 38
SLASH   == 47
LT      == 60
EQUALS  == 61
GT      == 62

(* U+FFFD.                                                                 *)
Replacement == 65533

(* convert_state: the bits so far, how many bytes are to come, and whether *)
(* all of them fitted.                                                     *)
Decoding(glyph, remaining, valid) ==
    [glyph |-> glyph, remaining |-> remaining, valid |-> valid]

ConvertState == Decoding(0, 0, FALSE)

(* utf8_to_32, the state it leaves.  Inside a sequence any byte counts; one *)
(* that does not continue it makes the sequence invalid.                   *)
Utf8To32(next, state) ==
    IF state.remaining > 0
    THEN IF state.valid /\ next >= 128 /\ next < 192
         THEN Decoding(64 * state.glyph + (next % 64), state.remaining - 1, TRUE)
         ELSE Decoding(state.glyph, state.remaining - 1, FALSE)
    ELSE IF next < 128 THEN Decoding(next, 0, TRUE)
    ELSE IF next < 192 THEN Decoding(state.glyph, 0, FALSE)
    ELSE IF next < 224 THEN Decoding(next % 32, 1, TRUE)
    ELSE IF next < 240 THEN Decoding(next % 16, 2, TRUE)
    ELSE IF next < 248 THEN Decoding(next % 8, 3, TRUE)
    ELSE Decoding(state.glyph, 0, FALSE)

(* What it returns: 0 until a sequence is complete.                        *)
Glyph(state) ==
    IF state.remaining > 0 THEN 0
    ELSE IF state.valid THEN state.glyph ELSE Replacement

ContinuationUnmasked(n) == 128 + n
Continuation(n)         == 128 + (n % 64)

(* utf32_to_8: nothing for what is not a code point.                       *)
Utf32To8(glyph) ==
    IF glyph < 128 THEN <<glyph>>
    ELSE IF glyph < 2048
    THEN <<192 + (glyph \div 64), Continuation(glyph)>>
    ELSE IF glyph < 65536
    THEN <<224 + (glyph \div 4096), Continuation(glyph \div 64), Continuation(glyph)>>
    ELSE IF glyph < 1114112
    THEN <<240 + (glyph \div 262144), Continuation(glyph \div 4096),
           Continuation(glyph \div 64), Continuation(glyph)>>
    ELSE <<>>

(* unhex of one digit, and of two.                                         *)
IsHexDigit(c) == c \in (48 .. 57) \cup (97 .. 102) \cup (65 .. 70)

HexValue(c) ==
    CASE c \in 48 .. 57  -> c - 48
      [] c \in 97 .. 102 -> c - 97 + 10
      [] c \in 65 .. 70  -> c - 65 + 10

Unhex(high, low) == 16 * HexValue(high) + HexValue(low)
=============================================================================
