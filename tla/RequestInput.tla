---------------------------- MODULE RequestInput ----------------------------
(***************************************************************************)
(* How fcgiserver::Request (src/lib/request.cpp) takes the environment of  *)
(* a request apart: variables, query, route, percent escapes and UTF-8.    *)
(* A text is a sequence of bytes; the names of variables are cut down to   *)
(* one letter.                                                             *)
(***************************************************************************)
EXTENDS Utf8, SequencesExt

QUERY_STRING == <<81>>
DOCUMENT_URI == <<68>>

(* std::string_view::find: where c is in text from a position on, or one   *)
(* past the end.                                                           *)
Find(text, c, from) ==
    Min({i \in from .. Len(text) : text[i] = c} \cup {Len(text) + 1})

(* The loop that query() and full_route() share: an element up to the next *)
(* separator, then the rest after it, until the rest is empty.             *)
Elements(text, separator) ==
    LET from[start \in 1 .. Len(text) + 2] ==
            IF start > Len(text)
            THEN <<>>
            ELSE LET cut == Find(text, separator, start)
                 IN  <<SubSeq(text, start, cut - 1)>> \o from[cut + 1]
    IN  from[1]

(* The split of a line of the environment or of the query at its first     *)
(* equals sign; without one the value is empty.                            *)
KeyValue(text) ==
    LET cut == Find(text, EQUALS, 1)
    IN  <<SubSeq(text, 1, cut - 1), SubSeq(text, cut + 1, Len(text))>>

(* env_map: lines without an equals sign are skipped, and of two lines for *)
(* one variable the first counts.                                          *)
EnvMap(lines) ==
    LET valid      == {i \in DOMAIN lines : Contains(lines[i], EQUALS)}
        key(i)     == KeyValue(lines[i])[1]
        first(k)   == Min({i \in valid : key(i) = k})
    IN  [k \in {key(i) : i \in valid} |-> KeyValue(lines[first(k)])[2]]

(* env: an unknown variable is the empty text.                             *)
Env(env_map, key) == IF key \in DOMAIN env_map THEN env_map[key] ELSE <<>>

Query(query_string) ==
    LET elements == Elements(query_string, AMP)
    IN  [i \in 1 .. Len(elements) |-> KeyValue(elements[i])]

(* full_route: empty components do not count.                              *)
KeepEmpty(element) == TRUE
NotEmpty(element)  == element # <<>>
Route(document_uri) ==
    LET elements == Elements(document_uri, SLASH)
    IN  FlattenSeq([i \in DOMAIN elements |->
                       IF NotEmpty(elements[i]) THEN <<elements[i]>> ELSE <<>>])

(* query_decode: an escape needs two more bytes that are digits; anything  *)
(* else stands for itself.                                                 *)
LastEscapeLost(text, i) ==
    /\ text[i] = PERCENT
    /\ i + 2 < Len(text)
    /\ IsHexDigit(text[i + 1]) /\ IsHexDigit(text[i + 2])

IsEscape(text, i) ==
    /\ text[i] = PERCENT
    /\ i + 2 <= Len(text)
    /\ IsHexDigit(text[i + 1]) /\ IsHexDigit(text[i + 2])

QueryDecode(text) ==
    LET from[i \in 1 .. Len(text) + 1] ==
            IF i > Len(text) THEN <<>>
            ELSE IF IsEscape(text, i)
                 THEN <<Unhex(text[i + 1], text[i + 2])>> \o from[i + 3]
                 ELSE <<text[i]>> \o from[i + 1]
    IN  from[1]

(* utf8_decode and utf8_encode.                                            *)
Utf8Decode(text) ==
    LET state[n \in 0 .. Len(text)] ==
            IF n = 0 THEN ConvertState ELSE Utf8To32(text[n], state[n - 1])
    IN  FlattenSeq([n \in DOMAIN text |->
                       IF Glyph(state[n]) = 0 THEN <<>> ELSE <<Glyph(state[n])>>])

Utf8Encode(glyphs) ==
    FlattenSeq([i \in 1 .. Len(glyphs) |-> Utf32To8(glyphs[i])])
=============================================================================
