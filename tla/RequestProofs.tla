----------------------------- MODULE RequestProofs -----------------------------
(***************************************************************************)
(* For any set of status codes and any number of writes: what reaches the  *)
(* web server is one block of headers and then the body, and the headers   *)
(* do not change once they are sent.  Every member function of Request     *)
(* keeps a request well formed, so any handler does; and none forgets a    *)
(* status or that a setter came too late.                                  *)
(***************************************************************************)
EXTENDS Request, TLAPS

Values == StatusCodes \cup {"200", "404", "405", "500"} \cup ContentTypes \cup {"42"}

Blocks == [headers : HeaderMaps]
Bodies == [body : Formats]

RequestType == [headers : HeaderMaps, headers_sent : BOOLEAN,
                encoding : Formats, warned : BOOLEAN, complaints : Nat,
                wire : Seq(Blocks \cup Bodies)]

(* The response so far, and the headers as they were sent.                 *)
WellFormed(r) ==
    /\ r \in RequestType
    /\ r.headers_sent <=> r.wire # <<>>
    /\ r.wire # <<>> => /\ r.wire[1] \in Blocks
                        /\ r.wire[1].headers = r.headers
                        /\ r.headers["Status"] # Unset
    /\ \A i \in 2 .. Len(r.wire) : r.wire[i] \in Bodies

(* Where the server thread is and what has been logged.                    *)
PhaseInv ==
    /\ served \in BOOLEAN
    /\ stream \in Formats \cup {"none"}
    /\ result \in RouteResults
    /\ refused \in BOOLEAN
    /\ untouched \in BOOLEAN
    /\ phase \in {"handler", "status", "respond", "log", "destructor", "done"}
    /\ phase \in {"respond", "log"} => request.headers["Status"] # Unset
    /\ phase = "done" => request.headers_sent
    /\ phase \in {"destructor", "done"} /\ served =>
          request.headers["Status"] # Unset /\ logged = request.headers["Status"]

IInv == WellFormed(request) /\ PhaseInv

USE UnsetAssumption DEF Keys, ContentTypes, Encodings, RouteResults, Formats

-----------------------------------------------------------------------------
(* The member functions.                                                   *)

LEMMA EmplaceKeeps ==
    ASSUME NEW r, WellFormed(r), ~r.headers_sent, NEW key \in Keys, NEW value \in Values
    PROVE  /\ WellFormed(Emplace(r, key, value))
           /\ ~Emplace(r, key, value).headers_sent
           /\ Emplace(r, key, value).headers[key] # Unset
           /\ Emplace(r, key, value).encoding = r.encoding
<1>1. r \in RequestType /\ r.headers \in HeaderMaps
  BY DEF WellFormed, RequestType
<1>2. value # Unset
  BY DEF Values
<1>3. CASE r.headers[key] = Unset
  <2> DEFINE h == [r.headers EXCEPT ![key] = value]
  <2>1. h \in HeaderMaps /\ h[key] = value
    BY <1>1 DEF HeaderMaps, Values
  <2>2. Emplace(r, key, value) = [r EXCEPT !.headers = h]
    BY <1>1, <1>3 DEF Emplace, RequestType
  <2> HIDE DEF h
  <2>3. [r EXCEPT !.headers = h] \in RequestType
    BY <1>1, <2>1 DEF RequestType
  <2> QED BY <1>1, <1>2, <2>1, <2>2, <2>3 DEF WellFormed, RequestType
<1>4. CASE r.headers[key] # Unset
  BY <1>4 DEF Emplace
<1> QED BY <1>3, <1>4

LEMMA SetHeaderKeeps ==
    ASSUME NEW r, WellFormed(r), NEW key \in Keys, NEW value \in Values
    PROVE  /\ WellFormed(SetHeader(r, key, value))
           /\ SetHeader(r, key, value).headers_sent = r.headers_sent
           /\ r.headers_sent => SetHeader(r, key, value).headers = r.headers
           /\ SetHeader(r, key, value).encoding = r.encoding
<1>1. CASE r.headers_sent
  <2> DEFINE c == [r EXCEPT !.warned = TRUE, !.complaints = @ + 1]
  <2>1. r \in RequestType
    BY DEF WellFormed
  <2>2. /\ c \in RequestType
        /\ c.headers_sent = r.headers_sent
        /\ c.headers = r.headers
        /\ c.encoding = r.encoding
        /\ c.wire = r.wire
    <3>1. r.complaints + 1 \in Nat
      BY <2>1 DEF RequestType
    <3>2. c \in RequestType
      BY <2>1, <3>1 DEF RequestType
    <3>3. c.headers_sent = r.headers_sent /\ c.headers = r.headers
      BY <2>1 DEF RequestType
    <3>4. c.encoding = r.encoding /\ c.wire = r.wire
      BY <2>1 DEF RequestType
    <3> QED BY <3>2, <3>3, <3>4
  <2>3. Complain(r) = IF r.warned THEN r ELSE c
    BY DEF Complain
  <2> HIDE DEF c
  <2>4. WellFormed(c)
    BY <2>2 DEF WellFormed
  <2>5. SetHeader(r, key, value) = Complain(r)
    BY <1>1 DEF SetHeader
  <2> QED BY <2>2, <2>3, <2>4, <2>5
<1>2. CASE ~r.headers_sent
  <2>1. SetHeader(r, key, value) = Emplace(r, key, value)
    BY <1>2 DEF SetHeader
  <2> DEFINE e == Emplace(r, key, value)
  <2>2. WellFormed(e) /\ ~e.headers_sent /\ e.encoding = r.encoding
    BY <1>2, EmplaceKeeps
  <2> HIDE DEF e
  <2>3. r.headers_sent \in BOOLEAN /\ e.headers_sent \in BOOLEAN
    BY <2>2 DEF WellFormed, RequestType
  <2>4. e.headers_sent = r.headers_sent
    BY <1>2, <2>2, <2>3
  <2>5. SetHeader(r, key, value) = e
    BY <2>1 DEF e
  <2> QED BY <1>2, <2>2, <2>4, <2>5
<1> QED BY <1>1, <1>2

LEMMA EncodingKeeps ==
    ASSUME NEW r, WellFormed(r), NEW encoding \in Formats
    PROVE  /\ WellFormed([r EXCEPT !.encoding = encoding])
           /\ [r EXCEPT !.encoding = encoding].headers_sent = r.headers_sent
           /\ [r EXCEPT !.encoding = encoding].headers = r.headers
           /\ [r EXCEPT !.encoding = encoding].encoding = encoding
BY DEF WellFormed, RequestType

LEMMA SetContentTypeAsKeeps ==
    ASSUME NEW r, WellFormed(r), NEW value \in ContentTypes, NEW encoding \in Encodings
    PROVE  /\ WellFormed(SetContentTypeAs(r, value, encoding))
           /\ SetContentTypeAs(r, value, encoding).headers_sent = r.headers_sent
<1> DEFINE s == SetHeader(r, "Content-Type", value)
<1>1. WellFormed(s) /\ s.headers_sent = r.headers_sent
  BY SetHeaderKeeps DEF Values
<1> HIDE DEF s
<1>2. WellFormed([s EXCEPT !.encoding = encoding])
      /\ [s EXCEPT !.encoding = encoding].headers_sent = s.headers_sent
  BY <1>1, EncodingKeeps
<1>3. SetContentTypeAs(r, value, encoding) = IF r.headers_sent THEN s
                                             ELSE [s EXCEPT !.encoding = encoding]
  BY DEF SetContentTypeAs, s
<1> QED BY <1>1, <1>2, <1>3

LEMMA SetContentTypeKeeps ==
    ASSUME NEW r, WellFormed(r), NEW value \in ContentTypes
    PROVE  /\ WellFormed(SetContentType(r, value))
           /\ SetContentType(r, value).headers_sent = r.headers_sent
<1>1. Detect(value) \in Encodings
  BY DEF Detect
<1> QED BY <1>1, SetContentTypeAsKeeps DEF SetContentType

LEMMA SendHeadersKeeps ==
    ASSUME NEW r, WellFormed(r)
    PROVE  /\ WellFormed(SendHeaders(r))
           /\ SendHeaders(r).headers_sent
           /\ r.headers_sent => SendHeaders(r) = r
<1>1. CASE r.headers_sent
  BY <1>1 DEF SendHeaders
<1>2. CASE ~r.headers_sent
  <2> DEFINE e == Emplace(r, "Status", "200")
             h == e.headers
             block == [headers |-> h]
             sent == [r EXCEPT !.headers = h, !.headers_sent = TRUE,
                               !.wire = Append(@, block)]
  <2>1. WellFormed(e) /\ h["Status"] # Unset
    BY <1>2, EmplaceKeeps DEF Values
  <2>2. h \in HeaderMaps
    BY <2>1 DEF WellFormed, RequestType
  <2>3. SendHeaders(r) = sent
    BY <1>2 DEF SendHeaders
  <2>4. r \in RequestType /\ r.wire = <<>>
    BY <1>2 DEF WellFormed
  <2> HIDE DEF h, e
  <2>5. block \in Blocks /\ block.headers = h
    BY <2>2 DEF Blocks
  <2> HIDE DEF block
  <2>6. sent \in RequestType
    <3>1. Append(r.wire, block) \in Seq(Blocks \cup Bodies)
      BY <2>4, <2>5 DEF RequestType
    <3> QED BY <2>2, <2>4, <3>1 DEF RequestType
  <2>7. sent.wire = <<block>> /\ sent.headers = h /\ sent.headers_sent
    BY <2>4 DEF RequestType
  <2>8. sent.wire # <<>> /\ sent.wire[1] = block /\ Len(sent.wire) = 1
    BY <2>7
  <2> HIDE DEF sent
  <2> QED BY <1>2, <2>1, <2>3, <2>5, <2>6, <2>7, <2>8 DEF WellFormed
<1> QED BY <1>1, <1>2

LEMMA PutKeeps ==
    ASSUME NEW r, WellFormed(r), r.headers_sent, NEW body \in Formats
    PROVE  WellFormed(Put(r, body)) /\ Put(r, body).headers_sent
<1> DEFINE piece == [body |-> body]
           put == [r EXCEPT !.wire = Append(@, piece)]
<1>1. r \in RequestType /\ r.wire \in Seq(Blocks \cup Bodies) /\ r.wire # <<>>
  BY DEF WellFormed, RequestType
<1>2. piece \in Bodies
  BY DEF Bodies
<1> HIDE DEF piece
<1>3. put.wire = Append(r.wire, piece) /\ put.headers = r.headers /\ put.headers_sent
  BY <1>1 DEF RequestType
<1>4. Append(r.wire, piece) \in Seq(Blocks \cup Bodies)
  BY <1>1, <1>2
<1>5. put \in RequestType
  BY <1>1, <1>4 DEF RequestType
<1>6. /\ put.wire # <<>>
      /\ put.wire[1] = r.wire[1]
      /\ \A i \in 2 .. Len(put.wire) : put.wire[i] \in Bodies
  BY <1>1, <1>2, <1>3 DEF WellFormed
<1>7. Put(r, body) = put
  BY DEF Put, piece
<1> HIDE DEF put
<1> QED BY <1>3, <1>5, <1>6, <1>7 DEF WellFormed

LEMMA WriteKeeps ==
    ASSUME NEW r, WellFormed(r), NEW body \in Formats
    PROVE  WellFormed(Write(r, body)) /\ Write(r, body).headers_sent
BY SendHeadersKeeps, PutKeeps DEF Write

LEMMA PageKeeps ==
    ASSUME NEW r, WellFormed(r)
    PROVE  WellFormed(Page(r))
<1> DEFINE typed == SetContentType(r, "text/plain")
<1>1. WellFormed(typed)
  BY SetContentTypeKeeps
<1>2. typed.encoding \in Formats
  BY <1>1 DEF WellFormed, RequestType
<1> HIDE DEF typed
<1>3. WellFormed(Write(typed, typed.encoding))
  BY <1>1, <1>2, WriteKeeps
<1> QED BY <1>1, <1>3 DEF Page, typed

LEMMA FallbackKeeps ==
    ASSUME NEW r, WellFormed(r)
    PROVE  WellFormed(Fallback(r)) /\ Fallback(r).headers_sent
<1> DEFINE status == SetHeader(r, "Status", "500")
           typed  == SetContentType(status, "text/plain")
           sized  == SetHeader(typed, "Content-Length", "42")
<1>1. WellFormed(status)
  BY SetHeaderKeeps DEF Values
<1>2. WellFormed(typed)
  BY <1>1, SetContentTypeKeeps
<1>3. WellFormed(sized)
  BY <1>2, SetHeaderKeeps DEF Values
<1> HIDE DEF sized
<1>4. WellFormed(Write(sized, "Verbatim")) /\ Write(sized, "Verbatim").headers_sent
  BY <1>3, WriteKeeps
<1> QED BY <1>4 DEF Fallback, sized
-----------------------------------------------------------------------------
(* What a request remembers: whether it has complained, and its status.    *)

Remembers(r, s) ==
    /\ s.warned = r.warned
    /\ s.complaints = r.complaints
    /\ r.headers["Status"] # Unset => s.headers["Status"] = r.headers["Status"]

(* A header that has a value keeps it.                                     *)
LEMMA EmplaceRemembers ==
    ASSUME NEW r \in RequestType, NEW key \in Keys, NEW value \in Values
    PROVE  /\ Remembers(r, Emplace(r, key, value))
           /\ r.headers["Status"] = Unset /\ key = "Status" =>
                 Emplace(r, key, value).headers["Status"] = value
<1>1. r.headers \in HeaderMaps
  BY DEF RequestType
<1>2. CASE r.headers[key] = Unset
  <2> DEFINE h == [r.headers EXCEPT ![key] = value]
  <2>1. /\ r.headers["Status"] # Unset => h["Status"] = r.headers["Status"]
        /\ key = "Status" => h["Status"] = value
    BY <1>1, <1>2 DEF HeaderMaps
  <2>2. Emplace(r, key, value) = [r EXCEPT !.headers = h]
    BY <1>2 DEF Emplace, RequestType
  <2> HIDE DEF h
  <2>3. /\ Emplace(r, key, value).headers = h
        /\ Emplace(r, key, value).warned = r.warned
        /\ Emplace(r, key, value).complaints = r.complaints
    BY <2>2 DEF RequestType
  <2> QED BY <2>1, <2>3 DEF Remembers
<1>3. CASE r.headers[key] # Unset
  BY <1>3 DEF Emplace, Remembers
<1> QED BY <1>2, <1>3

(* The once_flag: the first setter that comes too late is complained       *)
(* about.                                                                  *)
LEMMA LateSetterComplains ==
    ASSUME NEW r, WellFormed(r), r.headers_sent, NEW key \in Keys, NEW value \in Values
    PROVE  LET s == SetHeader(r, key, value)
           IN  s.warned /\ s.complaints = IF r.warned THEN r.complaints
                                                      ELSE r.complaints + 1
<1>1. r \in RequestType
  BY DEF WellFormed
<1>2. SetHeader(r, key, value) = Complain(r)
  BY DEF SetHeader
<1> QED BY <1>1, <1>2 DEF Complain, RequestType

LEMMA EarlySetterRemembers ==
    ASSUME NEW r, WellFormed(r), ~r.headers_sent, NEW key \in Keys, NEW value \in Values
    PROVE  Remembers(r, SetHeader(r, key, value))
BY EmplaceRemembers DEF SetHeader, WellFormed

LEMMA EncodingRemembers ==
    ASSUME NEW r, WellFormed(r), NEW encoding \in Formats
    PROVE  Remembers(r, [r EXCEPT !.encoding = encoding])
BY DEF WellFormed, RequestType, Remembers

LEMMA EarlyTypeRemembers ==
    ASSUME NEW r, WellFormed(r), ~r.headers_sent,
           NEW value \in ContentTypes, NEW encoding \in Encodings
    PROVE  Remembers(r, SetContentTypeAs(r, value, encoding))
<1> DEFINE s == SetHeader(r, "Content-Type", value)
<1>1. WellFormed(s) /\ Remembers(r, s)
  BY SetHeaderKeeps, EarlySetterRemembers DEF Values
<1> HIDE DEF s
<1>2. Remembers(s, [s EXCEPT !.encoding = encoding])
  BY <1>1, EncodingRemembers
<1>3. SetContentTypeAs(r, value, encoding) = [s EXCEPT !.encoding = encoding]
  BY DEF SetContentTypeAs, s
<1> QED BY <1>1, <1>2, <1>3 DEF Remembers

LEMMA LateTypeIsLateSetter ==
    ASSUME NEW r, r.headers_sent, NEW value, NEW encoding
    PROVE  SetContentTypeAs(r, value, encoding) = SetHeader(r, "Content-Type", value)
BY DEF SetContentTypeAs

LEMMA SendHeadersRemembers ==
    ASSUME NEW r, WellFormed(r)
    PROVE  Remembers(r, SendHeaders(r))
<1>1. r \in RequestType
  BY DEF WellFormed
<1>2. CASE r.headers_sent
  BY <1>2 DEF SendHeaders, Remembers
<1>3. CASE ~r.headers_sent
  <2> DEFINE h == Emplace(r, "Status", "200").headers
             block == [headers |-> h]
             sent == [r EXCEPT !.headers = h, !.headers_sent = TRUE,
                               !.wire = Append(@, block)]
  <2>1. r.headers["Status"] # Unset => h["Status"] = r.headers["Status"]
    BY <1>1, EmplaceRemembers DEF Remembers, Values
  <2>2. SendHeaders(r) = sent
    BY <1>3 DEF SendHeaders
  <2> HIDE DEF h, block
  <2>3. sent.headers = h /\ sent.warned = r.warned /\ sent.complaints = r.complaints
    BY <1>1 DEF RequestType
  <2> QED BY <2>1, <2>2, <2>3 DEF Remembers
<1> QED BY <1>2, <1>3

LEMMA WriteRemembers ==
    ASSUME NEW r, WellFormed(r), NEW body
    PROVE  Remembers(r, Write(r, body))
<1> DEFINE s == SendHeaders(r)
           piece == [body |-> body]
<1>1. s \in RequestType /\ Remembers(r, s)
  BY SendHeadersKeeps, SendHeadersRemembers DEF WellFormed
<1>2. Write(r, body) = [s EXCEPT !.wire = Append(@, piece)]
  BY DEF Write, Put
<1> HIDE DEF s, piece
<1> QED BY <1>1, <1>2 DEF RequestType, Remembers

LEMMA PageRemembers ==
    ASSUME NEW r, WellFormed(r), ~r.headers_sent
    PROVE  Remembers(r, Page(r))
<1> DEFINE typed == SetContentType(r, "text/plain")
<1>1. WellFormed(typed)
  BY SetContentTypeKeeps
<1>2. Remembers(r, typed)
  BY EarlyTypeRemembers DEF SetContentType, Detect
<1> HIDE DEF typed
<1>3. Remembers(typed, Write(typed, typed.encoding))
  BY <1>1, WriteRemembers
<1> QED BY <1>2, <1>3 DEF Page, typed, Remembers

LEMMA FallbackRemembers ==
    ASSUME NEW r, WellFormed(r), ~r.headers_sent
    PROVE  Remembers(r, Fallback(r))
<1> DEFINE status == SetHeader(r, "Status", "500")
           typed  == SetContentType(status, "text/plain")
           sized  == SetHeader(typed, "Content-Length", "42")
<1>1. WellFormed(status) /\ ~status.headers_sent /\ Remembers(r, status)
  BY SetHeaderKeeps, EarlySetterRemembers DEF Values
<1> HIDE DEF status
<1>2. WellFormed(typed) /\ ~typed.headers_sent
  BY <1>1, SetContentTypeKeeps
<1>3. Remembers(status, typed)
  BY <1>1, EarlyTypeRemembers DEF SetContentType, Detect
<1> HIDE DEF typed
<1>4. WellFormed(sized) /\ Remembers(typed, sized)
  BY <1>2, SetHeaderKeeps, EarlySetterRemembers DEF Values
<1> HIDE DEF sized
<1>5. Remembers(sized, Write(sized, "Verbatim"))
  BY <1>4, WriteRemembers
<1> QED BY <1>1, <1>3, <1>4, <1>5 DEF Fallback, sized, typed, status, Remembers

-----------------------------------------------------------------------------
(* The steps.                                                              *)

LEMMA InitIInv == Init => IInv
<1> SUFFICES ASSUME NEW garbage \in Encodings \cup {"invalid"},
                    Init, request = NewRequest(garbage)
             PROVE  IInv
  BY DEF Init
<1>1. [key \in Keys |-> Unset] \in HeaderMaps
  BY DEF HeaderMaps
<1>2. NewRequest(garbage) \in RequestType
  BY <1>1 DEF NewRequest, RequestType
<1>3. NewRequest(garbage).headers_sent = FALSE /\ NewRequest(garbage).wire = <<>>
  BY DEF NewRequest
<1>4. WellFormed(request)
  BY <1>2, <1>3 DEF WellFormed
<1> QED BY <1>4 DEF Init, IInv, PhaseInv

(* While the handler runs it is enough that the request stays well formed. *)
LEMMA HandlerKeeps ==
    ASSUME IInv, phase = "handler", WellFormed(request'), phase' = phase,
           UNCHANGED <<served, result, untouched>>,
           stream' \in Formats \cup {"none"}, refused' \in BOOLEAN
    PROVE  IInv'
BY DEF IInv, PhaseInv

LEMMA SetterKeeps ==
    ASSUME IInv, NEW key, NEW value, NEW new, WellFormed(new), Setter(key, value, new)
    PROVE  IInv'
<1>1. refused' \in BOOLEAN
  BY DEF Setter, IInv, PhaseInv, WellFormed, RequestType
<1>2. /\ phase = "handler" /\ request' = new /\ phase' = phase
      /\ UNCHANGED <<served, result, untouched>>
      /\ stream' \in Formats \cup {"none"}
  BY DEF Setter, IInv, PhaseInv
<1>3. WellFormed(request')
  BY <1>2
<1> QED BY <1>1, <1>2, <1>3, HandlerKeeps

LEMMA HandlerDoesKeeps ==
    ASSUME IInv, NEW new, WellFormed(new), HandlerDoes(new)
    PROVE  IInv'
<1>1. /\ phase = "handler" /\ request' = new /\ phase' = phase
      /\ UNCHANGED <<served, result, untouched>>
      /\ stream' \in Formats \cup {"none"} /\ refused' \in BOOLEAN
  BY DEF HandlerDoes, IInv, PhaseInv
<1>2. WellFormed(request')
  BY <1>1
<1> QED BY <1>1, <1>2, HandlerKeeps

LEMMA HandlerStepKeeps ==
    ASSUME IInv,
           \/ HandlerSetsStatus \/ HandlerSetsLength \/ HandlerSetsType
           \/ SetEncoding \/ HandlerSendsHeaders \/ HandlerWrites
           \/ WriteStream \/ StreamAppend
    PROVE  IInv'
<1> USE DEF IInv
<1>1. CASE HandlerSetsStatus
  BY <1>1, SetHeaderKeeps, SetterKeeps DEF HandlerSetsStatus, Values
<1>2. CASE HandlerSetsLength
  BY <1>2, SetHeaderKeeps, SetterKeeps DEF HandlerSetsLength, Values
<1>3. CASE HandlerSetsType
  BY <1>3, SetContentTypeKeeps, SetContentTypeAsKeeps, SetterKeeps DEF HandlerSetsType
<1>4. CASE SetEncoding
  BY <1>4, EncodingKeeps, HandlerDoesKeeps DEF SetEncoding
<1>5. CASE HandlerSendsHeaders
  BY <1>5, SendHeadersKeeps, HandlerDoesKeeps DEF HandlerSendsHeaders
<1>6. CASE HandlerWrites
  BY <1>6, WriteKeeps, HandlerDoesKeeps DEF HandlerWrites
<1>7. CASE WriteStream
  <2>1. /\ phase = "handler" /\ request' = request /\ phase' = phase
        /\ UNCHANGED <<served, result, untouched>>
        /\ stream' \in Formats \cup {"none"} /\ refused' \in BOOLEAN
    BY <1>7 DEF WriteStream, PhaseInv, WellFormed, RequestType
  <2>2. WellFormed(request')
    BY <2>1
  <2> QED BY <2>1, <2>2, HandlerKeeps
<1>8. CASE StreamAppend
  <2>1. stream \in Formats
    BY <1>8 DEF StreamAppend, PhaseInv
  <2> QED BY <1>8, <2>1, WriteKeeps, HandlerDoesKeeps DEF StreamAppend
<1> QED BY <1>1, <1>2, <1>3, <1>4, <1>5, <1>6, <1>7, <1>8

LEMMA HandlerEndsKeeps ==
    ASSUME IInv, NEW route_result \in RouteResults, HandlerEnds(route_result)
    PROVE  IInv'
<1>1. WellFormed(request')
  BY DEF HandlerEnds, IInv, WellFormed
<1>2. untouched' \in BOOLEAN
  BY DEF HandlerEnds
<1> QED BY <1>1, <1>2 DEF HandlerEnds, IInv, PhaseInv

(* What the handler has left is not lost while the response is completed.  *)
LEMMA RespondRemembers == ASSUME IInv, Respond PROVE Remembers(request, request')
<1>1. WellFormed(request)
  BY DEF IInv
<1>2. CASE request.headers_sent
  BY <1>2 DEF Respond, Proceed, Remembers
<1>3. CASE ~request.headers_sent /\ Empty(request, "Content-Type")
  <2>1. request' = Page(request)
    BY <1>3 DEF Respond, Proceed
  <2> QED BY <1>1, <1>3, <2>1, PageRemembers
<1>4. CASE ~request.headers_sent /\ ~Empty(request, "Content-Type")
  <2>1. request' = SendHeaders(request)
    BY <1>4 DEF Respond, Proceed
  <2> QED BY <1>1, <2>1, SendHeadersRemembers
<1> QED BY <1>2, <1>3, <1>4

LEMMA DestructorRemembers == ASSUME IInv, Destructor PROVE Remembers(request, request')
BY FallbackRemembers DEF Destructor, Proceed, Remembers, IInv

(* thread_function and the destructor.                                     *)
LEMMA ServerStepKeeps ==
    ASSUME IInv, DefaultStatus \/ Respond \/ LogRequest \/ Destructor
    PROVE  IInv'
<1>1. CASE DefaultStatus
  <2>1. StatusCode(result) \in Values
    BY DEF StatusCode, Values, IInv, PhaseInv
  <2>2. WellFormed(request')
    BY <1>1, <2>1, SetHeaderKeeps DEF DefaultStatus, Proceed, IInv
  <2>3. refused' \in BOOLEAN
    BY <1>1 DEF DefaultStatus, Empty, IInv, WellFormed, RequestType, PhaseInv
  <2>4. request'.headers["Status"] # Unset
    <3>1. CASE Empty(request, "Status") /\ ~request.headers_sent
      <4>1. request' = Emplace(request, "Status", StatusCode(result))
        BY <1>1, <3>1 DEF DefaultStatus, Proceed, SetHeader
      <4> QED BY <2>1, <3>1, <4>1, EmplaceKeeps DEF IInv
    <3>2. CASE Empty(request, "Status") /\ request.headers_sent
      <4>1. request' = SetHeader(request, "Status", StatusCode(result))
        BY <1>1, <3>2 DEF DefaultStatus, Proceed
      <4>2. request'.headers_sent
        BY <2>1, <3>2, <4>1, SetHeaderKeeps DEF IInv
      <4> QED BY <2>2, <4>2 DEF WellFormed
    <3>3. CASE ~Empty(request, "Status")
      BY <1>1, <3>3 DEF DefaultStatus, Proceed, Empty
    <3> QED BY <3>1, <3>2, <3>3
  <2> QED BY <1>1, <2>2, <2>3, <2>4 DEF DefaultStatus, Proceed, IInv, PhaseInv
<1>2. CASE Respond
  <2>1. WellFormed(request')
    BY <1>2, PageKeeps, SendHeadersKeeps DEF Respond, Proceed, IInv
  <2>2. request'.headers["Status"] # Unset
    BY <1>2, RespondRemembers DEF Respond, Remembers, IInv, PhaseInv
  <2> QED BY <1>2, <2>1, <2>2 DEF Respond, Proceed, IInv, PhaseInv
<1>3. CASE LogRequest
  <2>1. /\ request' = request /\ request.headers["Status"] # Unset
        /\ logged' = request.headers["Status"]
    BY <1>3 DEF LogRequest, Proceed, IInv, PhaseInv
  <2>2. WellFormed(request')
    BY <2>1 DEF IInv
  <2> QED BY <1>3, <2>1, <2>2 DEF LogRequest, Proceed, IInv, PhaseInv
<1>4. CASE Destructor
  <2>1. WellFormed(request') /\ request'.headers_sent
    BY <1>4, FallbackKeeps DEF Destructor, Proceed, IInv
  <2>2. served => request'.headers["Status"] = request.headers["Status"]
    BY <1>4, DestructorRemembers DEF Destructor, Remembers, IInv, PhaseInv
  <2> QED BY <1>4, <2>1, <2>2 DEF Destructor, Proceed, IInv, PhaseInv
<1> QED BY <1>1, <1>2, <1>3, <1>4

LEMMA NextKeepsIInv == IInv /\ [Next]_vars => IInv'
<1> SUFFICES ASSUME IInv, [Next]_vars PROVE IInv'
  OBVIOUS
<1>1. CASE UNCHANGED vars
  BY <1>1 DEF vars, IInv, PhaseInv, WellFormed
<1>2. CASE \/ HandlerSetsStatus \/ HandlerSetsLength \/ HandlerSetsType
           \/ SetEncoding \/ HandlerSendsHeaders \/ HandlerWrites
           \/ WriteStream \/ StreamAppend
  BY <1>2, HandlerStepKeeps
<1>3. CASE HandlerReturns \/ HandlerThrows
  BY <1>3, HandlerEndsKeeps DEF HandlerReturns, HandlerThrows
<1>4. CASE DefaultStatus \/ Respond \/ LogRequest \/ Destructor
  BY <1>4, ServerStepKeeps
<1>5. CASE Done
  BY <1>1, <1>5 DEF Done
<1> QED BY <1>1, <1>2, <1>3, <1>4, <1>5 DEF Next

-----------------------------------------------------------------------------
(* The complaint and the status, from step to step: the flag is up when    *)
(* some setter was refused, and a status the handler left open is the one  *)
(* of the result from the moment the server sets it.                       *)
MemoryInv ==
    /\ request.warned = refused
    /\ request.complaints = IF refused THEN 1 ELSE 0
    /\ phase = "status" /\ untouched => request.headers["Status"] = Unset
    /\ phase \in {"respond", "log", "destructor", "done"} /\ served /\ untouched =>
          request.headers["Status"] = StatusCode(result)

LEMMA InitMemory == Init => MemoryInv
<1> SUFFICES ASSUME NEW garbage, Init, request = NewRequest(garbage)
             PROVE  MemoryInv
  BY DEF Init
<1>1. request.warned = FALSE /\ request.complaints = 0
  BY DEF NewRequest
<1> QED BY <1>1 DEF Init, MemoryInv

(* A setter is complained about once it is too late, and only then.        *)
LEMMA SetterMemory ==
    ASSUME IInv, MemoryInv, NEW key, NEW value, NEW new, Setter(key, value, new),
           ~request.headers_sent => Remembers(request, new),
           request.headers_sent =>
              new.warned /\ new.complaints = IF request.warned THEN request.complaints
                                             ELSE request.complaints + 1,
           new \in RequestType
    PROVE  MemoryInv'
<1>1. /\ phase = "handler" /\ phase' = phase /\ request' = new
      /\ refused' = (refused \/ request.headers_sent)
      /\ refused \in BOOLEAN
  BY DEF Setter, IInv, PhaseInv
<1>2. CASE request.headers_sent
  <2>1. refused' = TRUE /\ new.warned = TRUE
    BY <1>1, <1>2 DEF RequestType
  <2>2. new.complaints = 1
    BY <1>1, <1>2 DEF MemoryInv
  <2> QED BY <1>1, <2>1, <2>2 DEF MemoryInv
<1>3. CASE ~request.headers_sent
  <2>1. refused' = refused
    BY <1>1, <1>3
  <2>2. new.warned = request.warned /\ new.complaints = request.complaints
    BY <1>3 DEF Remembers
  <2> QED BY <1>1, <2>1, <2>2 DEF MemoryInv
<1> QED BY <1>2, <1>3

LEMMA HandlerDoesMemory ==
    ASSUME MemoryInv, NEW new, HandlerDoes(new), Remembers(request, new)
    PROVE  MemoryInv'
BY DEF HandlerDoes, Remembers, MemoryInv

LEMMA HandlerStepMemory ==
    ASSUME IInv, MemoryInv,
           \/ HandlerSetsStatus \/ HandlerSetsLength \/ HandlerSetsType
           \/ SetEncoding \/ HandlerSendsHeaders \/ HandlerWrites
           \/ WriteStream \/ StreamAppend
    PROVE  MemoryInv'
<1>1. WellFormed(request)
  BY DEF IInv
<1>2. ASSUME NEW key \in Keys, NEW value \in Values,
             Setter(key, value, SetHeader(request, key, value))
      PROVE  MemoryInv'
  <2>1. SetHeader(request, key, value) \in RequestType
    BY <1>1, SetHeaderKeeps DEF WellFormed
  <2> QED BY <1>1, <1>2, <2>1, SetterMemory, LateSetterComplains, EarlySetterRemembers
<1>3. ASSUME NEW value \in ContentTypes, NEW encoding \in Encodings,
             Setter("Content-Type", value, SetContentTypeAs(request, value, encoding))
      PROVE  MemoryInv'
  <2>1. SetContentTypeAs(request, value, encoding) \in RequestType
    BY <1>1, SetContentTypeAsKeeps DEF WellFormed
  <2>2. ~request.headers_sent =>
            Remembers(request, SetContentTypeAs(request, value, encoding))
    BY <1>1, EarlyTypeRemembers
  <2>3. request.headers_sent =>
            SetContentTypeAs(request, value, encoding) =
                SetHeader(request, "Content-Type", value)
    BY LateTypeIsLateSetter
  <2>4. value \in Values
    BY DEF Values
  <2> QED BY <1>1, <1>3, <2>1, <2>2, <2>3, <2>4, SetterMemory, LateSetterComplains
<1>4. CASE HandlerSetsStatus
  BY <1>2, <1>4 DEF HandlerSetsStatus, Values
<1>5. CASE HandlerSetsLength
  BY <1>2, <1>5 DEF HandlerSetsLength, Values
<1>6. CASE HandlerSetsType
  <2>1. \A value \in ContentTypes : Detect(value) \in Encodings
    BY DEF Detect
  <2> QED BY <1>3, <1>6, <2>1 DEF HandlerSetsType, SetContentType
<1>7. CASE SetEncoding
  BY <1>1, <1>7, EncodingRemembers, HandlerDoesMemory DEF SetEncoding
<1>8. CASE HandlerSendsHeaders
  BY <1>1, <1>8, SendHeadersRemembers, HandlerDoesMemory DEF HandlerSendsHeaders
<1>9. CASE HandlerWrites
  BY <1>1, <1>9, WriteRemembers, HandlerDoesMemory DEF HandlerWrites
<1>10. CASE WriteStream
  BY <1>10 DEF WriteStream, MemoryInv
<1>11. CASE StreamAppend
  BY <1>1, <1>11, WriteRemembers, HandlerDoesMemory DEF StreamAppend
<1> QED BY <1>4, <1>5, <1>6, <1>7, <1>8, <1>9, <1>10, <1>11

LEMMA HandlerEndsMemory ==
    ASSUME IInv, MemoryInv, NEW route_result, HandlerEnds(route_result)
    PROVE  MemoryInv'
<1>1. /\ request' = request /\ refused' = refused /\ served' = served
      /\ untouched' => request.headers["Status"] = Unset
      /\ phase' = IF served THEN "status" ELSE "destructor"
  BY DEF HandlerEnds
<1> QED BY <1>1 DEF MemoryInv

(* After the handler the default status is the only setter that may come   *)
(* once the headers are sent, when they hold a status without text.        *)
LEMMA ServerStepMemory ==
    ASSUME IInv, MemoryInv, DefaultStatus \/ Respond \/ LogRequest \/ Destructor
    PROVE  MemoryInv'
<1>1. /\ WellFormed(request)
      /\ request \in RequestType
      /\ UNCHANGED <<untouched, served, result>>
      /\ StatusCode(result) \in Values /\ StatusCode(result) # Unset
  BY DEF IInv, PhaseInv, WellFormed, DefaultStatus, Respond, LogRequest, Destructor, Proceed,
         StatusCode, Values
<1>2. CASE DefaultStatus
  <2>1. CASE request.headers["Status"] = Unset
    <3>1. ~request.headers_sent
      BY <1>1, <2>1 DEF WellFormed
    <3>2. /\ request' = Emplace(request, "Status", StatusCode(result))
          /\ phase' = "respond" /\ refused' = refused
      BY <1>2, <2>1, <3>1 DEF DefaultStatus, Proceed, SetHeader, Empty, IInv, PhaseInv
    <3>3. Remembers(request, request') /\ request'.headers["Status"] = StatusCode(result)
      BY <1>1, <2>1, <3>2, EmplaceRemembers
    <3> QED BY <1>1, <3>2, <3>3 DEF MemoryInv, Remembers
  <2>2. CASE request.headers["Status"] # Unset /\ ~(Empty(request, "Status") /\ request.headers_sent)
    <3>1. phase' = "respond" /\ refused' = refused /\ ~untouched
      BY <1>2, <2>2 DEF DefaultStatus, Proceed, MemoryInv, IInv, PhaseInv
    <3>2. Remembers(request, request')
      BY <1>1, <1>2, <2>2, EarlySetterRemembers DEF DefaultStatus, Proceed, Remembers
    <3> QED BY <1>1, <3>1, <3>2 DEF MemoryInv, Remembers
  <2>3. CASE request.headers["Status"] # Unset /\ Empty(request, "Status") /\ request.headers_sent
    <3>1. /\ request' = SetHeader(request, "Status", StatusCode(result))
          /\ phase' = "respond" /\ refused' = TRUE /\ ~untouched
      BY <1>2, <2>3 DEF DefaultStatus, Proceed, MemoryInv
    <3>2. request'.warned /\ request'.complaints = IF request.warned THEN request.complaints
                                                   ELSE request.complaints + 1
      BY <1>1, <2>3, <3>1, LateSetterComplains
    <3>3. request'.warned = TRUE
      BY <1>1, <2>3, <3>1, <3>2, SetHeaderKeeps DEF WellFormed, RequestType
    <3>4. refused \in BOOLEAN /\ request.warned = refused
      BY DEF MemoryInv, IInv, PhaseInv
    <3>5. request'.complaints = 1
      <4>1. CASE refused
        BY <3>2, <3>4, <4>1 DEF MemoryInv
      <4>2. CASE ~refused
        <5>1. ~request.warned /\ request.complaints = 0
          BY <3>4, <4>2 DEF MemoryInv
        <5>2. request'.complaints = request.complaints + 1
          BY <3>2, <5>1
        <5> QED BY <5>1, <5>2
      <4> QED BY <4>1, <4>2
    <3> QED BY <1>1, <3>1, <3>3, <3>5 DEF MemoryInv
  <2> QED BY <2>1, <2>2, <2>3
<1>3. CASE Respond
  <2>1. Remembers(request, request')
    BY <1>3, RespondRemembers
  <2>2. phase = "respond" /\ phase' = "log"
    BY <1>3 DEF Respond, Proceed
  <2>3. /\ refused' = refused /\ served' = served
        /\ untouched' = untouched /\ result' = result
    BY <1>3 DEF Respond, Proceed
  <2>4. served /\ untouched => request'.headers["Status"] = StatusCode(result)
    BY <1>1, <2>1, <2>2 DEF MemoryInv, Remembers
  <2>5. request'.warned = request.warned /\ request'.complaints = request.complaints
    BY <2>1 DEF Remembers
  <2> QED BY <2>2, <2>3, <2>4, <2>5 DEF MemoryInv
<1>4. CASE LogRequest
  BY <1>1, <1>4 DEF LogRequest, Proceed, MemoryInv
<1>5. CASE Destructor
  <2>1. Remembers(request, request')
    BY <1>5, DestructorRemembers
  <2>2. phase = "destructor" /\ phase' = "done"
    BY <1>5 DEF Destructor, Proceed
  <2>3. /\ refused' = refused /\ served' = served
        /\ untouched' = untouched /\ result' = result
    BY <1>5 DEF Destructor, Proceed
  <2>4. served /\ untouched => request'.headers["Status"] = StatusCode(result)
    BY <1>1, <2>1, <2>2 DEF MemoryInv, Remembers
  <2>5. request'.warned = request.warned /\ request'.complaints = request.complaints
    BY <2>1 DEF Remembers
  <2> QED BY <2>2, <2>3, <2>4, <2>5 DEF MemoryInv
<1> QED BY <1>2, <1>3, <1>4, <1>5

LEMMA NextMemory == IInv /\ MemoryInv /\ [Next]_vars => MemoryInv'
<1> SUFFICES ASSUME IInv, MemoryInv, [Next]_vars PROVE MemoryInv'
  OBVIOUS
<1>1. CASE UNCHANGED vars
  BY <1>1 DEF vars, MemoryInv
<1>2. CASE \/ HandlerSetsStatus \/ HandlerSetsLength \/ HandlerSetsType
           \/ SetEncoding \/ HandlerSendsHeaders \/ HandlerWrites
           \/ WriteStream \/ StreamAppend
  BY <1>2, HandlerStepMemory
<1>3. CASE HandlerReturns \/ HandlerThrows
  BY <1>3, HandlerEndsMemory DEF HandlerReturns, HandlerThrows
<1>4. CASE DefaultStatus \/ Respond \/ LogRequest \/ Destructor
  BY <1>4, ServerStepMemory
<1>5. CASE Done
  BY <1>1, <1>5 DEF Done
<1> QED BY <1>1, <1>2, <1>3, <1>4, <1>5 DEF Next

-----------------------------------------------------------------------------
(* The theorems.                                                           *)

(* The inductive invariant holds whatever the handler does.                *)
THEOREM Inductive == Spec => []IInv
BY InitIInv, NextKeepsIInv, PTL DEF Spec

(* The fields of a request keep their types.                               *)
THEOREM TypeCorrect == Spec => []TypeOK
<1>1. IInv => TypeOK
  BY DEF IInv, WellFormed, RequestType, Blocks, Bodies, PhaseInv, TypeOK
<1> QED BY Inductive, <1>1, PTL

(* send_headers and write put one block of headers on the wire, before     *)
(* anything else.                                                          *)
THEOREM OneBlockOfHeaders == Spec => []HeadersThenBody
<1>1. ASSUME IInv PROVE HeadersThenBody
  <2>1. \A block \in Blocks : "headers" \in DOMAIN block
    BY DEF Blocks
  <2>2. \A body \in Bodies : "headers" \notin DOMAIN body
    BY DEF Bodies
  <2>3. request.wire \in Seq(Blocks \cup Bodies)
    BY <1>1 DEF IInv, WellFormed, RequestType
  <2>4. \A i \in 1 .. Len(request.wire) :
            i = 1 \/ i \in 2 .. Len(request.wire)
    BY <2>3
  <2>5. 1 \in 1 .. Len(request.wire) => request.wire # <<>>
    BY <2>3
  <2> QED BY <1>1, <2>1, <2>2, <2>3, <2>4, <2>5 DEF IInv, WellFormed, HeadersThenBody
<1> QED BY Inductive, <1>1, PTL

(* set_header changes nothing after send_headers, and send_headers adds a  *)
(* status.                                                                 *)
THEOREM HeadersStay == Spec => []SentHeadersAreFinal
<1>1. IInv => SentHeadersAreFinal
  BY DEF IInv, WellFormed, SentHeadersAreFinal
<1> QED BY Inductive, <1>1, PTL

(* The server thread or the destructor answers what the handler did not,   *)
(* and log_request finds the status that is on the wire.                   *)
THEOREM AlwaysAnswered == Spec => []AnsweredAsLogged
<1>1. IInv => AnsweredAsLogged
  BY DEF IInv, WellFormed, PhaseInv, AnsweredAsLogged
<1> QED BY Inductive, <1>1, PTL

LEMMA Memory == Spec => []MemoryInv
BY InitIInv, NextKeepsIInv, InitMemory, NextMemory, Inductive, PTL DEF Spec

(* A setter that comes too late is complained about, once, whether the     *)
(* handler or the server calls it, and nothing else is.                    *)
THEOREM OneComplaint == Spec => []ComplainsOnce
<1>1. MemoryInv => ComplainsOnce
  BY DEF MemoryInv, ComplainsOnce
<1> QED BY Memory, <1>1, PTL

(* A handler that leaves the response to thread_function: its result, or   *)
(* its exception, decides the status that is on the wire.                  *)
THEOREM ResultDecidesStatus == Spec => []ResultSetsStatus
<1>1. ASSUME IInv, MemoryInv, phase = "done", served, untouched
      PROVE  request.wire[1].headers["Status"] = StatusCode(result)
  BY <1>1 DEF IInv, WellFormed, PhaseInv, MemoryInv
<1>2. IInv /\ MemoryInv => ResultSetsStatus
  BY <1>1 DEF IInv, PhaseInv, StatusCode, ResultSetsStatus
<1> QED BY Inductive, Memory, <1>2, PTL
=============================================================================
